----------------------------- MODULE UnixSocket -----------------------------
(***************************************************************************)
(* UnixListener, IPCClient and the peers at the other end: the accept      *)
(* loop, one thread for each connection with its read, handle and write,   *)
(* and their stop by the main thread.                                      *)
(*                                                                         *)
(* A peer connects once while the process lives.  The peers in Eager send  *)
(* without waiting for answers, so that requests may arrive together.      *)
(***************************************************************************)
EXTENDS Process, RequestHandler

CONSTANTS
    Eager,      \* the peers that do not wait for an answer
    NameFits,   \* whether the socket's name fits into sun_path: bind() is given as
                \* much of the name as fits, unlink() all of it
    CanRefuse,  \* bound: whether bind() and listen() may fail although the name is
                \* free (no such directory, no permission, no memory)
    Script      \* bound: the requests each peer sends, while no stop has begun

ASSUME SocketAssumption ==
    /\ Eager \subseteq Conns
    /\ {NameFits, CanRefuse} \subseteq BOOLEAN
    /\ Script \in [Conns -> Seq(Request)]

VARIABLES
    path,       \* the socket's file: "none", "bound" to our socket, or "stale",
                \* left behind by a process that is no more
    listener,   \* where the listener's thread is in run()
    lfd,        \* UnixListener::_fd
    backlog,    \* connections not yet accepted
    handlers,   \* UnixListener::_cl_handlers
    walk,       \* the iterators of main's walk over them
    client,     \* where the thread of each IPCClient is
    cfd,        \* IPCClient::_fd
    source,     \* the connection that the client's read() works on
    text,       \* IPCClient::_buf, the requests in it
    peer,       \* "away", "open", or "gone"
    inbox,      \* what a connection carries to the ship
    sent,       \* history: the requests each peer has sent,
    served,     \* the texts of each connection that were handled,
    pushed,     \* the events pushed for them,
    told        \* and the answers written to it

listenerVars == <<path, listener, lfd, backlog, handlers, walk>>
clientVars == <<client, cfd, source, text>>
peerVars == <<peer, inbox, sent, served, pushed, told>>

Empty == [c \in Conns |-> <<>>]

NoWalk == [at |-> 1, end |-> 0]
Idle == [c \in Conns |-> "none"]
Away == [c \in Conns |-> "away"]
Unset == [c \in Conns |-> NoFd]
Own == [c \in Conns |-> c]

SocketInit ==
    /\ listener = "off" /\ lfd = NoFd
    /\ backlog = <<>> /\ handlers = <<>> /\ walk = NoWalk
    /\ client = Idle /\ cfd = Unset /\ source = Own /\ text = Empty
    /\ peer = Away /\ inbox = Empty
    /\ sent = Empty /\ served = Empty /\ pushed = Empty /\ told = Empty

\* The process is gone and takes its threads and connections with it.
SocketEnds ==
    /\ listener' = "off" /\ lfd' = NoFd
    /\ backlog' = <<>> /\ handlers' = <<>> /\ walk' = NoWalk
    /\ client' = Idle /\ cfd' = Unset /\ source' = Own /\ text' = Empty
    /\ peer' = Away /\ inbox' = Empty
    /\ sent' = Empty /\ served' = Empty /\ pushed' = Empty /\ told' = Empty
    /\ path' = IF path = "bound" THEN "stale" ELSE path

\* A file is there as long as a number names it or a system call works on it.
SocketAlive == InTable("socket") \/ listener = "blocked"

Alive(c) ==
    \/ InTable(c)
    \/ \E k \in Conns : client[k] = "blocked" /\ source[k] = c
    \/ SocketAlive /\ \E i \in 1..Len(backlog) : backlog[i] = c

\* The histories are kept until a stop begins.
Note(history, c, x) ==
    IF main = "run" THEN [history EXCEPT ![c] = Append(@, x)] ELSE history

-----------------------------------------------------------------------------
(* The peers *)

Connect(c) ==
    /\ peer[c] = "away"
    /\ path = "bound" /\ SocketAlive
    /\ listener \notin {"listen", "close"}
    /\ peer' = [peer EXCEPT ![c] = "open"]
    /\ backlog' = Append(backlog, c)
    /\ UNCHANGED <<path, listener, lfd, handlers, walk,
                   inbox, sent, served, pushed, told>>

Send(c) ==
    LET rq == Script[c][Len(sent[c]) + 1] IN
    /\ main = "run" /\ peer[c] = "open" /\ Alive(c)
    /\ Len(sent[c]) < Len(Script[c])
    /\ c \notin Eager => Len(told[c]) = Len(sent[c])
    /\ sent' = Note(sent, c, rq)
    /\ inbox' = [inbox EXCEPT ![c] = Append(@, rq)]
    /\ UNCHANGED <<peer, served, pushed, told, listenerVars>>

HangUp(c) ==
    /\ main = "run" /\ peer[c] = "open"
    /\ peer' = [peer EXCEPT ![c] = "gone"]
    /\ UNCHANGED <<inbox, sent, served, pushed, told, listenerVars>>

Peers ==
    /\ \E c \in Conns : Connect(c) \/ Send(c) \/ HangUp(c)
    /\ UNCHANGED <<fds, main, flagged, clientVars>>

-----------------------------------------------------------------------------
(* UnixListener *)

\* setup(): socket().
ListenerOpens ==
    /\ listener = "setup"
    /\ \/ /\ FreeNumbers # {}
          /\ Open("socket")
          /\ lfd' = LowestFree
          /\ listener' = "bind"
       \/ /\ FreeNumbers = {}
          /\ listener' = "close"
          /\ UNCHANGED <<fds, lfd>>
    /\ UNCHANGED <<path, backlog, handlers, walk, client>>

\* setup(): bind() takes the name, unless a file has it.
ListenerBinds ==
    /\ listener = "bind"
    /\ \/ /\ path = "none" /\ FileAt(lfd) = "socket"
          /\ path' = "bound"
          /\ listener' = "listen"
       \/ /\ CanRefuse \/ path # "none" \/ FileAt(lfd) # "socket"
          /\ listener' = "close"
          /\ UNCHANGED path
    /\ UNCHANGED <<fds, lfd, backlog, handlers, walk, client>>

\* setup(): listen().
ListenerListens ==
    /\ listener = "listen"
    /\ \/ FileAt(lfd) = "socket" /\ listener' = "loop"
       \/ (CanRefuse \/ FileAt(lfd) # "socket") /\ listener' = "close"
    /\ UNCHANGED <<fds, path, lfd, backlog, handlers, walk, client>>

\* The name is removed, whoever's it is, if it is the one that bind() was given.
PathUnlinked == IF NameFits THEN "none" ELSE path

\* teardown() on the listener's own thread, which has accepted nothing yet.
ListenerCloses ==
    /\ listener = "close"
    /\ Close(lfd)
    /\ listener' = IF lfd = NoFd THEN "ended" ELSE "unlink"
    /\ UNCHANGED <<path, lfd, backlog, handlers, walk, client>>

\* Mutant: the name is removed only by a listener that has bound it.
ListenerUnlinksOwn ==
    /\ listener = "unlink"
    /\ listener' = "ended"
    /\ lfd' = NoFd
    /\ path' = IF path = "bound" THEN PathUnlinked ELSE path
    /\ UNCHANGED <<fds, backlog, handlers, walk, client>>

ListenerUnlinks ==
    /\ listener = "unlink"
    /\ listener' = "ended"
    /\ lfd' = NoFd
    /\ path' = PathUnlinked
    /\ UNCHANGED <<fds, backlog, handlers, walk, client>>

\* One turn of the loop.  accept() takes the lowest free number and then waits
\* for a connection.  With no number left, or a number that names no listening
\* socket, it fails at once and is called again.
ListenerLoops ==
    /\ listener = "loop"
    /\ IF flagged = "listener"
       THEN listener' = "ended" /\ UNCHANGED fds
       ELSE IF FileAt(lfd) = "socket" /\ FreeNumbers # {}
            THEN Open("accepting") /\ listener' = "blocked"
            ELSE UNCHANGED <<fds, listener>>
    /\ UNCHANGED <<path, lfd, backlog, handlers, walk, client>>

\* accept() returns, the IPCClient is made and goes into the vector.
ListenerAccepts ==
    /\ listener = "blocked"
    /\ backlog # <<>>
    /\ LET c == Head(backlog)
           n == CHOOSE m \in Numbers : fds[m] = "accepting"
       IN /\ fds' = [fds EXCEPT ![n] = c]
          /\ cfd' = [cfd EXCEPT ![c] = n]
          /\ client' = [client EXCEPT ![c] = "new"]
          /\ handlers' = Append(handlers, c)
    /\ backlog' = Tail(backlog)
    /\ listener' = "start"
    /\ UNCHANGED <<path, lfd, walk>>

\* Mutant: the next connection is waited for without a new call of accept().
ListenerStartsAndWaits ==
    /\ listener = "start"
    /\ client' = [client EXCEPT ![handlers[Len(handlers)]] = "loop"]
    /\ listener' = "blocked"
    /\ UNCHANGED <<fds, path, lfd, backlog, handlers, walk>>

\* client->start() on the one that was added last.
ListenerStartsClient ==
    /\ listener = "start"
    /\ client' = [client EXCEPT ![handlers[Len(handlers)]] = "loop"]
    /\ listener' = "loop"
    /\ UNCHANGED <<fds, path, lfd, backlog, handlers, walk>>

Listener ==
    /\ \/ /\ \/ ListenerOpens
             \/ ListenerBinds
             \/ ListenerListens
             \/ ListenerLoops
             \/ ListenerStartsClient
             \/ ListenerCloses
             \/ ListenerUnlinks
          /\ UNCHANGED cfd
       \/ ListenerAccepts
    /\ UNCHANGED <<main, flagged, source, text, peerVars>>
-----------------------------------------------------------------------------
(* IPCClient, the thread of connection c *)

\* The top of the loop.  read() looks its number up; one that is no connection is
\* an error.
ClientLoops(c) ==
    /\ client[c] = "loop"
    /\ IF flagged # c /\ FileAt(cfd[c]) \in Conns
       THEN /\ source' = [source EXCEPT ![c] = FileAt(cfd[c])]
            /\ client' = [client EXCEPT ![c] = "blocked"]
       ELSE /\ client' = [client EXCEPT ![c] = "ended"]
            /\ UNCHANGED source
    /\ UNCHANGED <<cfd, text, fds, peerVars>>

\* Mutant: the first request of a text is handled, and the others are dropped.
HandleFirst(from, t) ==
    /\ served' = IF t # <<>> THEN Note(served, from, t) ELSE served
    /\ pushed' = IF Len(t) > 0 /\ Valid(t[1])
                 THEN Note(pushed, from, Event(t[1])) ELSE pushed

\* handleRequest(): the event goes into the input queue.
Handle(from, t) ==
    /\ served' = IF t # <<>> THEN Note(served, from, t) ELSE served
    /\ pushed' = IF Accepts(t) THEN Note(pushed, from, Event(t[1])) ELSE pushed

\* read() returns all there is, and it is handled.  At the end of a connection
\* there is nothing to read, or an error if the peer left answers unread.  A text
\* that kills the process is left to RemoteControl!Terminate.
ClientReads(c) ==
    LET from == source[c] IN
    /\ client[c] = "blocked"
    /\ \/ /\ inbox[from] # <<>> \/ peer[from] = "gone"
          /\ ~Kills(inbox[from])
          /\ text' = [text EXCEPT ![c] = inbox[from]]
          /\ inbox' = [inbox EXCEPT ![from] = <<>>]
          /\ Handle(from, inbox[from])
          /\ client' = [client EXCEPT ![c] = "write"]
       \/ /\ inbox[from] = <<>> /\ peer[from] = "gone"
          /\ client' = [client EXCEPT ![c] = "ended"]
          /\ UNCHANGED <<text, inbox, served, pushed>>
    /\ source' = [source EXCEPT ![c] = c]
    /\ UNCHANGED <<cfd, fds, peer, sent, told>>

\* Mutant: a failed write() does not end the loop.
ClientIgnoresError(c) ==
    LET to == FileAt(cfd[c]) IN
    /\ client[c] = "write"
    /\ client' = [client EXCEPT ![c] = "loop"]
    /\ text' = [text EXCEPT ![c] = <<>>]
    /\ told' = IF to \in Conns /\ peer[to] = "open"
               THEN Note(told, to, Verdict(text[c])) ELSE told
    /\ UNCHANGED <<cfd, source, fds, peer, inbox, sent, served, pushed>>

\* Mutant: the thread ends with its first answer.
ClientAnswersOnce(c) ==
    LET to == FileAt(cfd[c]) IN
    /\ client[c] = "write"
    /\ client' = [client EXCEPT ![c] = "ended"]
    /\ text' = [text EXCEPT ![c] = <<>>]
    /\ told' = IF to \in Conns /\ peer[to] = "open"
               THEN Note(told, to, Verdict(text[c])) ELSE told
    /\ UNCHANGED <<cfd, source, fds, peer, inbox, sent, served, pushed>>

\* write(): the answer goes where the number leads now.  A peer that is gone is
\* an error (SIGPIPE is ignored), and the thread ends with its number open.
ClientWrites(c) ==
    LET to == FileAt(cfd[c]) IN
    /\ client[c] = "write"
    /\ IF to \in Conns /\ peer[to] = "open"
       THEN /\ told' = Note(told, to, Verdict(text[c]))
            /\ client' = [client EXCEPT ![c] = "loop"]
       ELSE /\ client' = [client EXCEPT ![c] = "ended"]
            /\ UNCHANGED told
    /\ text' = [text EXCEPT ![c] = <<>>]
    /\ UNCHANGED <<cfd, source, fds, peer, inbox, sent, served, pushed>>

Client(c) ==
    /\ ClientLoops(c) \/ ClientReads(c) \/ ClientWrites(c)
    /\ UNCHANGED <<main, flagged, listenerVars>>

-----------------------------------------------------------------------------
(* UnixListener::stop() on the main thread *)

\* teardown() begins its walk: the range for takes the vector's end once, and does
\* not see what the accept loop adds later.  If the vector moves meanwhile the walk
\* is in freed memory: it finds the old contents there, or the program dies, which
\* is a Crash.
BeginWalk ==
    /\ main = "walk"
    /\ main' = IF handlers = <<>> THEN "closeSocket" ELSE "closeClient"
    /\ walk' = [at |-> 1, end |-> Len(handlers)]
    /\ flagged' = "nobody"
    /\ UNCHANGED <<fds, path, lfd>>

\* IPCClient::stop() closes the number, whatever it names, and keeps it; then
\* SingleThread::stop(), which does nothing if the thread was not started.
CloseClient ==
    LET c == handlers[walk.at] IN
    /\ main = "closeClient"
    /\ Close(cfd[c])
    /\ flagged' = IF client[c] = "new" THEN "nobody" ELSE c
    /\ main' = "nextClient"
    /\ UNCHANGED <<path, lfd, walk>>

\* Mutant: the last client is left out.
NextClientButLast ==
    /\ main = "nextClient"
    /\ walk' = [walk EXCEPT !.at = @ + 1]
    /\ main' = IF walk.at + 1 >= walk.end THEN "closeSocket" ELSE "closeClient"
    /\ flagged' = "nobody"
    /\ UNCHANGED <<fds, path, lfd>>

NextClient ==
    /\ main = "nextClient"
    /\ walk' = [walk EXCEPT !.at = @ + 1]
    /\ main' = IF walk.at = walk.end THEN "closeSocket" ELSE "closeClient"
    /\ flagged' = "nobody"
    /\ UNCHANGED <<fds, path, lfd>>

CloseSocket ==
    /\ main = "closeSocket"
    /\ Close(lfd)
    /\ IF lfd = NoFd THEN main' = "unflag" /\ flagged' = "listener"
                     ELSE main' = "unlinkSocket" /\ UNCHANGED flagged
    /\ UNCHANGED <<path, lfd, walk>>

\* Mutant: the name stays.
UnlinkSocketKeepsName ==
    /\ main = "unlinkSocket"
    /\ lfd' = NoFd
    /\ main' = "unflag" /\ flagged' = "listener"
    /\ UNCHANGED <<fds, path, walk>>

UnlinkSocket ==
    /\ main = "unlinkSocket"
    /\ lfd' = NoFd
    /\ path' = PathUnlinked
    /\ main' = "unflag" /\ flagged' = "listener"
    /\ UNCHANGED <<fds, walk>>

Unflag ==
    /\ main = "unflag"
    /\ main' = "exit" /\ flagged' = "nobody"
    /\ UNCHANGED <<fds, path, lfd, walk>>

StopListener ==
    /\ \/ BeginWalk \/ CloseClient \/ NextClient
       \/ CloseSocket \/ UnlinkSocket \/ Unflag
    /\ UNCHANGED <<listener, backlog, handlers, clientVars, peerVars>>
=============================================================================
