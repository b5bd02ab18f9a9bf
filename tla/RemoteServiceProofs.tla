-------------------------- MODULE RemoteServiceProofs --------------------------
(***************************************************************************)
(* What the peers of RemoteControl may rely on, for any number of them:    *)
(* a start that fails clears the socket's name, a stop leaves the name     *)
(* behind only together with its socket, an answer "ok" tells of an event  *)
(* pushed, and the program implements CommandService.  All rest on the     *)
(* inductive invariant of RemoteControlProofs.                             *)
(***************************************************************************)
EXTENDS RemoteControlProofs, FiniteSetTheorems, BasicLemmas

-----------------------------------------------------------------------------
(* A start that fails *)

\* While the program runs the device and the socket have one number at most, with
\* the one who opened it; nobody is accepted before the listener is in its loop;
\* and the name is free once the listener has given up (UnixListener.cpp:49-116).
NameInv ==
    /\ main = "off" => fds = NoFiles /\ flagged = "nobody"
    /\ main = "run" =>
        /\ flagged = "nobody"
        /\ \A n \in Numbers :
              /\ fds[n] = "device" => n = rfd /\ reader \in {"loop", "setupClose", "close"}
              /\ fds[n] = "socket" => n = lfd /\ listener \notin {"setup", "unlink", "ended"}
        /\ listener \in {"setup", "bind", "listen", "close", "unlink", "ended"} =>
              \A c \in Conns : client[c] = "none"
        /\ listener \in {"bind", "listen", "close"} => lfd # NoFd
        /\ listener = "ended" /\ NameFits => path = "none"

\* With two descriptors the listener gets one for its socket: only the device has
\* taken one before.
LEMMA SocketGetsNumber ==
    ASSUME MaxFd >= 2, IInv, Accepted, NameInv, main = "run", listener = "setup"
    PROVE  FreeNumbers # {}
<1>1. {0, 1} \subseteq Numbers
    BY ProcessAssumption DEF Numbers
<1>2. \A n \in Numbers : fds[n] \in {"free", "device"}
    <2> TAKE n \in Numbers
    <2>1. fds[n] \in Files /\ fds[n] # "accepting"
        BY DEF IInv, TypeOK, AcceptHoldsNumber
    <2>2. fds[n] \notin Conns
        BY DEF Accepted, NameInv
    <2> QED BY <2>1, <2>2 DEF NameInv, Files, Special
<1>3. fds[0] = "free" \/ fds[1] = "free"
    BY <1>1, <1>2 DEF NameInv
<1> QED BY <1>1, <1>3 DEF FreeNumbers

\* Every step keeps the relation of the listener's number to the socket's name.
LEMMA NameStep ==
    ASSUME MaxFd >= 2, IInv, TypeOK', Accepted, NameInv, [Next]_vars
    PROVE  NameInv'
<1> USE DEF readerVars, listenerVars, clientVars, peerVars
<1>0. TypeOK /\ Registered /\ CleanStart
    BY DEF IInv
<1>1. CASE UNCHANGED vars
    BY <1>1 DEF NameInv, vars
<1>2. CASE Start
    BY <1>0, <1>2, Names DEF Start, NameInv, NoFiles, CleanStart
<1>3. CASE Crash \/ Exit
    BY <1>3 DEF Crash, Exit, ProcessEnds, NameInv
<1>4. CASE Stop \/ StopReader \/ StopListener
    <2>1. main' \notin {"off", "run"}
        BY <1>4 DEF Stop, StopReader, StopListener, BeginWalk, CloseClient, NextClient,
                    CloseSocket, UnlinkSocket, Unflag
    <2> QED BY <2>1 DEF NameInv
<1>5. main = "run" =>
         /\ ReaderHolds => rfd \in Numbers /\ fds[rfd] = "device"
         /\ ListenerHolds => lfd \in Numbers /\ fds[lfd] = "socket"
    BY <1>0, Holdings DEF IInv
<1>6. CASE Reader
    <2>1. main # "off"
        BY <1>0, <1>6 DEF CleanStart, Reader, ReaderAlone, ReaderReadsConnection, ReaderSetsUp,
                    ReaderFailsSetup, ReaderLoops, ReaderCloses, ReaderTearsDown, ReaderForgets
    <2>2. UNCHANGED <<main, flagged, listener, lfd, client, path>>
        BY <1>6 DEF Reader, ReaderAlone, ReaderReadsConnection
    <2> SUFFICES ASSUME main = "run" PROVE NameInv'
        BY <2>1, <2>2 DEF NameInv
    <2>3. \A n \in Numbers : fds'[n] = "socket" => fds[n] = "socket"
        <3>1. CASE FreeNumbers # {} /\ Open("device")
            BY <1>0, <3>1, Opening, Names DEF TypeOK
        <3>2. CASE (\E k : Close(k)) \/ UNCHANGED fds
            BY <1>0, <3>2, Closing DEF TypeOK
        <3> QED BY <1>6, <3>1, <3>2 DEF Reader, ReaderAlone, ReaderReadsConnection, ReaderSetsUp,
                ReaderFailsSetup, ReaderLoops, ReaderCloses, ReaderTearsDown, ReaderForgets
    <2>4. \A n \in Numbers : fds'[n] = "device" =>
             n = rfd' /\ reader' \in {"loop", "setupClose", "close"}
        <3>1. CASE FreeNumbers # {} /\ Open("device") /\ rfd' = LowestFree /\ reader = "setup"
                   /\ reader' \in {"loop", "setupClose"}
            BY <1>0, <3>1, Opening, Names DEF TypeOK, NameInv
        <3>2. CASE ReaderSetsUp /\ UNCHANGED <<fds, rfd>>
            BY <3>2 DEF ReaderSetsUp, NameInv
        <3>3. CASE Close(rfd) /\ UNCHANGED rfd /\ reader \in {"setupClose", "close"}
            <4>1. CASE rfd = NoFd
                BY <1>0, <3>3, <4>1, Closing, Names DEF TypeOK, NameInv
            <4>2. CASE rfd # NoFd /\ ReaderHolds
                <5>1. FileAt(rfd) = "device"
                    BY <1>5, <4>2 DEF FileAt
                <5>2. fds' = [fds EXCEPT ![rfd] = "free"]
                    BY <3>3, <5>1 DEF Close
                <5> QED BY <1>0, <1>5, <4>2, <5>2 DEF TypeOK, NameInv
            <4> QED BY <3>3, <4>1, <4>2 DEF ReaderHolds
        <3>4. CASE ReaderForgets("setupForget", "close") \/ ReaderForgets("forget", "ended")
            BY <3>4 DEF ReaderForgets, NameInv
        <3>5. CASE ReaderLoops \/ ReaderReadsConnection
            BY <3>5 DEF ReaderLoops, ReaderReadsConnection, NameInv
        <3> QED BY <1>6, <3>1, <3>2, <3>3, <3>4, <3>5 DEF Reader, ReaderAlone, ReaderSetsUp,
                ReaderFailsSetup, ReaderCloses, ReaderTearsDown
    <2> QED BY <2>2, <2>3, <2>4 DEF NameInv
<1>7. CASE Listener /\ UNCHANGED readerVars
    <2>1. main # "off"
        BY <1>0, <1>7 DEF CleanStart, Listener, ListenerOpens, ListenerBinds,
                          ListenerListens, ListenerLoops,
                    ListenerAccepts, ListenerStartsClient, ListenerCloses, ListenerUnlinks
    <2>2. UNCHANGED <<main, flagged, reader, rfd>>
        BY <1>7 DEF Listener
    <2> SUFFICES ASSUME main = "run" PROVE NameInv'
        BY <2>1, <2>2 DEF NameInv
    <2>3. CASE ListenerOpens /\ UNCHANGED cfd
        <3>1. FreeNumbers # {}
            BY <2>3, SocketGetsNumber DEF ListenerOpens
        <3>2. Open("socket") /\ lfd' = LowestFree /\ listener' = "bind" /\ UNCHANGED <<path, client>>
            BY <2>3, <3>1 DEF ListenerOpens
        <3> QED BY <1>0, <2>2, <2>3, <3>1, <3>2, Opening, Names
                DEF TypeOK, ListenerOpens, NameInv
    <2>4. CASE (ListenerBinds \/ ListenerListens) /\ UNCHANGED cfd
        BY <2>2, <2>4 DEF ListenerBinds, ListenerListens, NameInv
    <2>5. CASE ListenerLoops /\ UNCHANGED cfd
        <3>1. CASE FreeNumbers # {} /\ Open("accepting") /\ listener' = "blocked"
            BY <1>0, <2>2, <2>5, <3>1, Opening, Names DEF TypeOK, ListenerLoops, NameInv
        <3>2. CASE UNCHANGED <<fds, listener>>
            BY <2>2, <2>5, <3>2 DEF ListenerLoops, NameInv
        <3> QED BY <2>5, <3>1, <3>2 DEF ListenerLoops, NameInv
    <2>6. CASE ListenerAccepts
        <3>1. Head(backlog) \in Conns
            BY <1>0, <2>6 DEF TypeOK, ListenerAccepts
        <3>2. /\ listener = "blocked" /\ listener' = "start" /\ UNCHANGED <<lfd, path>>
              /\ \A n \in Numbers : fds'[n] \in {"device", "socket"} => fds'[n] = fds[n]
            BY <1>0, <2>6, <3>1, Names DEF TypeOK, ListenerAccepts
        <3> QED BY <2>2, <3>2 DEF NameInv
    <2>7. CASE ListenerStartsClient /\ UNCHANGED cfd
        BY <2>2, <2>7 DEF ListenerStartsClient, NameInv
    <2>8. CASE ListenerCloses /\ UNCHANGED cfd
        <3>1. ListenerHolds /\ listener' = "unlink" /\ UNCHANGED <<path, lfd, client>>
            BY <2>8 DEF ListenerCloses, ListenerHolds, NameInv
        <3>2. FileAt(lfd) = "socket" /\ Close(lfd)
            BY <1>5, <2>8, <3>1 DEF FileAt, ListenerCloses
        <3>3. fds' = [fds EXCEPT ![lfd] = "free"]
            BY <3>2 DEF Close
        <3> QED BY <1>0, <1>5, <2>2, <2>8, <3>1, <3>3 DEF TypeOK, ListenerCloses, NameInv
    <2>9. CASE ListenerUnlinks /\ UNCHANGED cfd
        BY <2>2, <2>9 DEF ListenerUnlinks, PathUnlinked, NameInv
    <2> QED BY <1>7, <2>3, <2>4, <2>5, <2>6, <2>7, <2>8, <2>9 DEF Listener
<1>8. ASSUME NEW k \in Conns, Client(k) /\ UNCHANGED readerVars PROVE NameInv'
    <2>1. UNCHANGED <<main, flagged, fds, reader, rfd, listener, lfd, path>>
        BY <1>8 DEF Client, ClientLoops, ClientReads, ClientWrites
    <2>2. \A c \in Conns : client[c] = "none" => client'[c] = "none"
        BY <1>0, <1>8 DEF TypeOK, Client, ClientLoops, ClientReads, ClientWrites
    <2> QED BY <2>1, <2>2 DEF NameInv
<1>9. CASE Peers /\ UNCHANGED readerVars
    BY <1>9 DEF Peers, Connect, Send, HangUp, NameInv
<1> QED BY <1>1, <1>2, <1>3, <1>4, <1>6, <1>7, <1>8, <1>9 DEF Next, Stopping

\* A start that cannot bind the name or listen, because an earlier process left the
\* file behind or for another reason, leaves no descriptor, and no file if the name
\* fits, when the process may have two descriptors (UnixListener.cpp:86-116, 127-132).
THEOREM NameCleared ==
    ASSUME MaxFd >= 2
    PROVE  Spec => []DeafStartClearsName
<1>1. Init => Accepted /\ NameInv
    BY Names, EmptySeq DEF Init, SocketInit, NoFiles, Idle, Accepted, NameInv
<1>2. IInv /\ IInv' /\ Accepted /\ NameInv /\ [Next]_vars => Accepted' /\ NameInv'
    BY AcceptedStep, NameStep DEF IInv
<1>3. NameInv => DeafStartClearsName
    BY DEF NameInv, DeafStartClearsName, InTable
<1> QED BY <1>1, <1>2, <1>3, InductiveInvariant, PTL DEF Spec

-----------------------------------------------------------------------------
(* What a stop leaves of the name, if it fits *)

\* Main has not come to the listener's socket, or has done with the reader.
BeforeSocket == {"run", "closeReader", "forgetReader", "walk", "closeClient", "nextClient",
                 "closeSocket"}
AfterReader == {"walk", "closeClient", "nextClient", "closeSocket", "unlinkSocket", "unflag",
                "exit"}
Done == {"unflag", "exit"}

ReaderHasDevice ==
    reader \in {"loop", "setupClose", "close"} /\ rfd # NoFd => FileAt(rfd) = "device"

\* A reader that opens the device only during the stop keeps its own number to
\* itself as long as the listener may yet bind the name: with no client accepted,
\* main closes the listener's number at most, and that is not the device's
\* (EvdevReader.cpp:52-89, 121-152, UnixListener.cpp:49-133).
FileInv ==
    /\ path = "bound" => lfd # NoFd
    /\ listener \in {"off", "setup", "bind"} => path # "bound"
    /\ listener \in {"off", "setup", "bind"} => handlers = <<>>
    /\ listener = "setup" => lfd = NoFd
    /\ reader \in {"off", "setup"} => rfd = NoFd
    /\ listener = "bind" /\ main \in BeforeSocket =>
          /\ FileAt(lfd) # "device"
          /\ reader = "setup" => FileAt(lfd) = "socket"
    /\ main \in AfterReader /\ listener \in {"setup", "bind"} => ReaderHasDevice
    /\ main \in Done /\ path = "bound" =>
          ReaderHasDevice /\ (FileAt(lfd) = "socket" \/ listener = "unlink")

-----------------------------------------------------------------------------
(* What a number names *)

\* close() empties one number, and none if it is given none.
LEMMA CloseAt ==
    ASSUME fds \in [Numbers -> Files], NEW k, Close(k)
    PROVE  /\ \A n : FileAt(n)' = FileAt(n) \/ FileAt(n)' = "free"
           /\ \A n : n # k => FileAt(n)' = FileAt(n)
           /\ k = NoFd => UNCHANGED fds
BY Names DEF Close, FileAt

\* Opening a file leaves alone every number that names one.
LEMMA OpenAt ==
    ASSUME fds \in [Numbers -> Files], NEW f \in Files, FreeNumbers # {}, Open(f)
    PROVE  /\ \A n : FileAt(n) # "free" => FileAt(n)' = FileAt(n)
           /\ LowestFree \in Numbers /\ LowestFree # NoFd
           /\ f # "accepting" => \A n : n = LowestFree => FileAt(n)' = f
           /\ \A n : FileAt(n)' # FileAt(n) => n = LowestFree
<1>1. /\ fds' \in [Numbers -> Files]
      /\ LowestFree \in Numbers /\ fds[LowestFree] = "free"
      /\ fds'[LowestFree] = f
      /\ \A n \in Numbers : n # LowestFree => fds'[n] = fds[n]
    BY Opening
<1>2. \A n : n # LowestFree => FileAt(n)' = FileAt(n)
    BY <1>1 DEF FileAt
<1>3. /\ FileAt(LowestFree) = "free"
      /\ f # "accepting" => \A n : n = LowestFree => FileAt(n)' = f
    BY <1>1 DEF FileAt
<1> QED BY <1>1, <1>2, <1>3, Names

\* No number names nothing.
LEMMA NoFile == FileAt(NoFd) = "free"
BY Names DEF FileAt

-----------------------------------------------------------------------------
(* Every step keeps the invariant *)

\* The reader's thread closes no number but its own.
LEMMA FileReader ==
    ASSUME TypeOK, FileInv, Reader
    PROVE  FileInv'
<1> USE DEF readerVars, listenerVars, clientVars, peerVars
<1>0. fds \in [Numbers -> Files]
    BY DEF TypeOK
<1>1. UNCHANGED <<main, path, listener, lfd, handlers>>
    BY DEF Reader, ReaderAlone, ReaderReadsConnection
<1>2. CASE FreeNumbers # {} /\ Open("device") /\ reader = "setup" /\ rfd' = LowestFree
           /\ reader' \in {"loop", "setupClose"}
    <2>1. FileAt(rfd)' = "device"
        BY <1>0, <1>2, OpenAt, Names DEF FileAt
    <2>2. FileAt(lfd) = "socket" => FileAt(lfd)' = "socket"
        BY <1>0, <1>1, <1>2, OpenAt, Names DEF FileAt
    <2> QED BY <1>1, <1>2, <2>1, <2>2 DEF FileInv, ReaderHasDevice
<1>3. CASE reader = "setup" /\ reader' = "setupClose" /\ UNCHANGED <<fds, rfd>>
    BY <1>1, <1>3 DEF FileInv, ReaderHasDevice, FileAt
<1>4. CASE /\ Close(rfd) /\ UNCHANGED rfd /\ reader \in {"setupClose", "close"}
           /\ reader' \in IF rfd = NoFd THEN {"close", "ended"} ELSE {"setupForget", "forget"}
    <2>1. \/ FileAt(lfd)' = FileAt(lfd)
          \/ FileAt(lfd)' = "free" /\ lfd = rfd
        BY <1>0, <1>1, <1>4, CloseAt DEF FileAt
    <2>2. ReaderHasDevice'
        BY <1>4 DEF ReaderHasDevice
    <2>3. path = "bound" /\ main \in Done => FileAt(lfd)' = "socket" \/ listener = "unlink"
        BY <1>4, <2>1 DEF FileInv, ReaderHasDevice
    <2> QED BY <1>1, <1>4, <2>1, <2>2, <2>3 DEF FileInv
<1>5. CASE rfd' = NoFd /\ UNCHANGED fds /\ reader' \in {"close", "ended"}
    BY <1>1, <1>5 DEF FileInv, ReaderHasDevice, FileAt
<1>6. CASE reader = "loop" /\ UNCHANGED <<fds, rfd>> /\ reader' \in {"loop", "close", "ended"}
    BY <1>1, <1>6 DEF FileInv, ReaderHasDevice, FileAt
<1> QED BY <1>2, <1>3, <1>4, <1>5, <1>6
        DEF Reader, ReaderAlone, ReaderReadsConnection, ReaderSetsUp, ReaderFailsSetup,
            ReaderLoops, ReaderCloses, ReaderTearsDown, ReaderForgets

\* The listener's thread binds the name only while it has its socket.
LEMMA FileListener ==
    ASSUME NameFits, TypeOK, FileInv, Listener /\ UNCHANGED readerVars
    PROVE  FileInv'
<1> USE DEF readerVars
<1>0. fds \in [Numbers -> Files]
    BY DEF TypeOK
<1>1. UNCHANGED <<main, reader, rfd>>
    BY DEF Listener
<1>2. CASE ListenerOpens
    <2>1. CASE FreeNumbers # {} /\ Open("socket") /\ lfd' = LowestFree /\ listener' = "bind"
        <3>1. FileAt(lfd)' = "socket" /\ lfd' # NoFd
            BY <1>0, <2>1, OpenAt, Names DEF FileAt
        <3>2. ReaderHasDevice => ReaderHasDevice'
            BY <1>0, <1>1, <2>1, OpenAt, Names DEF ReaderHasDevice, FileAt
        <3> QED BY <1>1, <1>2, <2>1, <3>1, <3>2 DEF ListenerOpens, FileInv
    <2>2. CASE listener' = "close" /\ UNCHANGED <<fds, lfd>>
        BY <1>1, <1>2, <2>2 DEF ListenerOpens, FileInv
    <2> QED BY <1>2, <2>1, <2>2 DEF ListenerOpens
<1>3. CASE ListenerBinds
    <2>1. CASE path' = "bound" /\ FileAt(lfd) = "socket" /\ listener' = "listen"
        <3>1. lfd # NoFd
            BY <2>1, NoFile
        <3>2. ReaderHasDevice' <=> ReaderHasDevice
            BY <1>1, <1>3 DEF ListenerBinds, ReaderHasDevice, FileAt
        <3>3. FileAt(lfd)' = "socket"
            BY <1>3, <2>1 DEF ListenerBinds, FileAt
        <3> QED BY <1>1, <1>3, <2>1, <3>1, <3>2, <3>3
                DEF ListenerBinds, FileInv, Done, AfterReader
    <2>2. CASE listener' = "close" /\ UNCHANGED path
        BY <1>1, <1>3, <2>2 DEF ListenerBinds, FileInv
    <2> QED BY <1>3, <2>1, <2>2 DEF ListenerBinds
<1>4. CASE ListenerLoops \/ ListenerStartsClient
    <2>1. /\ listener # "unlink" /\ listener' \in {"loop", "blocked", "ended"}
          /\ UNCHANGED <<path, lfd>>
        BY <1>4 DEF ListenerLoops, ListenerStartsClient
    <2>2. \A n : FileAt(n) # "free" => FileAt(n)' = FileAt(n)
        <3>1. CASE FreeNumbers # {} /\ Open("accepting")
            BY <1>0, <3>1, OpenAt, Names
        <3>2. CASE UNCHANGED fds
            BY <3>2 DEF FileAt
        <3> QED BY <1>4, <3>1, <3>2 DEF ListenerLoops, ListenerStartsClient
    <2>3. ReaderHasDevice => ReaderHasDevice'
        BY <1>1, <2>2 DEF ReaderHasDevice, FileAt
    <2>4. FileAt(lfd) = "socket" => FileAt(lfd)' = "socket"
        BY <2>1, <2>2 DEF FileAt
    <2> QED BY <1>1, <2>1, <2>3, <2>4 DEF FileInv
<1>5. CASE ListenerAccepts
    <2> DEFINE c == Head(backlog)
               n == CHOOSE m \in Numbers : fds[m] = "accepting"
    <2>1. /\ listener = "blocked" /\ listener' = "start"
          /\ UNCHANGED <<path, lfd>> /\ fds' = [fds EXCEPT ![n] = c]
        BY <1>5 DEF ListenerAccepts
    <2>2. n \in Numbers /\ fds[n] = "accepting"
        BY <1>5 DEF TypeOK, AcceptHoldsNumber, ListenerAccepts
    <2> HIDE DEF c, n
    <2>3. \A m \in Numbers : fds[m] # "accepting" => fds'[m] = fds[m]
        BY <1>0, <2>1, <2>2
    <2>4. \A m : FileAt(m) # "free" => FileAt(m)' = FileAt(m)
        BY <2>3 DEF FileAt
    <2>5. ReaderHasDevice => ReaderHasDevice'
        BY <1>1, <2>4 DEF ReaderHasDevice, FileAt
    <2>6. FileAt(lfd) = "socket" => FileAt(lfd)' = "socket"
        BY <2>1, <2>4 DEF FileAt
    <2> QED BY <1>1, <2>1, <2>5, <2>6 DEF FileInv
<1>6. CASE ListenerCloses
    <2>1. CASE lfd = NoFd
        BY <1>1, <1>6, <2>1 DEF ListenerCloses, FileInv
    <2>2. CASE lfd # NoFd
        <3>1. listener = "close" /\ listener' = "unlink" /\ Close(lfd) /\ UNCHANGED <<path, lfd>>
            BY <1>6, <2>2 DEF ListenerCloses
        <3>2. main \in Done /\ path = "bound" => ReaderHasDevice'
            <4>1. rfd # lfd => FileAt(rfd)' = FileAt(rfd)
                BY <1>0, <1>1, <3>1, CloseAt DEF FileAt
            <4> QED BY <1>1, <3>1, <4>1 DEF FileInv, ReaderHasDevice
        <3> QED BY <1>1, <3>1, <3>2 DEF FileInv
    <2> QED BY <2>1, <2>2
<1>7. CASE ListenerUnlinks
    BY <1>1, <1>7 DEF ListenerUnlinks, PathUnlinked, FileInv
<1>8. CASE ListenerListens
    <2>1. ReaderHasDevice' <=> ReaderHasDevice
        BY <1>1, <1>8 DEF ListenerListens, ReaderHasDevice, FileAt
    <2>2. FileAt(lfd)' = FileAt(lfd)
        BY <1>8 DEF ListenerListens, FileAt
    <2> QED BY <1>1, <1>8, <2>1, <2>2 DEF ListenerListens, FileInv
<1> QED BY <1>2, <1>3, <1>4, <1>5, <1>6, <1>7, <1>8 DEF Listener

\* Main's stop of the reader, of the clients and of the listener.
LEMMA FileStop ==
    ASSUME NameFits, TypeOK, WalkInBounds, FileInv,
           \/ StopReader /\ UNCHANGED <<reader, listenerVars, clientVars, peerVars>>
           \/ StopListener /\ UNCHANGED readerVars
    PROVE  FileInv'
<1> USE DEF readerVars, listenerVars, clientVars, peerVars
<1>0. fds \in [Numbers -> Files]
    BY DEF TypeOK
<1>1. UNCHANGED <<reader, listener, handlers>>
    BY DEF StopListener
<1>2. CASE main = "closeReader"
    <2>1. /\ Close(rfd) /\ UNCHANGED <<rfd, path, lfd>>
          /\ main' = IF rfd = NoFd THEN "walk" ELSE "forgetReader"
        BY <1>2 DEF StopReader, StopListener, BeginWalk, CloseClient, NextClient, CloseSocket,
                    UnlinkSocket, Unflag
    <2>2. \/ FileAt(lfd)' = FileAt(lfd)
          \/ FileAt(lfd)' = "free" /\ rfd # NoFd
        BY <1>0, <2>1, CloseAt DEF FileAt
    <2>3. main' = "walk" => ReaderHasDevice'
        BY <2>1 DEF ReaderHasDevice
    <2>4. main' \in {"walk", "forgetReader"} /\ main' \notin Done
          /\ (main' = "walk" \/ main' \notin AfterReader)
        BY <2>1 DEF Done, AfterReader
    <2> QED BY <1>1, <1>2, <2>1, <2>2, <2>3, <2>4 DEF FileInv, BeforeSocket
<1>3. CASE main = "forgetReader"
    <2>1. rfd' = NoFd /\ main' = "walk" /\ UNCHANGED <<fds, path, lfd>>
        BY <1>3 DEF StopReader, StopListener, BeginWalk, CloseClient, NextClient, CloseSocket,
                    UnlinkSocket, Unflag
    <2>2. ReaderHasDevice' /\ main' \notin Done
        BY <2>1 DEF ReaderHasDevice, Done
    <2> QED BY <1>1, <1>3, <2>1, <2>2 DEF FileInv, BeforeSocket, FileAt
<1>4. CASE main \in {"walk", "nextClient"}
    <2>1. main' \in {"closeClient", "closeSocket"} /\ UNCHANGED <<fds, rfd, path, lfd>>
        BY <1>4 DEF StopReader, StopListener, BeginWalk, CloseClient, NextClient, CloseSocket,
                    UnlinkSocket, Unflag
    <2>2. ReaderHasDevice' <=> ReaderHasDevice
        BY <1>1, <2>1 DEF ReaderHasDevice, FileAt
    <2>3. FileAt(lfd)' = FileAt(lfd)
        BY <2>1 DEF FileAt
    <2> QED BY <1>1, <1>4, <2>1, <2>2, <2>3 DEF FileInv, BeforeSocket, AfterReader, Done
<1>5. CASE main = "closeClient"
    <2>1. main' = "nextClient" /\ UNCHANGED <<rfd, path, lfd>>
        BY <1>5 DEF StopReader, StopListener, BeginWalk, CloseClient, NextClient, CloseSocket,
                    UnlinkSocket, Unflag
    <2>2. handlers # <<>>
        <3>1. walk.at \in 1..walk.end /\ walk.end <= Len(handlers)
            BY <1>5 DEF WalkInBounds
        <3>2. walk.at \in Nat /\ walk.end \in Nat
            BY DEF TypeOK
        <3>3. Len(handlers) # 0
            BY <3>1, <3>2, LenProperties DEF TypeOK
        <3> QED BY <3>3
    <2> QED BY <1>1, <2>1, <2>2 DEF FileInv, Done
<1>6. CASE main = "closeSocket"
    <2>1. /\ Close(lfd) /\ UNCHANGED <<rfd, path, lfd>>
          /\ main' = IF lfd = NoFd THEN "unflag" ELSE "unlinkSocket"
        BY <1>6 DEF StopReader, StopListener, BeginWalk, CloseClient, NextClient, CloseSocket,
                    UnlinkSocket, Unflag
    <2>2. listener \in {"setup", "bind"} => ReaderHasDevice
        BY <1>6 DEF FileInv, AfterReader
    <2>3. listener \in {"setup", "bind"} /\ rfd # NoFd /\ FileAt(rfd) = "device"
             => FileAt(rfd)' = "device"
        <3>1. rfd # lfd => FileAt(rfd)' = FileAt(rfd)
            BY <1>0, <2>1, CloseAt DEF FileAt
        <3>2. listener = "bind" => FileAt(lfd) # "device"
            BY <1>6 DEF FileInv, BeforeSocket
        <3>3. listener = "setup" => lfd = NoFd
            BY DEF FileInv
        <3> QED BY <3>1, <3>2, <3>3
    <2>4. listener \in {"setup", "bind"} => ReaderHasDevice'
        BY <1>1, <2>1, <2>2, <2>3 DEF ReaderHasDevice
    <2>5. main' \notin BeforeSocket /\ (main' \in Done => path # "bound")
        BY <2>1 DEF FileInv, BeforeSocket, Done
    <2> QED BY <1>1, <2>1, <2>4, <2>5 DEF FileInv
<1>7. CASE main = "unlinkSocket"
    <2>1. lfd' = NoFd /\ path' = "none" /\ main' = "unflag" /\ UNCHANGED <<fds, rfd>>
        BY <1>7 DEF StopReader, StopListener, BeginWalk, CloseClient, NextClient, CloseSocket,
                    UnlinkSocket, PathUnlinked, Unflag
    <2>2. ReaderHasDevice' <=> ReaderHasDevice
        BY <1>1, <2>1 DEF ReaderHasDevice, FileAt
    <2> QED BY <1>1, <1>7, <2>1, <2>2 DEF FileInv, BeforeSocket, AfterReader
<1>8. CASE main = "unflag"
    <2>1. main' = "exit" /\ UNCHANGED <<fds, rfd, path, lfd>>
        BY <1>8 DEF StopReader, StopListener, BeginWalk, CloseClient, NextClient, CloseSocket,
                    UnlinkSocket, Unflag
    <2>2. ReaderHasDevice' <=> ReaderHasDevice
        BY <1>1, <2>1 DEF ReaderHasDevice, FileAt
    <2>3. FileAt(lfd)' = FileAt(lfd)
        BY <2>1 DEF FileAt
    <2> QED BY <1>1, <1>8, <2>1, <2>2, <2>3 DEF FileInv, BeforeSocket, AfterReader, Done
<1> QED BY <1>2, <1>3, <1>4, <1>5, <1>6, <1>7, <1>8
        DEF StopReader, StopListener, BeginWalk, CloseClient, NextClient, CloseSocket,
            UnlinkSocket, Unflag

\* Every step of the program keeps the invariant.
LEMMA FileStep ==
    ASSUME NameFits, IInv, FileInv, [Next]_vars
    PROVE  FileInv'
<1> USE DEF readerVars, listenerVars, clientVars, peerVars
<1>0. TypeOK /\ WalkInBounds /\ CleanStart
    BY DEF IInv
<1>1. CASE UNCHANGED <<fds, main, reader, rfd, path, listener, lfd, handlers>>
    BY <1>1 DEF FileInv, ReaderHasDevice, FileAt
<1>2. CASE Start
    BY <1>0, <1>2 DEF Start, CleanStart, FileInv, AfterReader, Done
<1>3. CASE Stop
    BY <1>3 DEF Stop, FileInv, BeforeSocket, AfterReader, Done, FileAt
<1>4. CASE Crash \/ Exit
    <2>1. ProcessEnds
        BY <1>4 DEF Crash, Exit
    <2>2. /\ main' = "off" /\ rfd' = NoFd /\ listener' = "off" /\ handlers' = <<>>
          /\ path' # "bound"
        BY <1>0, <2>1 DEF ProcessEnds, SocketEnds, TypeOK
    <2> QED BY <2>2 DEF FileInv, AfterReader, Done
<1>5. ASSUME NEW c \in Conns, Client(c) /\ UNCHANGED readerVars PROVE FileInv'
    <2>1. UNCHANGED <<fds, main, reader, rfd, path, listener, lfd, handlers>>
        BY <1>5 DEF Client, ClientLoops, ClientReads, ClientWrites
    <2> QED BY <1>1, <2>1
<1>6. CASE Peers /\ UNCHANGED readerVars
    <2>1. UNCHANGED <<fds, main, reader, rfd, path, listener, lfd, handlers>>
        BY <1>6 DEF Peers, Connect, Send, HangUp
    <2> QED BY <1>1, <2>1
<1>7. CASE UNCHANGED vars
    BY <1>1, <1>7 DEF vars
<1> QED BY <1>0, <1>2, <1>3, <1>4, <1>5, <1>6, <1>7, FileReader, FileListener, FileStop
        DEF Next, Stopping

\* A stop leaves the socket's file behind only together with the socket, whose
\* descriptor main had looked for before the listener's thread opened it
\* (UnixListener.cpp:80-84, 90, 127-132).
THEOREM FileNotOrphaned == Spec => []FileLeftWithSocket
<1> DEFINE FileInvIfFits == NameFits => FileInv
<1>1. Init => FileInvIfFits
    BY DEF Init, SocketInit, FileInv, AfterReader, Done
<1>2. IInv /\ FileInvIfFits /\ [Next]_vars => FileInvIfFits'
    BY FileStep
<1>3. FileInvIfFits => FileLeftWithSocket
    BY DEF FileInv, FileLeftWithSocket, Done
<1> QED BY <1>1, <1>2, <1>3, InductiveInvariant, PTL DEF Spec

-----------------------------------------------------------------------------
(* Answers *)

Answers == {"ok", "data", "fail"}
Events == {Event(rq) : rq \in Request}

Oks(s) == Cardinality({i \in DOMAIN s : s[i] = "ok"})

\* One more answer is one more "ok" if it says so.
LEMMA OksAppend ==
    ASSUME NEW s \in Seq(Answers), NEW v \in Answers
    PROVE  /\ Oks(s) \in Nat
           /\ Oks(Append(s, v)) = Oks(s) + (IF v = "ok" THEN 1 ELSE 0)
           /\ Oks(<<>>) = 0
<1> DEFINE old == {i \in DOMAIN s : s[i] = "ok"}
           new == {i \in DOMAIN Append(s, v) : Append(s, v)[i] = "ok"}
<1>1. /\ Len(s) \in Nat /\ DOMAIN s = 1..Len(s)
      /\ DOMAIN Append(s, v) = 1..(Len(s) + 1)
      /\ \A i \in 1..Len(s) : Append(s, v)[i] = s[i]
      /\ Append(s, v)[Len(s) + 1] = v
    BY AppendProperties, LenProperties
<1>2. IsFiniteSet(old)
    <2>1. IsFiniteSet(1..Len(s)) /\ old \subseteq 1..Len(s)
        BY <1>1, FS_Interval
    <2> QED BY <2>1, FS_Subset
<1>3. new = IF v = "ok" THEN old \cup {Len(s) + 1} ELSE old
    BY <1>1
<1>4. Len(s) + 1 \notin old
    BY <1>1
<1>5. Cardinality(old) \in Nat
      /\ Cardinality(old \cup {Len(s) + 1}) = Cardinality(old) + 1
    <2> HIDE DEF old
    <2> QED BY <1>2, <1>4, FS_AddElement, FS_CardinalityType
<1>6. Oks(<<>>) = 0
    <2>1. {i \in DOMAIN <<>> : <<>>[i] = "ok"} = {}
        OBVIOUS
    <2> QED BY <2>1, FS_EmptySet DEF Oks
<1>7. Oks(s) = Cardinality(old) /\ Oks(Append(s, v)) = Cardinality(new)
    BY DEF Oks
<1> HIDE DEF old, new
<1> QED BY <1>3, <1>5, <1>6, <1>7

\* The events of connection c without an answer.
Owed(c) == Len(pushed[c]) - Oks(told[c])

\* While the program runs a client owes an answer "ok" exactly while it is about to
\* write it, and one that could not write it has ended (IPCClient.cpp:56-70).
OwedInv ==
    /\ told \in [Conns -> Seq(Answers)]
    /\ pushed \in [Conns -> Seq(Events)]
    /\ text \in [Conns -> Seq(Request)]
    /\ inbox \in [Conns -> Seq(Request)]
    /\ sent \in [Conns -> Seq(Request)]
    /\ main # "run" => told = Empty /\ pushed = Empty
    /\ main = "run" => \A c \in Conns :
          /\ client[c] = "blocked" => source[c] = c
          /\ client[c] = "write" => Owed(c) = IF Accepts(text[c]) THEN 1 ELSE 0
          /\ client[c] # "write" =>
                \/ Owed(c) = 0
                \/ Owed(c) = 1 /\ peer[c] = "gone" /\ client[c] = "ended"

\* A step that leaves the histories and the clients alone keeps it.
LEMMA OwedKept ==
    ASSUME TypeOK, OwedInv, UNCHANGED <<main, told, pushed, text, inbox, sent, source>>,
           \A c \in Conns : peer[c] = "gone" => peer'[c] = "gone",
           \A c \in Conns : \/ client'[c] = client[c]
                            \/ client[c] \in {"none", "new"} /\ client'[c] \in {"new", "loop"}
    PROVE  OwedInv'
BY DEF OwedInv, Owed

\* A client thread gives an "ok" only for what it has pushed.
LEMMA OwedClient ==
    ASSUME IInv, Accepted, OwedInv, NEW c \in Conns, Client(c) /\ UNCHANGED readerVars
    PROVE  OwedInv'
<1> USE DEF readerVars, listenerVars, peerVars
<1>0. TypeOK
    BY DEF IInv
<1>1. UNCHANGED <<main, sent>>
    BY DEF Client, ClientLoops, ClientReads, ClientWrites
<1>2. CASE main # "run"
    <2>1. UNCHANGED <<told, pushed>>
        BY <1>2 DEF Client, ClientLoops, ClientReads, ClientWrites, Handle, Note
    <2>2. text' \in [Conns -> Seq(Request)] /\ inbox' \in [Conns -> Seq(Request)]
        <3>1. source[c] \in Conns /\ inbox[source[c]] \in Seq(Request) /\ <<>> \in Seq(Request)
            BY <1>0, EmptySeq DEF TypeOK, OwedInv
        <3>2. \/ UNCHANGED <<text, inbox>>
              \/ /\ text' = [text EXCEPT ![c] = inbox[source[c]]]
                 /\ inbox' = [inbox EXCEPT ![source[c]] = <<>>]
              \/ text' = [text EXCEPT ![c] = <<>>] /\ UNCHANGED inbox
            BY DEF Client, ClientLoops, ClientReads, ClientWrites
        <3> QED BY <3>1, <3>2 DEF OwedInv
    <2> QED BY <1>1, <1>2, <2>1, <2>2 DEF OwedInv
<1>3. CASE main = "run"
    <2>1. client[c] # "none" => FileAt(cfd[c]) = c
        BY <1>3 DEF IInv, OwnDescriptors
    <2>2. /\ \A k \in Conns \ {c} : client'[k] = client[k] /\ source'[k] = source[k]
                                    /\ text'[k] = text[k]
          /\ UNCHANGED peer
        BY <1>0 DEF TypeOK, OwedInv, Client, ClientLoops, ClientReads, ClientWrites
    <2>3. CASE ClientLoops(c)
        <3>1. UNCHANGED <<told, pushed, text, inbox>>
            BY <2>3 DEF ClientLoops
        <3>2. \/ source'[c] = c /\ client'[c] = "blocked"
              \/ client'[c] = "ended"
            BY <1>0, <2>1, <2>3 DEF TypeOK, ClientLoops
        <3>3. Owed(c) = 0 /\ client'[c] # "write"
            BY <1>3, <2>3, <3>2 DEF ClientLoops, OwedInv
        <3> QED BY <1>1, <1>3, <2>2, <3>1, <3>2, <3>3 DEF OwedInv, Owed
    <2>4. CASE ClientReads(c)
        <3>1. source[c] = c /\ Owed(c) = 0
            BY <1>3, <2>4 DEF ClientReads, OwedInv
        <3>2. CASE UNCHANGED <<text, inbox, pushed>> /\ client' = [client EXCEPT ![c] = "ended"]
            BY <1>0, <1>1, <1>3, <2>2, <2>4, <3>1, <3>2 DEF TypeOK, ClientReads, OwedInv, Owed
        <3>3. CASE /\ text' = [text EXCEPT ![c] = inbox[c]]
                   /\ inbox' = [inbox EXCEPT ![c] = <<>>]
                   /\ Handle(c, inbox[c])
                   /\ client' = [client EXCEPT ![c] = "write"]
            <4>1. inbox[c] \in Seq(Request) /\ pushed[c] \in Seq(Events)
                BY DEF OwedInv
            <4>2. text'[c] = inbox[c] /\ client'[c] = "write" /\ UNCHANGED told
                BY <1>0, <2>4, <3>3 DEF TypeOK, OwedInv, ClientReads
            <4>3. text' \in [Conns -> Seq(Request)] /\ inbox' \in [Conns -> Seq(Request)]
                BY <3>3, <4>1, EmptySeq DEF OwedInv
            <4>4. CASE Accepts(inbox[c])
                <5>1. Event(inbox[c][1]) \in Events
                    BY <4>1, <4>4, ElementOfSeq DEF Accepts, Events
                <5>2. pushed' = [pushed EXCEPT ![c] = Append(@, Event(inbox[c][1]))]
                    BY <1>3, <3>3, <4>4 DEF Handle, Note
                <5>3. pushed' \in [Conns -> Seq(Events)] /\ Len(pushed'[c]) = Len(pushed[c]) + 1
                      /\ \A k \in Conns \ {c} : pushed'[k] = pushed[k]
                    BY <4>1, <5>1, <5>2, AppendProperties DEF OwedInv
                <5>4. Oks(told[c]) \in Nat /\ Len(pushed[c]) \in Nat
                    BY <4>1, OksAppend, LenProperties DEF OwedInv, Answers
                <5>5. Owed(c)' = 1
                    BY <3>1, <4>2, <5>3, <5>4 DEF Owed
                <5>6. \A k \in Conns \ {c} : Owed(k)' = Owed(k)
                    BY <4>2, <5>3 DEF Owed
                <5>7. \A k \in Conns :
                         /\ client'[k] = "blocked" => source'[k] = k
                         /\ client'[k] = "write" => Owed(k)' = IF Accepts(text'[k]) THEN 1 ELSE 0
                         /\ client'[k] # "write" =>
                               \/ Owed(k)' = 0
                               \/ Owed(k)' = 1 /\ peer'[k] = "gone" /\ client'[k] = "ended"
                    <6> TAKE k \in Conns
                    <6>1. CASE k = c
                        BY <4>2, <4>4, <5>5, <6>1
                    <6>2. CASE k # c
                        BY <1>3, <2>2, <5>6, <6>2 DEF OwedInv
                    <6> QED BY <6>1, <6>2
                <5>8. told' \in [Conns -> Seq(Answers)] /\ sent' \in [Conns -> Seq(Request)]
                      /\ main' = "run"
                    BY <1>1, <1>3, <4>2 DEF OwedInv
                <5> QED BY <4>3, <5>3, <5>7, <5>8 DEF OwedInv
            <4>5. CASE ~Accepts(inbox[c])
                <5>1. UNCHANGED pushed
                    BY <3>3, <4>5 DEF Handle
                <5>2. Owed(c)' = 0 /\ \A k \in Conns \ {c} : Owed(k)' = Owed(k)
                    BY <3>1, <4>2, <5>1 DEF Owed
                <5>3. \A k \in Conns :
                         /\ client'[k] = "blocked" => source'[k] = k
                         /\ client'[k] = "write" => Owed(k)' = IF Accepts(text'[k]) THEN 1 ELSE 0
                         /\ client'[k] # "write" =>
                               \/ Owed(k)' = 0
                               \/ Owed(k)' = 1 /\ peer'[k] = "gone" /\ client'[k] = "ended"
                    <6> TAKE k \in Conns
                    <6>1. CASE k = c
                        BY <4>2, <4>5, <5>2, <6>1
                    <6>2. CASE k # c
                        BY <1>3, <2>2, <5>2, <6>2 DEF OwedInv
                    <6> QED BY <6>1, <6>2
                <5>4. told' \in [Conns -> Seq(Answers)] /\ sent' \in [Conns -> Seq(Request)]
                      /\ pushed' \in [Conns -> Seq(Events)] /\ main' = "run"
                    BY <1>1, <1>3, <4>2, <5>1 DEF OwedInv
                <5> QED BY <4>3, <5>3, <5>4 DEF OwedInv
            <4> QED BY <4>4, <4>5
        <3> QED BY <2>4, <3>1, <3>2, <3>3 DEF ClientReads
    <2>5. CASE ClientWrites(c)
        <3>1. /\ FileAt(cfd[c]) = c /\ client[c] = "write" /\ UNCHANGED <<pushed, inbox, source>>
              /\ text' = [text EXCEPT ![c] = <<>>]
              /\ Owed(c) = IF Accepts(text[c]) THEN 1 ELSE 0
            BY <1>3, <2>1, <2>5 DEF ClientWrites, OwedInv
        <3>2. text' \in [Conns -> Seq(Request)]
            BY <3>1, EmptySeq DEF OwedInv
        <3>3. CASE peer[c] = "open"
            <4>1. /\ told' = [told EXCEPT ![c] = Append(@, Verdict(text[c]))]
                  /\ client' = [client EXCEPT ![c] = "loop"]
                BY <1>3, <2>5, <3>1, <3>3 DEF ClientWrites, Note
            <4>2. Verdict(text[c]) \in Answers /\ (Verdict(text[c]) = "ok" <=> Accepts(text[c]))
                <5>1. CASE Accepts(text[c])
                    BY <5>1 DEF Verdict, Answers, Accepts, Valid
                <5>2. CASE ~Accepts(text[c]) /\ Len(text[c]) = 1 /\ text[c][1].type = "query"
                    BY <5>2 DEF Verdict, Answers
                <5>3. CASE ~Accepts(text[c]) /\ ~(Len(text[c]) = 1 /\ text[c][1].type = "query")
                    BY <5>3 DEF Verdict, Answers
                <5> QED BY <5>1, <5>2, <5>3
            <4>3. told[c] \in Seq(Answers) /\ Len(pushed[c]) \in Nat
                BY LenProperties DEF OwedInv
            <4>4. Oks(told[c]) \in Nat
                  /\ Oks(Append(told[c], Verdict(text[c]))) =
                        Oks(told[c]) + (IF Accepts(text[c]) THEN 1 ELSE 0)
                BY <4>2, <4>3, OksAppend
            <4>5. told' \in [Conns -> Seq(Answers)] /\ told'[c] = Append(told[c], Verdict(text[c]))
                  /\ \A k \in Conns \ {c} : told'[k] = told[k]
                BY <4>1, <4>2, <4>3, AppendProperties DEF OwedInv
            <4>6. Owed(c)' = 0
                BY <3>1, <4>3, <4>4, <4>5 DEF Owed
            <4>7. client'[c] = "loop"
                BY <1>0, <4>1 DEF TypeOK
            <4>8. \A k \in Conns \ {c} : Owed(k)' = Owed(k)
                BY <3>1, <4>5 DEF Owed
            <4>9. \A k \in Conns :
                     /\ client'[k] = "blocked" => source'[k] = k
                     /\ client'[k] = "write" => Owed(k)' = IF Accepts(text'[k]) THEN 1 ELSE 0
                     /\ client'[k] # "write" =>
                           \/ Owed(k)' = 0
                           \/ Owed(k)' = 1 /\ peer'[k] = "gone" /\ client'[k] = "ended"
                <5> TAKE k \in Conns
                <5>1. CASE k = c
                    BY <4>6, <4>7, <5>1
                <5>2. CASE k # c
                    BY <1>3, <2>2, <4>8, <5>2 DEF OwedInv
                <5> QED BY <5>1, <5>2
            <4> QED BY <1>1, <1>3, <3>1, <3>2, <4>5, <4>9 DEF OwedInv
        <3>4. CASE peer[c] # "open"
            <4>1. peer[c] = "gone"
                BY <1>0, <3>1, <3>4 DEF TypeOK, Accepted
            <4>2. UNCHANGED told /\ client' = [client EXCEPT ![c] = "ended"]
                BY <2>5, <3>1, <3>4 DEF ClientWrites
            <4>3. client'[c] = "ended"
                BY <1>0, <4>2 DEF TypeOK
            <4>4. \A k \in Conns : Owed(k)' = Owed(k)
                BY <3>1, <4>2 DEF Owed
            <4>5. Owed(c) \in {0, 1}
                BY <3>1
            <4> QED BY <1>1, <1>3, <2>2, <3>1, <3>2, <4>1, <4>2, <4>3, <4>4, <4>5 DEF OwedInv
        <3> QED BY <3>3, <3>4
    <2> QED BY <2>3, <2>4, <2>5 DEF Client
<1> QED BY <1>2, <1>3

\* The client that the listener is about to start has not been started
\* (UnixListener.cpp:74-76).
LastIsNew == listener = "start" => client[handlers[Len(handlers)]] = "new"

\* Until it is started, nothing overtakes the client the vector ends with.
LEMMA LastIsNewStep ==
    ASSUME IInv, LastIsNew, [Next]_vars
    PROVE  LastIsNew'
<1> USE DEF readerVars, listenerVars, clientVars, peerVars
<1>0. TypeOK
    BY DEF IInv
<1>1. CASE UNCHANGED <<listener, client, handlers>>
    BY <1>1 DEF LastIsNew
<1>2. CASE Start \/ Crash \/ Exit
    BY <1>2 DEF LastIsNew, Start, Crash, Exit, ProcessEnds, SocketEnds
<1>3. CASE \/ Stop \/ StopListener \/ Reader \/ UNCHANGED vars
           \/ (StopReader /\ UNCHANGED <<reader, listenerVars, clientVars, peerVars>>)
    BY <1>1, <1>3 DEF Stop, StopListener, Reader, ReaderReadsConnection, vars
<1>4. CASE ListenerAccepts
    <2>1. Head(backlog) \in Conns /\ handlers' = Append(handlers, Head(backlog))
          /\ client' = [client EXCEPT ![Head(backlog)] = "new"]
        BY <1>0, <1>4 DEF TypeOK, ListenerAccepts
    <2>2. handlers'[Len(handlers')] = Head(backlog)
        BY <1>0, <2>1, AppendProperties DEF TypeOK
    <2> QED BY <1>0, <2>1, <2>2 DEF TypeOK, LastIsNew
<1>5. CASE Listener /\ ~ListenerAccepts
    <2>1. listener' # "start"
        BY <1>5 DEF Listener, ListenerOpens, ListenerBinds,
                    ListenerListens, ListenerLoops, ListenerStartsClient,
                    ListenerCloses, ListenerUnlinks
    <2> QED BY <2>1 DEF LastIsNew
<1>6. ASSUME NEW c \in Conns, Client(c) PROVE LastIsNew'
    <2>1. client[c] # "new" /\ UNCHANGED <<listener, handlers>>
          /\ \A k \in Conns \ {c} : client'[k] = client[k]
        BY <1>0, <1>6 DEF TypeOK, Client, ClientLoops, ClientReads, ClientWrites
    <2>2. listener = "start" => handlers[Len(handlers)] \in Conns
        <3> SUFFICES ASSUME listener = "start" PROVE handlers[Len(handlers)] \in Conns
            OBVIOUS
        <3>1. handlers # <<>> /\ handlers \in Seq(Conns)
            BY DEF TypeOK, IInv, Registered
        <3>2. Len(handlers) \in 1..Len(handlers)
            BY <3>1, EmptySeq, LenProperties
        <3> QED BY <3>1, <3>2, ElementOfSeq
    <2> QED BY <2>1, <2>2 DEF LastIsNew
<1>7. CASE Peers
    BY <1>1, <1>7 DEF Peers, Connect, Send, HangUp
<1> QED BY <1>2, <1>3, <1>4, <1>5, <1>6, <1>7 DEF Next, Stopping

\* No step of any thread, peer or signal gives an "ok" for nothing.
LEMMA OwedStep ==
    ASSUME IInv, Accepted, LastIsNew, OwedInv, [Next]_vars
    PROVE  OwedInv'
<1> USE DEF readerVars, listenerVars, clientVars, peerVars
<1>0. TypeOK /\ Registered /\ CleanStart
    BY DEF IInv
<1>1. CASE UNCHANGED vars
    BY <1>0, <1>1, OwedKept DEF vars
<1>2. CASE Start
    <2>1. told = Empty /\ pushed = Empty /\ \A c \in Conns : client[c] = "none"
        BY <1>0, <1>2 DEF Start, OwedInv, CleanStart
    <2>2. \A c \in Conns : Owed(c)' = 0
        <3> TAKE c \in Conns
        <3>1. told'[c] = <<>> /\ pushed'[c] = <<>>
            BY <1>2, <2>1 DEF Start, Empty
        <3>2. Oks(<<>>) = 0 /\ Len(<<>>) = 0
            BY OksAppend, EmptySeq DEF Answers
        <3> QED BY <3>1, <3>2 DEF Owed
    <2> QED BY <1>2, <2>1, <2>2 DEF Start, OwedInv
<1>3. CASE Stop \/ Crash \/ Exit
    <2>1. /\ main' # "run" /\ told' = Empty /\ pushed' = Empty /\ sent' = Empty
          /\ \/ UNCHANGED <<text, inbox>>
             \/ text' = Empty /\ inbox' = Empty
        BY <1>3 DEF Stop, Crash, Exit, ProcessEnds, SocketEnds
    <2> QED BY <2>1, EmptySeq DEF OwedInv, Empty
<1>4. CASE StopReader /\ UNCHANGED <<reader, listenerVars, clientVars, peerVars>>
    <2>1. main # "run" /\ main' # "run"
        BY <1>4 DEF StopReader
    <2> QED BY <1>4, <2>1 DEF OwedInv
<1>5. CASE StopListener
    <2>1. main # "run" /\ main' # "run" /\ UNCHANGED <<clientVars, peerVars>>
        BY <1>5 DEF StopListener, BeginWalk, CloseClient, NextClient, CloseSocket, UnlinkSocket,
                    Unflag
    <2> QED BY <2>1 DEF OwedInv
<1>6. CASE ReaderAlone /\ UNCHANGED <<listenerVars, clientVars, peerVars>>
    BY <1>0, <1>6, OwedKept DEF ReaderAlone
<1>7. CASE ReaderReadsConnection
    <2>1. inbox' \in [Conns -> Seq(Request)]
        BY <1>7, EmptySeq DEF ReaderReadsConnection, OwedInv
    <2> QED BY <1>7, <2>1 DEF ReaderReadsConnection, OwedInv, Owed
<1>8. CASE Listener /\ UNCHANGED readerVars
    <2>1. UNCHANGED <<main, told, pushed, text, inbox, sent, source, peer>>
        BY <1>8 DEF Listener
    <2>2. CASE ListenerAccepts
        <3>1. Head(backlog) \in Conns /\ client[Head(backlog)] = "none"
            <4>1. Head(backlog) = backlog[1] /\ 1 \in 1..Len(backlog)
                BY <1>0, <2>2, EmptySeq, LenProperties DEF TypeOK, ListenerAccepts
            <4> QED BY <1>0, <2>2, <4>1, ElementOfSeq DEF TypeOK, Accepted
        <3>2. client' = [client EXCEPT ![Head(backlog)] = "new"]
            BY <2>2 DEF ListenerAccepts
        <3> QED BY <1>0, <2>1, <3>1, <3>2, OwedKept DEF TypeOK
    <2>3. CASE ListenerStartsClient
        <3> DEFINE c == handlers[Len(handlers)]
        <3>1. c \in Conns /\ client' = [client EXCEPT ![c] = "loop"]
            <4>1. Len(handlers) \in 1..Len(handlers)
                BY <1>0, <2>3, EmptySeq, LenProperties DEF TypeOK, Registered, ListenerStartsClient
            <4> QED BY <1>0, <2>3, <4>1, ElementOfSeq DEF TypeOK, ListenerStartsClient
        <3>2. client[c] = "new"
            BY <2>3 DEF ListenerStartsClient, LastIsNew
        <3> HIDE DEF c
        <3> QED BY <1>0, <2>1, <3>1, <3>2, OwedKept DEF TypeOK
    <2>4. CASE UNCHANGED client
        BY <1>0, <2>1, <2>4, OwedKept
    <2> QED BY <1>8, <2>2, <2>3, <2>4 DEF Listener, ListenerOpens, ListenerBinds,
                                          ListenerListens, ListenerLoops,
                                          ListenerCloses, ListenerUnlinks
<1>9. CASE Peers /\ UNCHANGED readerVars
    <2>1. ASSUME NEW c \in Conns, Connect(c) \/ HangUp(c), UNCHANGED <<main, clientVars>>
          PROVE  OwedInv'
        BY <1>0, <2>1, OwedKept DEF TypeOK, Connect, HangUp
    <2>2. ASSUME NEW c \in Conns, Send(c), UNCHANGED <<main, clientVars>> PROVE OwedInv'
        <3> DEFINE rq == Script[c][Len(sent[c]) + 1]
        <3>1. rq \in Request
            <4>1. Script[c] \in Seq(Request) /\ Len(sent[c]) \in Nat /\ Len(sent[c]) < Len(Script[c])
                BY <2>2, SocketAssumption, LenProperties DEF Send, OwedInv
            <4> QED BY <4>1, ElementOfSeq, LenProperties
        <3>2. /\ inbox' = [inbox EXCEPT ![c] = Append(@, rq)]
              /\ sent' = [sent EXCEPT ![c] = Append(@, rq)]
              /\ UNCHANGED <<told, pushed, peer>>
            BY <2>2 DEF Send, Note
        <3> HIDE DEF rq
        <3>3. inbox' \in [Conns -> Seq(Request)] /\ sent' \in [Conns -> Seq(Request)]
            BY <3>1, <3>2, AppendProperties DEF OwedInv
        <3> QED BY <2>2, <3>2, <3>3 DEF OwedInv, Owed
    <2> QED BY <1>9, <2>1, <2>2 DEF Peers
<1> QED BY <1>1, <1>2, <1>3, <1>4, <1>5, <1>6, <1>7, <1>8, <1>9, OwedClient
        DEF Next, Stopping, Reader

\* The events pushed for a connection are as many as the answers "ok" written to it,
\* and one more at most, while an answer is being written or could not be, for any
\* number of peers and any scripts (IPCRequestHandler.cpp:141-151, IPCClient.cpp:56-65).
THEOREM TruthfulAnswers == Spec => []AnswersAreTrue
<1>1. Init => Accepted /\ LastIsNew /\ OwedInv
    BY Names, EmptySeq DEF Init, SocketInit, NoFiles, Idle, Empty, Accepted, LastIsNew, OwedInv
<1>2. IInv /\ IInv' /\ Accepted /\ LastIsNew /\ OwedInv /\ [Next]_vars
         => Accepted' /\ LastIsNew' /\ OwedInv'
    BY AcceptedStep, LastIsNewStep, OwedStep DEF IInv
<1>3. OwedInv => AnswersAreTrue
    <2> SUFFICES ASSUME OwedInv, NEW c \in Conns
                 PROVE  Owed(c) \in IF client[c] = "write" \/ peer[c] = "gone"
                                    THEN {0, 1} ELSE {0}
        BY DEF AnswersAreTrue, Owed, Oks
    <2>1. CASE main = "run"
        BY <2>1 DEF OwedInv
    <2>2. CASE main # "run"
        <3>1. told[c] = <<>> /\ pushed[c] = <<>>
            BY <2>2 DEF OwedInv, Empty
        <3>2. Oks(<<>>) = 0 /\ Len(<<>>) = 0
            BY OksAppend, EmptySeq DEF Answers
        <3> QED BY <3>1, <3>2 DEF Owed
    <2> QED BY <2>1, <2>2
<1> QED BY <1>1, <1>2, <1>3, InductiveInvariant, PTL DEF Spec

-----------------------------------------------------------------------------
(* The service *)

Texts == Seq(Seq(Request))

\* Taken counts the requests text by text.
LEMMA TakenCounts ==
    ASSUME NEW s \in Texts
    PROVE  \E f \in [0..Len(s) -> Nat] :
              /\ f[0] = 0
              /\ \A i \in 1..Len(s) : f[i] = f[i - 1] + Len(s[i])
              /\ Service!Taken(s) = f[Len(s)]
<1> DEFINE step == [i \in 1..Len(s) |-> [n \in Nat |-> n + Len(s[i])]]
           count[i \in 0..Len(s)] == IF i = 0 THEN 0 ELSE count[i - 1] + Len(s[i])
<1>1. Len(s) \in Nat /\ \A i \in 1..Len(s) : Len(s[i]) \in Nat
    BY DEF Texts
<1>2. /\ step \in [1..Len(s) -> [Nat -> Nat]]
      /\ \A i \in 1..Len(s), n \in Nat : step[i][n] = n + Len(s[i])
    BY <1>1
<1>3. PICK f : Computes(f, Len(s), Nat, 0, step)
    <2> HIDE DEF step, count
    <2>1. Len(s) \in Nat /\ 0 \in Nat
        BY <1>1
    <2> QED BY <2>1, <1>2, RecursionExists
<1>4. f \in [0..Len(s) -> Nat] /\ f[0] = 0 /\ \A i \in 1..Len(s) : f[i] = step[i][f[i - 1]]
    BY <1>3 DEF Computes
<1> HIDE DEF step
<1>5. \A i \in 1..Len(s) : f[i] = f[i - 1] + Len(s[i])
    <2>1. \A i \in 1..Len(s) : i - 1 \in 0..Len(s)
        BY <1>1
    <2> QED BY <1>2, <1>4, <2>1
<1>6. f = [i \in 0..Len(s) |-> IF i = 0 THEN 0 ELSE f[i - 1] + Len(s[i])]
    BY <1>1, <1>4, <1>5
<1>7. count = [i \in 0..Len(s) |-> IF i = 0 THEN 0 ELSE count[i - 1] + Len(s[i])]
    BY <1>6
<1>8. Service!Taken(s) = count[Len(s)]
    BY DEF Service!Taken
<1> HIDE DEF count
<1>9. count[0] = 0 /\ \A i \in 1..Len(s) : count[i] = count[i - 1] + Len(s[i])
    <2> DEFINE n == Len(s)
    <2>1. n \in Nat /\ 0 \in 0..n /\ \A i \in 1..n : i \in 0..n /\ i # 0
        BY <1>1
    <2>2. \A i \in 0..n : count[i] = IF i = 0 THEN 0 ELSE count[i - 1] + Len(s[i])
        BY <1>7, Zenon
    <2> HIDE DEF n
    <2>3. count[0] = 0 /\ \A i \in 1..n : count[i] = count[i - 1] + Len(s[i])
        BY <2>1, <2>2
    <2> QED BY <2>3 DEF n
<1> DEFINE S == {k \in Nat : k <= Len(s) => count[k] = f[k]}
<1>10. 0 \in S
    BY <1>4, <1>9
<1>11. ASSUME NEW k \in Nat, k \in S PROVE k + 1 \in S
    <2>1. k + 1 <= Len(s) =>
             count[k + 1] = count[k] + Len(s[k + 1]) /\ f[k + 1] = f[k] + Len(s[k + 1])
        BY <1>1, <1>5, <1>9
    <2> QED BY <1>1, <1>11, <2>1
<1>12. Len(s) \in S
    <2> HIDE DEF S
    <2> QED BY <1>1, <1>10, <1>11, NaturalInduction
<1>13. Service!Taken(s) = f[Len(s)]
    BY <1>8, <1>12
<1> QED BY <1>4, <1>5, <1>13

\* One more text adds its requests to those taken.
LEMMA TakenAppend ==
    ASSUME NEW s \in Texts, NEW t \in Seq(Request)
    PROVE  /\ Service!Taken(s) \in Nat
           /\ Service!Taken(Append(s, t)) = Service!Taken(s) + Len(t)
           /\ Service!Taken(<<>>) = 0
<1>1. /\ Append(s, t) \in Texts /\ Len(s) \in Nat /\ Len(t) \in Nat
      /\ Len(Append(s, t)) = Len(s) + 1
      /\ \A i \in 1..Len(s) : Append(s, t)[i] = s[i]
      /\ Append(s, t)[Len(s) + 1] = t
    BY AppendProperties, LenProperties DEF Texts
<1>2. PICK f \in [0..Len(s) -> Nat] :
              /\ f[0] = 0
              /\ \A i \in 1..Len(s) : f[i] = f[i - 1] + Len(s[i])
              /\ Service!Taken(s) = f[Len(s)]
    BY TakenCounts
<1>3. PICK g \in [0..(Len(s) + 1) -> Nat] :
              /\ g[0] = 0
              /\ \A i \in 1..(Len(s) + 1) : g[i] = g[i - 1] + Len(Append(s, t)[i])
              /\ Service!Taken(Append(s, t)) = g[Len(s) + 1]
    BY <1>1, TakenCounts
<1> DEFINE S == {k \in Nat : k <= Len(s) => f[k] = g[k]}
<1>4. 0 \in S
    BY <1>2, <1>3
<1>5. ASSUME NEW k \in Nat, k \in S PROVE k + 1 \in S
    <2>1. k + 1 <= Len(s) =>
             f[k + 1] = f[k] + Len(s[k + 1]) /\ g[k + 1] = g[k] + Len(s[k + 1])
        BY <1>1, <1>2, <1>3
    <2> QED BY <1>1, <1>5, <2>1
<1>6. Len(s) \in S
    <2> HIDE DEF S
    <2> QED BY <1>1, <1>4, <1>5, NaturalInduction
<1>7. g[Len(s) + 1] = g[Len(s)] + Len(t)
    BY <1>1, <1>3
<1>8. f[Len(s)] = g[Len(s)] /\ f[Len(s)] \in Nat
    BY <1>1, <1>2, <1>6
<1>9. Service!Taken(<<>>) = 0
    <2>1. <<>> \in Texts /\ Len(<<>>) = 0
        BY DEF Texts
    <2> QED BY <2>1, TakenCounts
<1> QED BY <1>2, <1>3, <1>7, <1>8, <1>9

\* A connection holds what its peer has sent after the requests that were taken
\* (IPCClient.cpp:56).
Waiting(c) ==
    /\ Len(sent[c]) = Service!Taken(served[c]) + Len(inbox[c])
    /\ \A i \in 1..Len(inbox[c]) : inbox[c][i] = sent[c][Service!Taken(served[c]) + i]

\* A text is answered before the next one is taken; the client that has one in hand
\* has the last one, or none from a peer that is gone (IPCClient.cpp:56-70).
Unanswered(c) ==
    /\ client[c] \notin {"write", "ended"} => Len(told[c]) = Len(served[c])
    /\ client[c] = "write" =>
          \/ text[c] = <<>> /\ peer[c] = "gone"
          \/ Len(served[c]) = Len(told[c]) + 1 /\ text[c] = served[c][Len(served[c])]

\* While the program runs, nothing of what a peer sends is lost or taken twice.
InOrder ==
    /\ served \in [Conns -> Texts]
    /\ main # "run" => sent = Empty /\ served = Empty
    /\ main = "off" => inbox = Empty
    /\ main = "run" => \A c \in Conns : Waiting(c) /\ Unanswered(c)

\* The service judges a text as the program does.
LEMMA SameJudgement ==
    /\ \A t : Service!Accepts(t) <=> Accepts(t)
    /\ \A rq : Service!Event(rq) = Event(rq)
    /\ \A t : Service!Verdict(t) = Verdict(t)
    /\ \A t : Service!Kills(t) <=> Kills(t)
<1>1. Service!EventType = EventType /\ Service!DataFor = DataFor
    BY DEF Service!EventType, EventType, Service!DataFor, DataFor
<1>2. ASSUME NEW rq PROVE (Service!Valid(rq) <=> Valid(rq)) /\ Service!Event(rq) = Event(rq)
    BY <1>1 DEF Service!Valid, Valid, Service!Event, Event
<1>3. ASSUME NEW t PROVE Service!Accepts(t) <=> Accepts(t)
    BY <1>2 DEF Service!Accepts, Accepts
<1>4. ASSUME NEW t PROVE Service!Verdict(t) = Verdict(t)
    BY <1>3 DEF Service!Verdict, Verdict
<1>5. ASSUME NEW t PROVE Service!Kills(t) <=> Kills(t)
    BY DEF Service!Kills, Kills
<1> QED BY <1>2, <1>3, <1>4, <1>5

\* A step of the service, or none.
ServiceStep == [Service!Next]_(Service!vars)

\* A step that changes no history and no buffer is none of the service.
LEMMA InOrderKept ==
    ASSUME InOrder, UNCHANGED <<main, sent, served, pushed, told, inbox, text>>,
           \A c \in Conns : peer[c] = "gone" => peer'[c] = "gone",
           \A c \in Conns : \/ client'[c] = client[c]
                            \/ client[c] \notin {"write", "ended"} /\ client'[c] # "write"
    PROVE  InOrder' /\ ServiceStep
<1>1. UNCHANGED Service!vars
    BY DEF Service!vars
<1>2. \A c \in Conns : Waiting(c) => Waiting(c)'
    BY DEF Waiting
<1>3. \A c \in Conns : Unanswered(c) => Unanswered(c)'
    BY DEF Unanswered
<1> QED BY <1>1, <1>2, <1>3 DEF InOrder, ServiceStep

\* While a stop is under way the histories are empty and stay so.
LEMMA StopIsSilent ==
    ASSUME InOrder, UNCHANGED <<sent, served, pushed, told>>,
           main # "run", main' \notin {"run", "off"}
    PROVE  InOrder' /\ ServiceStep
<1>1. UNCHANGED Service!vars
    BY DEF Service!vars
<1> QED BY <1>1 DEF InOrder, ServiceStep

\* A request is sent.
LEMMA ServiceSends ==
    ASSUME TypeOK, OwedInv, InOrder, NEW c \in Conns, Send(c), UNCHANGED <<main, clientVars>>
    PROVE  InOrder' /\ ServiceStep
<1> DEFINE rq == Script[c][Len(sent[c]) + 1]
<1>1. rq \in Request
    <2>1. Script[c] \in Seq(Request) /\ Len(sent[c]) \in Nat /\ Len(sent[c]) < Len(Script[c])
        BY SocketAssumption, LenProperties DEF Send, OwedInv
    <2> QED BY <2>1, ElementOfSeq, LenProperties
<1>2. /\ inbox' = [inbox EXCEPT ![c] = Append(@, rq)]
      /\ sent' = [sent EXCEPT ![c] = Append(@, rq)]
      /\ UNCHANGED <<served, pushed, told, peer>>
      /\ c \notin Eager => Len(told[c]) = Len(sent[c])
      /\ main = "run" /\ main' = "run"
    BY DEF Send, Note
<1> HIDE DEF rq
<1>3. Service!Send(c, rq)
    BY <1>2 DEF Service!Send
<1>4. ServiceStep
    BY <1>1, <1>3 DEF Service!Next, ServiceStep
<1>5. Waiting(c)'
    <2> DEFINE taken == Service!Taken(served[c])
    <2>1. taken \in Nat
        BY TakenAppend, EmptySeq DEF InOrder
    <2>2. inbox[c] \in Seq(Request) /\ sent[c] \in Seq(Request)
        BY DEF OwedInv
    <2>3. inbox'[c] = Append(inbox[c], rq) /\ sent'[c] = Append(sent[c], rq)
        BY <1>2 DEF OwedInv
    <2>4. Len(sent[c]) = taken + Len(inbox[c])
          /\ \A i \in 1..Len(inbox[c]) : inbox[c][i] = sent[c][taken + i]
        BY <1>2 DEF InOrder, Waiting
    <2>5. /\ Len(sent[c]) \in Nat /\ Len(inbox[c]) \in Nat
          /\ Len(sent'[c]) = Len(sent[c]) + 1 /\ Len(inbox'[c]) = Len(inbox[c]) + 1
          /\ \A i \in 1..Len(sent[c]) : sent'[c][i] = sent[c][i]
          /\ \A i \in 1..Len(inbox[c]) : inbox'[c][i] = inbox[c][i]
          /\ sent'[c][Len(sent[c]) + 1] = rq /\ inbox'[c][Len(inbox[c]) + 1] = rq
        BY <1>1, <2>2, <2>3, AppendProperties, LenProperties
    <2> HIDE DEF taken
    <2>6. Len(sent'[c]) = taken + Len(inbox'[c])
        BY <2>1, <2>4, <2>5
    <2>7. ASSUME NEW i \in 1..Len(inbox'[c]) PROVE inbox'[c][i] = sent'[c][taken + i]
        <3>1. CASE i = Len(inbox[c]) + 1
            BY <2>1, <2>4, <2>5, <3>1
        <3>2. CASE i \in 1..Len(inbox[c])
            <4>1. taken + i \in 1..Len(sent[c])
                BY <2>1, <2>4, <2>5, <3>2
            <4> QED BY <2>4, <2>5, <3>2, <4>1
        <3> QED BY <2>5, <3>1, <3>2
    <2> QED BY <1>2, <2>6, <2>7 DEF Waiting, taken
<1>6. \A k \in Conns \ {c} : Waiting(k) => Waiting(k)'
    BY <1>2 DEF OwedInv, Waiting
<1>7. \A k \in Conns : Unanswered(k) => Unanswered(k)'
    BY <1>2 DEF Unanswered, clientVars
<1> QED BY <1>2, <1>4, <1>5, <1>6, <1>7 DEF InOrder

\* The requests that have arrived are taken, all of them.
LEMMA ServiceServes ==
    ASSUME IInv, OwedInv, InOrder, NEW c \in Conns, main = "run", UNCHANGED main,
           ClientReads(c)
    PROVE  InOrder' /\ ServiceStep
<1>0. TypeOK
    BY DEF IInv
<1>1. /\ source[c] = c /\ client[c] = "blocked" /\ UNCHANGED <<told, sent, peer>>
    BY DEF ClientReads, OwedInv
<1>2. CASE UNCHANGED <<text, inbox, served, pushed>> /\ client' = [client EXCEPT ![c] = "ended"]
    BY <1>0, <1>1, <1>2, InOrderKept DEF TypeOK
<1>3. CASE /\ inbox[c] # <<>> \/ peer[c] = "gone"
           /\ ~Kills(inbox[c])
           /\ text' = [text EXCEPT ![c] = inbox[c]]
           /\ inbox' = [inbox EXCEPT ![c] = <<>>]
           /\ Handle(c, inbox[c])
           /\ client' = [client EXCEPT ![c] = "write"]
    <2>1. /\ inbox[c] \in Seq(Request) /\ sent[c] \in Seq(Request)
          /\ served[c] \in Texts /\ pushed \in [Conns -> Seq(Events)]
        BY DEF OwedInv, InOrder
    <2>2. /\ text'[c] = inbox[c] /\ inbox'[c] = <<>> /\ client'[c] = "write"
          /\ \A k \in Conns \ {c} : /\ text'[k] = text[k] /\ inbox'[k] = inbox[k]
                                    /\ client'[k] = client[k]
        BY <1>0, <1>3 DEF TypeOK, OwedInv
    <2>3. CASE inbox[c] = <<>>
        <3>1. ~Accepts(inbox[c])
            BY <2>3 DEF Accepts
        <3>2. UNCHANGED <<served, pushed>>
            BY <1>3, <2>3, <3>1 DEF Handle
        <3>3. UNCHANGED Service!vars
            BY <1>1, <3>2 DEF Service!vars
        <3>4. \A k \in Conns : Waiting(k) => Waiting(k)'
            BY <1>1, <2>2, <2>3, <3>2 DEF Waiting
        <3>5. \A k \in Conns : Unanswered(k) => Unanswered(k)'
            BY <1>1, <1>3, <2>2, <2>3, <3>2 DEF Unanswered
        <3> QED BY <3>2, <3>3, <3>4, <3>5 DEF InOrder, ServiceStep
    <2>4. CASE inbox[c] # <<>>
        <3> DEFINE taken == Service!Taken(served[c])
                   all == SubSeq(sent[c], taken + 1, Len(sent[c]))
        <3>1. taken \in Nat /\ Service!Taken(Append(served[c], inbox[c])) = taken + Len(inbox[c])
            BY <2>1, TakenAppend
        <3>2. Len(sent[c]) = taken + Len(inbox[c])
              /\ \A i \in 1..Len(inbox[c]) : inbox[c][i] = sent[c][taken + i]
            BY DEF InOrder, Waiting
        <3>3. Len(sent[c]) \in Nat /\ Len(inbox[c]) \in Nat \ {0}
            BY <2>1, <2>4, EmptySeq, LenProperties
        <3> HIDE DEF taken
        <3>4. all = inbox[c]
            <4>1. /\ all \in Seq(Request) /\ Len(all) = Len(inbox[c])
                  /\ \A i \in 1..Len(all) : all[i] = sent[c][taken + i]
                <5>1. /\ taken + 1 \in 1..(Len(sent[c]) + 1)
                      /\ Len(sent[c]) \in taken..Len(sent[c])
                      /\ Len(sent[c]) - (taken + 1) + 1 = Len(inbox[c])
                    BY <3>1, <3>2, <3>3
                <5> QED BY <2>1, <3>1, <3>2, <3>3, <5>1, SubSeqProperties
            <4>2. \A i \in 1..Len(all) : all[i] = inbox[c][i]
                BY <3>2, <4>1
            <4> QED BY <2>1, <4>1, <4>2, SeqEqual
        <3>5. served' = [served EXCEPT ![c] = Append(@, inbox[c])]
            BY <1>3, <2>4 DEF Handle, Note
        <3>6. pushed' = [pushed EXCEPT ![c] =
                            IF Accepts(inbox[c]) THEN Append(@, Event(inbox[c][1])) ELSE @]
            BY <1>3, <2>1 DEF Handle, Note
        <3>7. Len(told[c]) = Len(served[c])
            BY <1>1 DEF InOrder, Unanswered
        <3>8. Service!Serve(c, Len(sent[c]))
            <4>1. pushed' = [pushed EXCEPT ![c] =
                                IF Service!Accepts(all) THEN Append(@, Service!Event(all[1]))
                                                        ELSE @]
                BY <3>4, <3>6, SameJudgement
            <4>2. ~Service!Kills(all)
                BY <1>3, <3>4, SameJudgement
            <4> QED BY <1>1, <2>4, <3>4, <3>5, <3>7, <4>1, <4>2 DEF Service!Serve, taken
        <3>9. ServiceStep
            <4>1. Len(sent[c]) \in 1..Len(sent[c])
                BY <3>1, <3>2, <3>3
            <4> QED BY <3>8, <4>1 DEF Service!Next, ServiceStep
        <3>10. /\ served' \in [Conns -> Texts] /\ served'[c] = Append(served[c], inbox[c])
               /\ \A k \in Conns \ {c} : served'[k] = served[k]
            BY <2>1, <3>5, AppendProperties DEF InOrder, Texts
        <3>11. /\ Len(served'[c]) = Len(served[c]) + 1
               /\ served'[c][Len(served'[c])] = inbox[c]
            BY <2>1, <3>10, AppendProperties, LenProperties DEF Texts
        <3>12. Waiting(c)'
            BY <1>1, <2>2, <3>1, <3>2, <3>10, EmptySeq DEF Waiting, taken
        <3>13. Unanswered(c)'
            BY <1>1, <2>2, <3>7, <3>11 DEF Unanswered
        <3>14. \A k \in Conns \ {c} : Waiting(k) /\ Unanswered(k) => Waiting(k)' /\ Unanswered(k)'
            BY <1>1, <2>2, <3>10 DEF Waiting, Unanswered
        <3> QED BY <3>9, <3>10, <3>12, <3>13, <3>14 DEF InOrder
    <2> QED BY <2>3, <2>4
<1> QED BY <1>1, <1>2, <1>3 DEF ClientReads

\* The answer to the last text taken is written.
LEMMA ServiceAnswers ==
    ASSUME IInv, Accepted, OwedInv, InOrder, NEW c \in Conns, main = "run", UNCHANGED main,
           ClientWrites(c)
    PROVE  InOrder' /\ ServiceStep
<1>0. TypeOK
    BY DEF IInv
<1>1. /\ client[c] = "write" /\ FileAt(cfd[c]) = c
      /\ text' = [text EXCEPT ![c] = <<>>]
      /\ UNCHANGED <<peer, inbox, sent, served, pushed>>
    BY DEF ClientWrites, IInv, OwnDescriptors
<1>2. \A k \in Conns : Waiting(k) => Waiting(k)'
    BY <1>1 DEF Waiting
<1>3. CASE peer[c] = "open"
    <2>1. /\ told' = [told EXCEPT ![c] = Append(@, Verdict(text[c]))]
          /\ client' = [client EXCEPT ![c] = "loop"]
        BY <1>1, <1>3 DEF ClientWrites, Note
    <2>2. Len(served[c]) = Len(told[c]) + 1 /\ text[c] = served[c][Len(served[c])]
        BY <1>1, <1>3 DEF InOrder, Unanswered
    <2>3. told[c] \in Seq(Answers) /\ Len(told[c]) \in Nat /\ told \in [Conns -> Seq(Answers)]
        BY LenProperties DEF OwedInv
    <2>4. Service!Answer(c)
        <3>1. Len(told[c]) < Len(served[c]) /\ text[c] = served[c][Len(told[c]) + 1]
            BY <2>2, <2>3
        <3>2. told' = [told EXCEPT ![c] = Append(@, Service!Verdict(served[c][Len(@) + 1]))]
            BY <2>1, <2>3, <3>1, SameJudgement
        <3> QED BY <1>1, <3>1, <3>2 DEF Service!Answer
    <2>5. ServiceStep
        BY <2>4 DEF Service!Next, ServiceStep
    <2>6. /\ Len(told'[c]) = Len(served[c]) /\ client'[c] = "loop"
          /\ \A k \in Conns \ {c} : /\ told'[k] = told[k] /\ client'[k] = client[k]
                                    /\ text'[k] = text[k]
        BY <1>0, <1>1, <2>1, <2>2, <2>3 DEF TypeOK, OwedInv
    <2>7. \A k \in Conns : Unanswered(k) => Unanswered(k)'
        BY <1>1, <2>6 DEF Unanswered
    <2> QED BY <1>1, <1>2, <2>5, <2>7 DEF InOrder
<1>4. CASE peer[c] # "open"
    <2>1. UNCHANGED told /\ client' = [client EXCEPT ![c] = "ended"]
        BY <1>1, <1>4 DEF ClientWrites
    <2>2. UNCHANGED Service!vars
        BY <1>1, <2>1 DEF Service!vars
    <2>3. /\ client'[c] = "ended"
          /\ \A k \in Conns \ {c} : client'[k] = client[k] /\ text'[k] = text[k]
        BY <1>0, <1>1, <2>1 DEF TypeOK, OwedInv
    <2>4. \A k \in Conns : Unanswered(k) => Unanswered(k)'
        BY <1>1, <2>1, <2>3 DEF Unanswered
    <2> QED BY <1>1, <1>2, <2>2, <2>4 DEF InOrder, ServiceStep
<1> QED BY <1>3, <1>4

\* Every step of a client is one of the service, or none.
LEMMA ServiceClient ==
    ASSUME IInv, Accepted, OwedInv, InOrder, NEW c \in Conns, Client(c)
    PROVE  InOrder' /\ ServiceStep
<1>0. TypeOK /\ CleanStart /\ UNCHANGED main
    BY DEF IInv, Client
<1>1. CASE main # "run"
    <2>1. UNCHANGED <<sent, served, pushed, told>>
        BY <1>1 DEF Client, ClientLoops, ClientReads, ClientWrites, Handle, Note, peerVars
    <2>2. main # "off"
        BY <1>0 DEF CleanStart, Client, ClientLoops, ClientReads, ClientWrites
    <2> QED BY <1>0, <1>1, <2>1, <2>2, StopIsSilent
<1>2. CASE main = "run" /\ ClientLoops(c)
    <2>1. UNCHANGED <<sent, served, pushed, told, inbox, text, peer>>
        BY <1>2 DEF ClientLoops, peerVars
    <2>2. \A k \in Conns : \/ client'[k] = client[k]
                           \/ client[k] \notin {"write", "ended"} /\ client'[k] # "write"
        BY <1>0, <1>2 DEF TypeOK, ClientLoops
    <2> QED BY <1>0, <2>1, <2>2, InOrderKept
<1> QED BY <1>0, <1>1, <1>2, ServiceServes, ServiceAnswers DEF Client

\* Every step of the program is one of the service, or none.
LEMMA ServiceSteps ==
    ASSUME IInv, Accepted, LastIsNew, OwedInv, InOrder, [Next]_vars
    PROVE  InOrder' /\ ServiceStep
<1> USE DEF readerVars, listenerVars, clientVars, peerVars
<1>0. TypeOK /\ Registered /\ CleanStart
    BY DEF IInv
<1>1. CASE UNCHANGED vars
    BY <1>1, InOrderKept DEF vars
<1>2. CASE Start
    <2>1. /\ main = "off" /\ main' = "run" /\ UNCHANGED <<sent, served, pushed, told, inbox, client>>
          /\ sent = Empty /\ served = Empty /\ told = Empty /\ inbox = Empty
          /\ \A c \in Conns : client[c] = "none"
        BY <1>0, <1>2 DEF Start, InOrder, OwedInv, CleanStart
    <2>2. UNCHANGED Service!vars
        BY <2>1 DEF Service!vars
    <2>3. Service!Taken(<<>>) = 0
        BY TakenAppend, EmptySeq DEF Texts
    <2>4. ASSUME NEW c \in Conns PROVE Waiting(c)' /\ Unanswered(c)'
        <3>1. sent'[c] = <<>> /\ served'[c] = <<>> /\ told'[c] = <<>> /\ inbox'[c] = <<>>
            BY <2>1 DEF Empty
        <3> QED BY <2>1, <2>3, <3>1, EmptySeq DEF Waiting, Unanswered
    <2> QED BY <2>1, <2>2, <2>4 DEF InOrder, ServiceStep
<1>3. CASE Stop \/ Crash \/ Exit
    <2>1. /\ main' # "run" /\ (main' = "off" => inbox' = Empty)
          /\ sent' = Empty /\ served' = Empty /\ pushed' = Empty /\ told' = Empty
        BY <1>3 DEF Stop, Crash, Exit, ProcessEnds, SocketEnds
    <2>2. Service!GoDown
        BY <2>1 DEF Service!GoDown, Service!Empty, Empty
    <2>3. served' \in [Conns -> Texts]
        BY <2>1, EmptySeq DEF Empty, Texts
    <2> QED BY <2>1, <2>2, <2>3 DEF InOrder, ServiceStep, Service!Next
<1>4. CASE \/ StopReader /\ UNCHANGED <<reader, listenerVars, clientVars, peerVars>>
           \/ StopListener
    <2>1. main \notin {"run", "off"} /\ main' \notin {"run", "off"}
          /\ UNCHANGED <<sent, served, pushed, told>>
        BY <1>4 DEF StopReader, StopListener, BeginWalk, CloseClient, NextClient, CloseSocket,
                    UnlinkSocket, Unflag
    <2> QED BY <2>1, StopIsSilent
<1>5. CASE ReaderAlone /\ UNCHANGED <<listenerVars, clientVars, peerVars>>
    BY <1>5, InOrderKept DEF ReaderAlone
<1>6. CASE ReaderReadsConnection
    <2>1. main \notin {"run", "off"}
        <3>1. reader = "loop" /\ FileAt(rfd) \in Conns
            BY <1>6 DEF ReaderReadsConnection
        <3>2. rfd # NoFd /\ FileAt(rfd) # "device"
            BY <3>1, NoFile, Names
        <3> QED BY <1>0, <3>1, <3>2 DEF IInv, OwnDescriptors, ReaderHolds, CleanStart
    <2> QED BY <1>6, <2>1, StopIsSilent DEF ReaderReadsConnection
<1>7. CASE Listener /\ UNCHANGED readerVars
    <2>1. UNCHANGED <<main, sent, served, pushed, told, inbox, text, peer>>
        BY <1>7 DEF Listener
    <2>2. CASE ListenerAccepts
        <3>1. Head(backlog) \in Conns /\ client[Head(backlog)] = "none"
            <4>1. Head(backlog) = backlog[1] /\ 1 \in 1..Len(backlog)
                BY <1>0, <2>2, EmptySeq, LenProperties DEF TypeOK, ListenerAccepts
            <4> QED BY <1>0, <2>2, <4>1, ElementOfSeq DEF TypeOK, Accepted
        <3>2. client' = [client EXCEPT ![Head(backlog)] = "new"]
            BY <2>2 DEF ListenerAccepts
        <3> QED BY <1>0, <2>1, <3>1, <3>2, InOrderKept DEF TypeOK
    <2>3. CASE ListenerStartsClient
        <3> DEFINE c == handlers[Len(handlers)]
        <3>1. c \in Conns /\ client' = [client EXCEPT ![c] = "loop"]
            <4>1. Len(handlers) \in 1..Len(handlers)
                BY <1>0, <2>3, EmptySeq, LenProperties DEF TypeOK, Registered, ListenerStartsClient
            <4> QED BY <1>0, <2>3, <4>1, ElementOfSeq DEF TypeOK, ListenerStartsClient
        <3>2. client[c] = "new"
            BY <2>3 DEF ListenerStartsClient, LastIsNew
        <3> HIDE DEF c
        <3> QED BY <1>0, <2>1, <3>1, <3>2, InOrderKept DEF TypeOK
    <2>4. CASE UNCHANGED client
        BY <2>1, <2>4, InOrderKept
    <2> QED BY <1>7, <2>2, <2>3, <2>4 DEF Listener, ListenerOpens, ListenerBinds,
                                          ListenerListens, ListenerLoops,
                                          ListenerCloses, ListenerUnlinks
<1>8. CASE Peers /\ UNCHANGED readerVars
    <2>1. ASSUME NEW c \in Conns, Connect(c) \/ HangUp(c), UNCHANGED <<main, clientVars>>
          PROVE  InOrder' /\ ServiceStep
        BY <1>0, <2>1, InOrderKept DEF TypeOK, Connect, HangUp
    <2> QED BY <1>0, <1>8, <2>1, ServiceSends DEF Peers
<1> QED BY <1>1, <1>2, <1>3, <1>4, <1>5, <1>6, <1>7, <1>8, ServiceClient
        DEF Next, Stopping, Reader

\* The program keeps the promise of CommandService, for any number of peers, scripts
\* and descriptors, whatever hangs up, crashes or stops: each step is a step of the
\* service or none (IPCClient.cpp:49-71, IPCRequestHandler.cpp:36-154).
THEOREM ServiceImplemented == Spec => ImplementsService
<1>1. Init => Accepted /\ LastIsNew /\ OwedInv /\ InOrder /\ Service!Init
    <2>1. Empty \in [Conns -> Texts]
        BY EmptySeq DEF Empty, Texts
    <2> QED BY <2>1, Names, EmptySeq
            DEF Init, SocketInit, NoFiles, Idle, Empty, Accepted, LastIsNew, OwedInv, InOrder,
                Service!Init, Service!Empty
<1>2. IInv /\ IInv' /\ Accepted /\ LastIsNew /\ OwedInv /\ InOrder /\ [Next]_vars
         => Accepted' /\ LastIsNew' /\ OwedInv' /\ InOrder' /\ [Service!Next]_(Service!vars)
    BY AcceptedStep, LastIsNewStep, OwedStep, ServiceSteps DEF IInv, ServiceStep
<1> QED BY <1>1, <1>2, InductiveInvariant, PTL DEF Spec, ImplementsService, Service!Spec
=============================================================================
