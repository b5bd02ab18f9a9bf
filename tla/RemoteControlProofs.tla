------------------------- MODULE RemoteControlProofs -------------------------
(***************************************************************************)
(* For any number of peers, any scripts and any number of descriptors: the *)
(* types of RemoteControl; that until a stop begins nobody uses the        *)
(* descriptor of somebody else; that a connection has one number at most;  *)
(* and that a stop closes every connection it walks over.                  *)
(***************************************************************************)
EXTENDS RemoteControl, TLAPS, WellFoundedInduction, SequenceTheorems

\* The iterators of main's walk stay inside the client vector
\* (UnixListener.cpp:122-125).
WalkInBounds ==
    main \in {"closeClient", "nextClient"} =>
        walk.at \in 1..walk.end /\ walk.end <= Len(handlers)

\* Between two lives of the process nothing is left of it, and a thread that has
\* opened nothing has no number (EvdevReader.cpp:40, UnixListener.cpp:33).
CleanStart ==
    /\ main = "off" => /\ reader = "off" /\ listener = "off"
                       /\ rfd = NoFd /\ lfd = NoFd
                       /\ \A c \in Conns : client[c] = "none"
    /\ main = "run" => /\ reader \in {"setup", "off"} => rfd = NoFd
                       /\ listener \in {"setup", "off"} => lfd = NoFd

\* Whoever is in the vector was accepted, and the one to be started is in it
\* (UnixListener.cpp:74-76).
Registered ==
    /\ \A i \in 1..Len(handlers) : client[handlers[i]] # "none"
    /\ listener = "start" => handlers # <<>>

IInv == TypeOK /\ WalkInBounds /\ CleanStart /\ Registered /\ OwnDescriptors

-----------------------------------------------------------------------------
(* The table of descriptors *)

\* A lowest free number exists if there is a free one at all.
LEMMA LowestIsFree ==
    ASSUME FreeNumbers # {}
    PROVE  LowestFree \in FreeNumbers
<1>1. Numbers \subseteq Nat
    BY ProcessAssumption DEF Numbers
<1>2. FreeNumbers \subseteq Nat
    BY <1>1 DEF FreeNumbers
<1>3. PICK n \in FreeNumbers : \A m \in FreeNumbers : ~ (<<m, n>> \in OpToRel(<, Nat))
    <2> HIDE DEF FreeNumbers
    <2> QED BY <1>2, NatLessThanWellFounded, WFMin
<1>4. \A m \in FreeNumbers : ~ (m < n)
    <2> HIDE DEF FreeNumbers
    <2> QED BY <1>2, <1>3, Zenon DEF OpToRel
<1>5. \A m \in FreeNumbers : n <= m
    BY <1>2, <1>4
<1> HIDE DEF FreeNumbers
<1> QED BY <1>5 DEF LowestFree

\* What a number names is in the table, and no connection has a name of the others.
LEMMA Names ==
    /\ Conns \cap Special = {}
    /\ NoFd \notin Numbers
    /\ \A c \in Conns : c \in Files /\ c \notin {"free", "device", "socket", "accepting"}
    /\ {"free", "device", "socket", "accepting"} \subseteq Files
    /\ Conns \subseteq Threads
BY ProcessAssumption DEF Special, NoFd, Numbers, Files, Threads

\* close() takes at most a file out of the table, the one at its number, and leaves
\* alone a number that accept() holds.
LEMMA Closing ==
    ASSUME fds \in [Numbers -> Files], NEW k, Close(k)
    PROVE  /\ fds' \in [Numbers -> Files]
           /\ \A n \in Numbers : n # k => fds'[n] = fds[n]
           /\ \A n \in Numbers : fds'[n] # fds[n] =>
                 fds'[n] = "free" /\ n = k /\ fds[n] # "accepting"
BY Names DEF Close, FileAt

\* A file that is opened gets a number that was free.
LEMMA Opening ==
    ASSUME fds \in [Numbers -> Files], NEW f \in Files, FreeNumbers # {}, Open(f)
    PROVE  /\ fds' \in [Numbers -> Files]
           /\ LowestFree \in Numbers /\ fds[LowestFree] = "free"
           /\ fds'[LowestFree] = f
           /\ \A n \in Numbers : n # LowestFree => fds'[n] = fds[n]
<1>1. LowestFree \in FreeNumbers
    BY LowestIsFree
<1> QED BY <1>1 DEF Open, FreeNumbers

\* Neither concerns the number that accept() holds.
LEMMA AcceptUndisturbed ==
    ASSUME fds \in [Numbers -> Files], AcceptHoldsNumber,
           listener' = "blocked" <=> listener = "blocked",
           \/ \E k : Close(k)
           \/ FreeNumbers # {} /\ \E f \in Files \ {"accepting"} : Open(f)
           \/ UNCHANGED fds
    PROVE  fds' \in [Numbers -> Files] /\ AcceptHoldsNumber'
<1>1. fds' \in [Numbers -> Files]
    BY Closing, Opening
<1>2. \A n \in Numbers : fds'[n] = "accepting" <=> fds[n] = "accepting"
    <2>1. CASE \E k : Close(k)
        BY <2>1, Closing
    <2>2. CASE FreeNumbers # {} /\ \E f \in Files \ {"accepting"} : Open(f)
        <3>1. PICK f \in Files \ {"accepting"} : Open(f)
            BY <2>2
        <3>2. fds'[LowestFree] = f /\ fds[LowestFree] = "free"
            BY <2>2, <3>1, Opening
        <3>3. \A n \in Numbers : n # LowestFree => fds'[n] = fds[n]
            BY <2>2, <3>1, Opening
        <3> QED BY <3>2, <3>3
    <2> QED BY <2>1, <2>2
<1> QED BY <1>1, <1>2 DEF AcceptHoldsNumber

-----------------------------------------------------------------------------
(* Types *)

\* A step of the reader's thread keeps the types (EvdevReader.cpp:52-89).
LEMMA ReaderTypes ==
    ASSUME TypeOK, Reader
    PROVE  TypeOK'
<1> USE DEF TypeOK, ReaderStates, readerVars, listenerVars, clientVars, peerVars
<1>1. CASE ReaderReadsConnection
    BY <1>1 DEF ReaderReadsConnection, AcceptHoldsNumber
<1>2. CASE ReaderAlone /\ UNCHANGED <<listenerVars, clientVars, peerVars>>
    <2> HIDE DEF TypeOK
    <2>1. reader' \in ReaderStates
        BY <1>2 DEF TypeOK, ReaderAlone, ReaderSetsUp, ReaderFailsSetup, ReaderLoops, ReaderCloses,
                    ReaderTearsDown, ReaderForgets
    <2>2. rfd' \in Numbers \cup {NoFd}
        <3>1. CASE ReaderSetsUp
            <4>1. rfd' = rfd \/ (FreeNumbers # {} /\ rfd' = LowestFree)
                BY <3>1 DEF ReaderSetsUp
            <4> QED BY <4>1, LowestIsFree DEF TypeOK, FreeNumbers
        <3>2. CASE ReaderFailsSetup \/ ReaderLoops \/ ReaderCloses
            BY <3>2 DEF TypeOK, ReaderFailsSetup, ReaderLoops, ReaderCloses, ReaderTearsDown,
                        ReaderForgets
        <3> QED BY <1>2, <3>1, <3>2 DEF ReaderAlone
    <2>3. fds' \in [Numbers -> Files] /\ AcceptHoldsNumber'
        <3>1. \/ \E k : Close(k)
              \/ FreeNumbers # {} /\ \E f \in Files \ {"accepting"} : Open(f)
              \/ UNCHANGED fds
            BY <1>2, Names DEF ReaderAlone, ReaderSetsUp, ReaderFailsSetup, ReaderLoops,
                        ReaderCloses, ReaderTearsDown, ReaderForgets
        <3> QED BY <1>2, <3>1, AcceptUndisturbed DEF TypeOK
    <2> QED BY <1>2, <2>1, <2>2, <2>3 DEF TypeOK, ReaderAlone
<1> QED BY <1>1, <1>2 DEF Reader

\* A step of the listener's thread keeps the types (UnixListener.cpp:49-133).
LEMMA ListenerTypes ==
    ASSUME TypeOK, Listener /\ UNCHANGED readerVars
    PROVE  TypeOK'
<1> USE DEF readerVars, peerVars
<1>1. CASE ListenerOpens /\ UNCHANGED cfd
    <2>1. fds' \in [Numbers -> Files] /\ AcceptHoldsNumber'
        <3>1. (FreeNumbers # {} /\ \E f \in Files \ {"accepting"} : Open(f)) \/ UNCHANGED fds
            BY <1>1, Names DEF ListenerOpens
        <3> QED BY <1>1, <3>1, AcceptUndisturbed DEF TypeOK, ListenerOpens
    <2>2. lfd' \in Numbers \cup {NoFd}
        BY <1>1, LowestIsFree DEF TypeOK, ListenerOpens, FreeNumbers
    <2> QED BY <1>1, <2>1, <2>2 DEF TypeOK, Listener, ListenerOpens, ListenerStates
<1>2. CASE (ListenerBinds \/ ListenerListens) /\ UNCHANGED cfd
    BY <1>2 DEF TypeOK, AcceptHoldsNumber, Listener, ListenerBinds, ListenerListens,
                ListenerStates
<1>3. CASE ListenerLoops /\ UNCHANGED cfd
    <2>1. fds' \in [Numbers -> Files] /\ AcceptHoldsNumber' /\ listener' \in ListenerStates
        <3>1. CASE FreeNumbers # {} /\ Open("accepting") /\ listener' = "blocked"
            BY <1>3, <3>1, Opening, Names DEF TypeOK, AcceptHoldsNumber, ListenerLoops, ListenerStates
        <3>2. CASE UNCHANGED fds /\ listener' \in {"loop", "ended"}
            BY <1>3, <3>2 DEF TypeOK, AcceptHoldsNumber, ListenerLoops, ListenerStates
        <3> QED BY <1>3, <3>1, <3>2 DEF ListenerLoops
    <2> QED BY <1>3, <2>1 DEF TypeOK, Listener, ListenerLoops
<1>4. CASE ListenerStartsClient /\ UNCHANGED cfd
    BY <1>4 DEF TypeOK, AcceptHoldsNumber, Listener, ListenerStartsClient, ListenerStates,
                ClientStates
<1>5. CASE ListenerCloses /\ UNCHANGED cfd
    <2>1. fds' \in [Numbers -> Files] /\ AcceptHoldsNumber'
        BY <1>5, AcceptUndisturbed DEF TypeOK, ListenerCloses
    <2> QED BY <1>5, <2>1 DEF TypeOK, Listener, ListenerCloses, ListenerStates
<1>6. CASE ListenerUnlinks /\ UNCHANGED cfd
    BY <1>6 DEF TypeOK, AcceptHoldsNumber, Listener, ListenerUnlinks, PathUnlinked,
                ListenerStates
<1>7. CASE ListenerAccepts
    <2> DEFINE c == Head(backlog)
               n == CHOOSE m \in Numbers : fds[m] = "accepting"
    <2>1. c \in Conns /\ Tail(backlog) \in Seq(Conns)
        BY <1>7 DEF TypeOK, ListenerAccepts
    <2>2. n \in Numbers /\ fds[n] = "accepting"
        BY <1>7 DEF TypeOK, AcceptHoldsNumber, ListenerAccepts
    <2>3. fds' = [fds EXCEPT ![n] = c] /\ cfd' = [cfd EXCEPT ![c] = n]
          /\ client' = [client EXCEPT ![c] = "new"] /\ handlers' = Append(handlers, c)
          /\ listener' = "start"
        BY <1>7 DEF ListenerAccepts
    <2>4. fds' \in [Numbers -> Files] /\ AcceptHoldsNumber'
        BY <2>1, <2>2, <2>3, Names DEF TypeOK, AcceptHoldsNumber
    <2>5. handlers' \in Seq(Conns)
        BY <2>1, <2>3 DEF TypeOK
    <2>6. client' \in [Conns -> ClientStates] /\ cfd' \in [Conns -> Numbers \cup {NoFd}]
        BY <2>1, <2>2, <2>3 DEF TypeOK, ClientStates
    <2> QED BY <1>7, <2>1, <2>3, <2>4, <2>5, <2>6
            DEF TypeOK, Listener, ListenerAccepts, ListenerStates
<1> QED BY <1>1, <1>2, <1>3, <1>4, <1>5, <1>6, <1>7 DEF Listener

\* A step of a client's thread or of a peer keeps the types (IPCClient.cpp:41-71).
LEMMA ClientTypes ==
    ASSUME TypeOK, NEW c \in Conns, Client(c) /\ UNCHANGED readerVars
    PROVE  TypeOK'
<1> USE DEF TypeOK, AcceptHoldsNumber, readerVars, listenerVars, peerVars
<1>1. CASE ClientLoops(c)
    BY <1>1 DEF Client, ClientLoops, ClientStates
<1>2. CASE ClientReads(c)
    <2>1. client' \in [Conns -> ClientStates]
        BY <1>2 DEF ClientReads, ClientStates
    <2>2. UNCHANGED <<fds, main, flagged, reader, rfd, path, listener, lfd, backlog,
                      handlers, walk, cfd, peer>>
        BY <1>2 DEF Client, ClientReads
    <2>3. source' \in [Conns -> Conns]
        BY <1>2 DEF ClientReads
    <2> QED BY <2>1, <2>2, <2>3
<1>3. CASE ClientWrites(c)
    BY <1>3 DEF Client, ClientWrites, ClientStates
<1> QED BY <1>1, <1>2, <1>3 DEF Client

\* A peer's step keeps every type.
LEMMA PeerTypes ==
    ASSUME TypeOK, Peers /\ UNCHANGED readerVars
    PROVE  TypeOK'
<1> USE DEF TypeOK, AcceptHoldsNumber, readerVars, listenerVars, clientVars, Peers
<1>1. ASSUME NEW c \in Conns, Connect(c) PROVE TypeOK'
    BY <1>1 DEF Connect
<1>2. ASSUME NEW c \in Conns, Send(c) PROVE TypeOK'
    BY <1>2 DEF Send
<1>3. ASSUME NEW c \in Conns, HangUp(c) PROVE TypeOK'
    BY <1>3 DEF HangUp
<1> QED BY <1>1, <1>2, <1>3

\* A step of the main thread, or the end of the process, keeps the types, given that
\* the walk is inside the vector (shipcontrol.cpp:157-219, UnixListener.cpp:118-133).
LEMMA MainTypes ==
    ASSUME TypeOK, WalkInBounds, CleanStart, Start \/ Stop \/ Crash \/ Stopping
    PROVE  TypeOK'
<1> USE DEF readerVars, listenerVars, clientVars, peerVars
<1>1. CASE Start
    BY <1>1 DEF TypeOK, AcceptHoldsNumber, CleanStart, Start, MainStates, ReaderStates, ListenerStates
<1>2. CASE Stop
    BY <1>2 DEF TypeOK, AcceptHoldsNumber, Stop, MainStates
<1>3. CASE Crash \/ Exit
    <2>1. ProcessEnds
        BY <1>3 DEF Crash, Exit
    <2> QED BY <2>1, Names DEF TypeOK, AcceptHoldsNumber, ProcessEnds, SocketEnds, NoFiles,
               MainStates, ReaderStates, ListenerStates, ClientStates, NoWalk, Idle, Unset, Own,
               Away
<1>4. CASE StopReader /\ UNCHANGED <<reader, listenerVars, clientVars, peerVars>>
    <2>1. fds' \in [Numbers -> Files] /\ AcceptHoldsNumber'
        BY <1>4, AcceptUndisturbed DEF TypeOK, StopReader
    <2>2. main' \in MainStates /\ flagged' \in Threads \cup {"nobody"}
          /\ rfd' \in Numbers \cup {NoFd}
        BY <1>4 DEF TypeOK, StopReader, MainStates, Threads
    <2> QED BY <1>4, <2>1, <2>2 DEF TypeOK
<1>5. CASE StopListener /\ UNCHANGED readerVars
    <2>1. fds' \in [Numbers -> Files] /\ AcceptHoldsNumber'
        BY <1>5, AcceptUndisturbed
           DEF TypeOK, StopListener, BeginWalk, CloseClient, NextClient, CloseSocket,
               UnlinkSocket, Unflag
    <2>2. walk' \in [at : Nat, end : Nat]
        BY <1>5 DEF TypeOK, StopListener, BeginWalk, CloseClient, NextClient, CloseSocket,
                    UnlinkSocket, Unflag
    <2>3. flagged' \in Threads \cup {"nobody"}
        <3>1. CASE CloseClient
            <4>1. walk.at \in 1..Len(handlers)
                BY <3>1 DEF TypeOK, WalkInBounds, CloseClient
            <4>2. handlers[walk.at] \in Conns
                BY <4>1 DEF TypeOK
            <4> QED BY <3>1, <4>2, Names DEF CloseClient
        <3>2. CASE BeginWalk \/ NextClient \/ CloseSocket \/ UnlinkSocket \/ Unflag
            BY <3>2 DEF TypeOK, Threads, BeginWalk, NextClient, CloseSocket, UnlinkSocket, Unflag
        <3> QED BY <1>5, <3>1, <3>2 DEF StopListener
    <2>4. main' \in MainStates /\ lfd' \in Numbers \cup {NoFd}
          /\ path' \in {"none", "bound", "stale"}
        BY <1>5 DEF TypeOK, MainStates, StopListener, BeginWalk, CloseClient, NextClient,
                    CloseSocket, UnlinkSocket, PathUnlinked, Unflag
    <2> QED BY <1>5, <2>1, <2>2, <2>3, <2>4 DEF TypeOK, StopListener
<1> QED BY <1>1, <1>2, <1>3, <1>4, <1>5 DEF Stopping

\* Every step keeps the types.
LEMMA TypeStep ==
    ASSUME TypeOK, WalkInBounds, CleanStart, [Next]_vars
    PROVE  TypeOK'
<1>1. CASE UNCHANGED vars
    BY <1>1 DEF TypeOK, AcceptHoldsNumber, vars, readerVars, listenerVars, clientVars, peerVars
<1> QED BY <1>1, MainTypes, ReaderTypes, ListenerTypes, ClientTypes, PeerTypes DEF Next

\* The walk keeps inside the vector, which only grows (UnixListener.cpp:75, 122).
LEMMA WalkStep ==
    ASSUME TypeOK, WalkInBounds, [Next]_vars
    PROVE  WalkInBounds'
<1> USE DEF readerVars, listenerVars, clientVars, peerVars
<1>1. CASE UNCHANGED <<main, walk, handlers>>
    BY <1>1 DEF WalkInBounds
<1>2. CASE Start \/ Stop \/ Crash \/ Exit \/ StopReader
    <2>1. main' \notin {"closeClient", "nextClient"}
        BY <1>2 DEF Start, Stop, Crash, Exit, StopReader, ProcessEnds
    <2> QED BY <2>1 DEF WalkInBounds
<1>3. CASE StopListener
    <2>1. CASE BeginWalk
        BY <1>3, <2>1 DEF TypeOK, WalkInBounds, StopListener, BeginWalk
    <2>2. CASE CloseClient
        BY <1>3, <2>2 DEF WalkInBounds, StopListener, CloseClient
    <2>3. CASE NextClient
        BY <1>3, <2>3 DEF TypeOK, WalkInBounds, StopListener, NextClient
    <2>4. CASE CloseSocket \/ UnlinkSocket \/ Unflag
        BY <2>4 DEF WalkInBounds, CloseSocket, UnlinkSocket, Unflag
    <2> QED BY <1>3, <2>1, <2>2, <2>3, <2>4 DEF StopListener
<1>4. CASE Listener
    <2>1. CASE ListenerAccepts
        <3>1. Len(handlers') = Len(handlers) + 1
            BY <2>1 DEF TypeOK, ListenerAccepts
        <3> QED BY <1>4, <2>1, <3>1 DEF TypeOK, WalkInBounds, Listener, ListenerAccepts
    <2>2. CASE ~ListenerAccepts
        BY <1>1, <1>4, <2>2 DEF Listener, ListenerOpens, ListenerBinds,
                                ListenerListens, ListenerLoops,
                                ListenerStartsClient, ListenerCloses, ListenerUnlinks
    <2> QED BY <2>1, <2>2
<1>5. CASE Reader
    BY <1>1, <1>5 DEF Reader, ReaderAlone, ReaderReadsConnection
<1>6. CASE \E c \in Conns : Client(c)
    BY <1>1, <1>6 DEF Client
<1>7. CASE Peers
    BY <1>1, <1>7 DEF Peers, Connect, Send, HangUp
<1>8. CASE UNCHANGED vars
    BY <1>1, <1>8 DEF vars
<1> QED BY <1>2, <1>3, <1>4, <1>5, <1>6, <1>7, <1>8 DEF Next, Stopping

-----------------------------------------------------------------------------
(* Descriptors *)

\* A step that leaves main where it is keeps what has not started clean.
LEMMA CleanStep ==
    ASSUME TypeOK, CleanStart, [Next]_vars
    PROVE  CleanStart'
<1> USE DEF readerVars, listenerVars, clientVars, peerVars
<1>1. CASE UNCHANGED vars
    BY <1>1 DEF CleanStart, vars
<1>2. CASE Start
    BY <1>2 DEF CleanStart, Start
<1>3. CASE Crash \/ Exit
    BY <1>3 DEF CleanStart, Crash, Exit, ProcessEnds, SocketEnds, Idle
<1>4. CASE Stop \/ StopReader \/ StopListener
    <2>1. main' \notin {"off", "run"}
        BY <1>4 DEF Stop, StopReader, StopListener, BeginWalk, CloseClient, NextClient,
                    CloseSocket, UnlinkSocket, Unflag
    <2> QED BY <2>1 DEF CleanStart
<1>5. CASE Reader
    BY <1>5 DEF CleanStart, Reader, ReaderAlone, ReaderReadsConnection, ReaderSetsUp,
                ReaderFailsSetup, ReaderLoops, ReaderCloses, ReaderTearsDown, ReaderForgets
<1>6. CASE Listener /\ UNCHANGED readerVars
    BY <1>6 DEF CleanStart, Listener, ListenerOpens, ListenerBinds,
                ListenerListens, ListenerLoops,
                ListenerAccepts, ListenerStartsClient, ListenerCloses, ListenerUnlinks
<1>7. ASSUME NEW c \in Conns, Client(c) /\ UNCHANGED readerVars PROVE CleanStart'
    BY <1>7 DEF TypeOK, CleanStart, Client, ClientLoops, ClientReads, ClientWrites
<1>8. CASE Peers /\ UNCHANGED readerVars
    BY <1>8 DEF CleanStart, Peers, Connect, Send, HangUp
<1> QED BY <1>1, <1>2, <1>3, <1>4, <1>5, <1>6, <1>7, <1>8 DEF Next, Stopping

\* Closing its own number, if it has one, takes nothing from the others: a file has
\* one name at most for each owner.
LEMMA ClosingOwn ==
    ASSUME fds \in [Numbers -> Files], NEW k \in Numbers \cup {NoFd}, Close(k),
           NEW n \in Numbers, fds[n] # "free", k # NoFd => fds[k] # fds[n]
    PROVE  fds'[n] = fds[n]
BY Closing, Names

\* Whatever is opened, the numbers in use stay as they are.
LEMMA OpeningOther ==
    ASSUME fds \in [Numbers -> Files], NEW f \in Files, FreeNumbers # {}, Open(f),
           NEW n \in Numbers, fds[n] # "free"
    PROVE  fds'[n] = fds[n]
BY Opening

\* What the owners hold, with FileAt expanded.
LEMMA Holdings ==
    ASSUME TypeOK
    PROVE  OwnDescriptors <=>
              (main = "run" =>
                  /\ ReaderHolds => rfd \in Numbers /\ fds[rfd] = "device"
                  /\ ListenerHolds => lfd \in Numbers /\ fds[lfd] = "socket"
                  /\ \A c \in Conns : client[c] # "none" =>
                        cfd[c] \in Numbers /\ fds[cfd[c]] = c)
BY Names DEF TypeOK, OwnDescriptors, FileAt, ReaderHolds, ListenerHolds

\* A step of the reader's thread leaves every owner its number, and its own is its
\* own (EvdevReader.cpp:121-152).
LEMMA ReaderOwns ==
    ASSUME TypeOK, CleanStart, OwnDescriptors, TypeOK', Reader
    PROVE  OwnDescriptors'
<1> USE DEF readerVars, listenerVars, clientVars, peerVars
<1>1. SUFFICES ASSUME main = "run", main' = "run" PROVE OwnDescriptors'
    BY DEF OwnDescriptors, Reader, ReaderAlone, ReaderReadsConnection
<1>2. UNCHANGED <<listener, lfd, client, cfd>>
    BY DEF Reader, ReaderReadsConnection
<1>3. /\ ReaderHolds => rfd \in Numbers /\ fds[rfd] = "device"
      /\ ListenerHolds => lfd \in Numbers /\ fds[lfd] = "socket"
      /\ \A c \in Conns : client[c] # "none" => cfd[c] \in Numbers /\ fds[cfd[c]] = c
    BY <1>1, Holdings
<1>4. \A n \in Numbers :
         fds[n] \in Conns \cup {"socket"} => fds'[n] = fds[n]
    <2>1. CASE FreeNumbers # {} /\ Open("device")
        BY <2>1, OpeningOther, Names DEF TypeOK
    <2>2. CASE Close(rfd) /\ ReaderHolds
        BY <1>3, <2>2, ClosingOwn, Names DEF TypeOK
    <2>3. CASE Close(rfd) /\ rfd = NoFd
        BY <2>3, ClosingOwn, Names DEF TypeOK
    <2>4. CASE UNCHANGED fds
        BY <2>4
    <2> QED BY <2>1, <2>2, <2>3, <2>4
            DEF Reader, ReaderAlone, ReaderReadsConnection, ReaderSetsUp, ReaderFailsSetup,
                ReaderLoops, ReaderCloses, ReaderTearsDown, ReaderForgets, ReaderHolds
<1>5. ReaderHolds' => rfd' \in Numbers /\ fds'[rfd'] = "device"
    <2>1. CASE FreeNumbers # {} /\ Open("device") /\ rfd' = LowestFree
        BY <2>1, Opening, Names DEF TypeOK
    <2>2. CASE ReaderSetsUp /\ UNCHANGED <<fds, rfd>>
        BY <1>1, <2>2 DEF CleanStart, ReaderSetsUp, ReaderHolds
    <2>3. CASE ReaderFailsSetup \/ ReaderLoops \/ ReaderCloses \/ ReaderReadsConnection
        BY <1>3, <2>3 DEF ReaderFailsSetup, ReaderLoops, ReaderCloses, ReaderTearsDown,
                    ReaderForgets, ReaderReadsConnection, ReaderHolds
    <2> QED BY <2>1, <2>2, <2>3 DEF Reader, ReaderAlone, ReaderSetsUp
<1>6. ListenerHolds' => lfd' \in Numbers /\ fds'[lfd'] = "socket"
    BY <1>2, <1>3, <1>4 DEF ListenerHolds
<1>7. \A c \in Conns : client'[c] # "none" => cfd'[c] \in Numbers /\ fds'[cfd'[c]] = c
    BY <1>2, <1>3, <1>4
<1> QED BY <1>5, <1>6, <1>7, Names DEF OwnDescriptors, FileAt

\* A client that was accepted stays one, and one that is accepted enters the vector.
LEMMA RegisteredStep ==
    ASSUME TypeOK, Registered, [Next]_vars
    PROVE  Registered'
<1> USE DEF readerVars, listenerVars, clientVars, peerVars
<1>1. CASE UNCHANGED <<handlers, client>> /\ (listener' = "start" => listener = "start")
    BY <1>1 DEF Registered
<1>2. CASE Crash \/ Exit
    BY <1>2 DEF Registered, Crash, Exit, ProcessEnds, SocketEnds
<1>3. CASE Listener
    <2>1. CASE ListenerAccepts
        <3>1. Head(backlog) \in Conns
            BY <2>1 DEF TypeOK, ListenerAccepts
        <3>2. handlers' = Append(handlers, Head(backlog))
              /\ client' = [client EXCEPT ![Head(backlog)] = "new"]
            BY <2>1 DEF ListenerAccepts
        <3>3. \A i \in 1..Len(handlers') : client'[handlers'[i]] # "none"
            BY <3>1, <3>2 DEF TypeOK, Registered
        <3>4. handlers' # <<>>
            BY <3>1, <3>2 DEF TypeOK
        <3> QED BY <3>3, <3>4 DEF Registered
    <2>2. CASE ListenerStartsClient
        BY <2>2 DEF TypeOK, Registered, ListenerStartsClient
    <2>3. CASE ~ListenerAccepts /\ ~ListenerStartsClient
        BY <1>1, <1>3, <2>3 DEF Listener, ListenerOpens, ListenerBinds,
                                ListenerListens, ListenerLoops,
                                ListenerCloses, ListenerUnlinks
    <2> QED BY <2>1, <2>2, <2>3
<1>4. ASSUME NEW c \in Conns, Client(c) PROVE Registered'
    BY <1>4 DEF TypeOK, Registered, Client, ClientLoops, ClientReads, ClientWrites
<1>5. CASE Start \/ Stop \/ Reader \/ Peers \/ UNCHANGED vars
    BY <1>1, <1>5 DEF Start, Stop, Reader, ReaderReadsConnection, Peers, Connect, Send, HangUp,
                      vars
<1>6. CASE StopReader /\ UNCHANGED <<reader, listenerVars, clientVars, peerVars>>
    BY <1>1, <1>6
<1>7. CASE StopListener
    BY <1>1, <1>7 DEF StopListener
<1> QED BY <1>2, <1>3, <1>4, <1>5, <1>6, <1>7 DEF Next, Stopping

\* A step of the listener's thread leaves every owner its number, and gives a new
\* connection the number that accept() held (UnixListener.cpp:66-76, 86-133).
LEMMA ListenerOwns ==
    ASSUME TypeOK, CleanStart, Registered, OwnDescriptors, TypeOK',
           Listener /\ UNCHANGED readerVars
    PROVE  OwnDescriptors'
<1> USE DEF readerVars, peerVars
<1>1. SUFFICES ASSUME main = "run", main' = "run" PROVE OwnDescriptors'
    BY DEF OwnDescriptors, Listener
<1>2. /\ ReaderHolds => rfd \in Numbers /\ fds[rfd] = "device"
      /\ ListenerHolds => lfd \in Numbers /\ fds[lfd] = "socket"
      /\ \A c \in Conns : client[c] # "none" => cfd[c] \in Numbers /\ fds[cfd[c]] = c
    BY <1>1, Holdings
<1>3. CASE ListenerAccepts
    <2> DEFINE c == Head(backlog)
               n == CHOOSE m \in Numbers : fds[m] = "accepting"
    <2>1. c \in Conns
        BY <1>3 DEF TypeOK, ListenerAccepts
    <2>2. n \in Numbers /\ fds[n] = "accepting"
        BY <1>3 DEF TypeOK, AcceptHoldsNumber, ListenerAccepts
    <2>3. fds' = [fds EXCEPT ![n] = c] /\ cfd' = [cfd EXCEPT ![c] = n]
          /\ client' = [client EXCEPT ![c] = "new"] /\ listener' = "start" /\ lfd' = lfd
          /\ listener = "blocked"
        BY <1>3 DEF ListenerAccepts
    <2> HIDE DEF n, c
    <2>4. \A m \in Numbers : fds[m] # "accepting" => fds'[m] = fds[m]
        BY <2>2, <2>3 DEF TypeOK
    <2>5. ReaderHolds' => rfd' \in Numbers /\ fds'[rfd'] = "device"
        BY <1>2, <2>4 DEF ReaderHolds
    <2>6. ListenerHolds' => lfd' \in Numbers /\ fds'[lfd'] = "socket"
        BY <1>2, <2>3, <2>4 DEF ListenerHolds
    <2>7. \A k \in Conns : client'[k] # "none" => cfd'[k] \in Numbers /\ fds'[cfd'[k]] = k
        <3> TAKE k \in Conns
        <3>1. CASE k = c
            BY <2>1, <2>2, <2>3, <3>1 DEF TypeOK
        <3>2. CASE k # c
            BY <1>2, <2>1, <2>3, <2>4, <3>2, Names DEF TypeOK
        <3> QED BY <3>1, <3>2
    <2> QED BY <2>5, <2>6, <2>7, Names DEF OwnDescriptors, FileAt
<1>4. CASE ~ListenerAccepts
    <2>1. UNCHANGED cfd
        BY <1>4 DEF Listener
    <2>2. \A n \in Numbers :
             fds[n] \in Conns \cup {"device"} => fds'[n] = fds[n]
        <3>1. CASE FreeNumbers # {} /\ \E f \in Files : Open(f)
            BY <3>1, OpeningOther, Names DEF TypeOK
        <3>2. CASE Close(lfd) /\ ListenerHolds
            BY <1>2, <3>2, ClosingOwn, Names DEF TypeOK
        <3>3. CASE Close(lfd) /\ lfd = NoFd
            BY <3>3, ClosingOwn, Names DEF TypeOK
        <3>4. CASE UNCHANGED fds
            BY <3>4
        <3> QED BY <1>4, <3>1, <3>2, <3>3, <3>4, Names
                DEF Listener, ListenerOpens, ListenerBinds,
                    ListenerListens, ListenerLoops, ListenerStartsClient,
                    ListenerCloses, ListenerUnlinks, ListenerHolds
    <2>3. ReaderHolds' => rfd' \in Numbers /\ fds'[rfd'] = "device"
        BY <1>2, <2>2 DEF ReaderHolds
    <2>4. \A k \in Conns : client'[k] # "none" => client[k] # "none"
        <3>1. CASE ListenerStartsClient
            <4>1. handlers # <<>> /\ client[handlers[Len(handlers)]] # "none"
                BY <3>1 DEF TypeOK, Registered, ListenerStartsClient
            <4> QED BY <3>1, <4>1 DEF TypeOK, ListenerStartsClient
        <3>2. CASE UNCHANGED client
            BY <3>2
        <3> QED BY <1>4, <3>1, <3>2 DEF Listener, ListenerOpens, ListenerBinds,
                                        ListenerListens, ListenerLoops,
                                        ListenerCloses, ListenerUnlinks
    <2>5. \A k \in Conns : client'[k] # "none" => cfd'[k] \in Numbers /\ fds'[cfd'[k]] = k
        BY <1>2, <2>1, <2>2, <2>4
    <2>6. ListenerHolds' => lfd' \in Numbers /\ fds'[lfd'] = "socket"
        <3>1. CASE ListenerOpens
            <4>1. CASE FreeNumbers # {} /\ Open("socket") /\ lfd' = LowestFree
                BY <4>1, Opening, Names DEF TypeOK
            <4>2. CASE UNCHANGED lfd
                BY <1>1, <3>1, <4>2 DEF CleanStart, ListenerOpens, ListenerHolds
            <4> QED BY <3>1, <4>1, <4>2 DEF ListenerOpens
        <3>2. CASE ListenerLoops
            <4>1. CASE FreeNumbers # {} /\ Open("accepting")
                BY <1>2, <3>2, <4>1, OpeningOther, Names DEF TypeOK, ListenerLoops, ListenerHolds
            <4>2. CASE UNCHANGED fds
                BY <1>2, <3>2, <4>2 DEF ListenerLoops, ListenerHolds
            <4> QED BY <3>2, <4>1, <4>2 DEF ListenerLoops
        <3>3. CASE \/ ListenerBinds \/ ListenerListens \/ ListenerStartsClient
                   \/ ListenerCloses \/ ListenerUnlinks
            BY <1>2, <3>3 DEF ListenerBinds, ListenerListens, ListenerStartsClient, ListenerCloses,
                              ListenerUnlinks, ListenerHolds
        <3> QED BY <1>4, <3>1, <3>2, <3>3 DEF Listener
    <2> QED BY <2>3, <2>5, <2>6, Names DEF OwnDescriptors, FileAt
<1> QED BY <1>3, <1>4

\* Every step leaves every owner its number.
LEMMA OwnStep ==
    ASSUME IInv, TypeOK', [Next]_vars
    PROVE  OwnDescriptors'
<1> USE DEF readerVars, listenerVars, clientVars, peerVars
<1>1. CASE UNCHANGED vars
    BY <1>1 DEF IInv, OwnDescriptors, FileAt, ReaderHolds, ListenerHolds, vars
<1>2. CASE Start
    BY <1>2 DEF IInv, CleanStart, OwnDescriptors, ReaderHolds, ListenerHolds, Start
<1>3. CASE Stop \/ Crash \/ Stopping
    <2>1. main' # "run"
        BY <1>3 DEF Stop, Crash, Stopping, Exit, ProcessEnds, StopReader, StopListener, BeginWalk,
                    CloseClient, NextClient, CloseSocket, UnlinkSocket, Unflag
    <2> QED BY <2>1 DEF OwnDescriptors
<1>4. ASSUME NEW k \in Conns, Client(k) /\ UNCHANGED readerVars PROVE OwnDescriptors'
    <2>1. \A c \in Conns : client'[c] # "none" => client[c] # "none"
        BY <1>4 DEF IInv, TypeOK, Client, ClientLoops, ClientReads, ClientWrites
    <2>2. UNCHANGED <<fds, main, reader, rfd, listener, lfd, cfd>>
        BY <1>4 DEF Client, ClientLoops, ClientReads, ClientWrites
    <2> QED BY <2>1, <2>2 DEF IInv, OwnDescriptors, FileAt, ReaderHolds, ListenerHolds
<1>5. CASE Peers /\ UNCHANGED readerVars
    BY <1>5 DEF IInv, OwnDescriptors, FileAt, ReaderHolds, ListenerHolds, Peers, Connect, Send,
                HangUp
<1> QED BY <1>1, <1>2, <1>3, <1>4, <1>5, ReaderOwns, ListenerOwns DEF IInv, Next

-----------------------------------------------------------------------------
(* The theorems *)

\* The inductive invariant of the threads that share the descriptor table.
THEOREM InductiveInvariant == Spec => []IInv
<1>1. Init => IInv
    BY Names DEF Init, SocketInit, IInv, TypeOK, AcceptHoldsNumber, WalkInBounds, CleanStart,
          Registered, OwnDescriptors, NoFiles, MainStates, ReaderStates, ListenerStates,
          ClientStates, NoWalk, Idle, Unset, Own, Away
<1>2. IInv /\ [Next]_vars => IInv'
    BY TypeStep, WalkStep, CleanStep, RegisteredStep, OwnStep DEF IInv
<1> QED BY <1>1, <1>2, PTL DEF Spec

\* Types, and the one number that accept() holds (UnixListener.cpp:66).
THEOREM TypeCorrect == Spec => []TypeOK
<1>1. IInv => TypeOK
    BY DEF IInv
<1> QED BY <1>1, InductiveInvariant, PTL

\* Until a stop begins, the reader, the listener and every client work on what they
\* have opened or accepted themselves, for any number of peers, scripts, descriptors,
\* crashes and restarts (EvdevReader.cpp:144-152, UnixListener.cpp:66-76).
THEOREM DescriptorsAreOwn == Spec => []OwnDescriptors
<1>1. IInv => OwnDescriptors
    BY DEF IInv
<1> QED BY <1>1, InductiveInvariant, PTL

-----------------------------------------------------------------------------
(* Connections *)

\* A connection has one number at most, the one its client keeps, and waits in the
\* backlog once, before it has a client (UnixListener.cpp:66-76).
Accepted ==
    /\ \A n \in Numbers, c \in Conns : fds[n] = c => cfd[c] = n /\ client[c] # "none"
    /\ \A i \in 1..Len(backlog) : client[backlog[i]] = "none" /\ peer[backlog[i]] # "away"
    /\ \A i, j \in 1..Len(backlog) : backlog[i] = backlog[j] => i = j
    /\ \A c \in Conns : client[c] # "none" => peer[c] # "away"

\* A step that adds no connection to the table and starts no client keeps Accepted.
LEMMA AcceptedKept ==
    ASSUME TypeOK, Accepted, UNCHANGED <<cfd, backlog>>,
           \A n \in Numbers, c \in Conns : fds'[n] = c => fds[n] = c,
           \A c \in Conns : client'[c] = "none" <=> client[c] = "none",
           \A c \in Conns : peer[c] # "away" => peer'[c] # "away"
    PROVE  Accepted'
<1>1. \A i \in 1..Len(backlog) : backlog[i] \in Conns
    BY ElementOfSeq DEF TypeOK
<1> QED BY <1>1 DEF Accepted

\* Opening a device, a socket or a number for accept(), and closing, add no connection.
LEMMA NoNewConnection ==
    ASSUME fds \in [Numbers -> Files],
           \/ \E k : Close(k)
           \/ FreeNumbers # {} /\ \E f \in Special : Open(f)
           \/ UNCHANGED fds
    PROVE  \A n \in Numbers, c \in Conns : fds'[n] = c => fds[n] = c
<1>1. CASE \E k : Close(k)
    BY <1>1, Closing, Names
<1>2. CASE FreeNumbers # {} /\ \E f \in Special : Open(f)
    <2>1. PICK f \in Special : Open(f)
        BY <1>2
    <2>2. f \in Files /\ f \notin Conns
        BY <2>1, Names DEF Files
    <2> QED BY <1>2, <2>1, <2>2, Opening
<1> QED BY <1>1, <1>2

\* No thread makes a connection out of one that was not accepted.
LEMMA AcceptedStep ==
    ASSUME IInv, TypeOK', Accepted, [Next]_vars
    PROVE  Accepted'
<1> USE DEF readerVars, listenerVars, clientVars, peerVars
<1>0. TypeOK /\ Registered
    BY DEF IInv
<1>1. CASE UNCHANGED vars
    BY <1>0, <1>1, AcceptedKept DEF vars
<1>2. CASE Start \/ Stop
    BY <1>0, <1>2, AcceptedKept DEF Start, Stop
<1>3. CASE Crash \/ Exit
    BY <1>3, Names DEF Crash, Exit, ProcessEnds, SocketEnds, NoFiles, Accepted, Idle
<1>4. CASE StopReader /\ UNCHANGED <<reader, listenerVars, clientVars, peerVars>>
    <2>1. (\E k : Close(k)) \/ UNCHANGED fds
        BY <1>4 DEF StopReader
    <2> QED BY <1>0, <1>4, <2>1, NoNewConnection, AcceptedKept DEF TypeOK
<1>5. CASE StopListener /\ UNCHANGED readerVars
    <2>1. (\E k : Close(k)) \/ UNCHANGED fds
        BY <1>5 DEF StopListener, BeginWalk, CloseClient, NextClient, CloseSocket, UnlinkSocket,
                    Unflag
    <2> QED BY <1>0, <1>5, <2>1, NoNewConnection, AcceptedKept DEF TypeOK, StopListener
<1>6. CASE Reader
    <2>1. \/ \E k : Close(k)
          \/ FreeNumbers # {} /\ \E f \in Special : Open(f)
          \/ UNCHANGED fds
        BY <1>6 DEF Reader, ReaderAlone, ReaderReadsConnection, ReaderSetsUp, ReaderFailsSetup,
                    ReaderLoops, ReaderCloses, ReaderTearsDown, ReaderForgets, Special
    <2>2. UNCHANGED <<cfd, backlog, client, peer>>
        BY <1>6 DEF Reader, ReaderReadsConnection
    <2> QED BY <1>0, <2>1, <2>2, NoNewConnection, AcceptedKept DEF TypeOK
<1>7. CASE Listener /\ UNCHANGED readerVars /\ ~ListenerAccepts
    <2>1. \/ \E k : Close(k)
          \/ FreeNumbers # {} /\ \E f \in Special : Open(f)
          \/ UNCHANGED fds
        BY <1>7 DEF Listener, ListenerOpens, ListenerBinds,
                    ListenerListens, ListenerLoops, ListenerStartsClient,
                    ListenerCloses, ListenerUnlinks, Special
    <2>2. UNCHANGED <<cfd, backlog, peer>>
        BY <1>7 DEF Listener, ListenerOpens, ListenerBinds,
                    ListenerListens, ListenerLoops, ListenerStartsClient,
                    ListenerCloses, ListenerUnlinks
    <2>3. \A c \in Conns : client'[c] = "none" <=> client[c] = "none"
        <3>1. CASE ListenerStartsClient
            <4>1. handlers # <<>> /\ client[handlers[Len(handlers)]] # "none"
                BY <1>0, <3>1 DEF TypeOK, Registered, ListenerStartsClient
            <4> QED BY <1>0, <3>1, <4>1 DEF TypeOK, ListenerStartsClient
        <3>2. CASE UNCHANGED client
            BY <3>2
        <3> QED BY <1>7, <3>1, <3>2 DEF Listener, ListenerOpens, ListenerBinds,
                                        ListenerListens, ListenerLoops,
                                        ListenerCloses, ListenerUnlinks
    <2> QED BY <1>0, <2>1, <2>2, <2>3, NoNewConnection, AcceptedKept DEF TypeOK
<1>8. CASE ListenerAccepts /\ Listener
    <2> DEFINE c == Head(backlog)
               n == CHOOSE m \in Numbers : fds[m] = "accepting"
    <2>1. /\ c \in Conns /\ c = backlog[1] /\ Len(backlog) \in Nat \ {0}
          /\ Len(Tail(backlog)) = Len(backlog) - 1
          /\ \A i \in 1..Len(Tail(backlog)) : Tail(backlog)[i] = backlog[i + 1]
          /\ \A i \in 1..Len(backlog) : backlog[i] \in Conns
        BY <1>0, <1>8, HeadTailProperties, EmptySeq, ElementOfSeq DEF TypeOK, ListenerAccepts
    <2>2. n \in Numbers /\ fds[n] = "accepting"
        BY <1>0, <1>8 DEF TypeOK, AcceptHoldsNumber, ListenerAccepts
    <2>3. fds' = [fds EXCEPT ![n] = c] /\ cfd' = [cfd EXCEPT ![c] = n]
          /\ client' = [client EXCEPT ![c] = "new"] /\ backlog' = Tail(backlog)
          /\ UNCHANGED peer
        BY <1>8 DEF Listener, ListenerAccepts
    <2>4. client[c] = "none" /\ peer[c] # "away"
        BY <2>1 DEF Accepted
    <2>5. \A i \in 1..Len(Tail(backlog)) :
             /\ i + 1 \in 1..Len(backlog) /\ Tail(backlog)[i] # c
             /\ Tail(backlog)[i] \in Conns
        BY <2>1 DEF Accepted
    <2> HIDE DEF c, n
    <2>6. \A m \in Numbers, k \in Conns :
             fds'[m] = k => cfd'[k] = m /\ client'[k] # "none"
        <3> SUFFICES ASSUME NEW m \in Numbers, NEW k \in Conns, fds'[m] = k
                     PROVE  cfd'[k] = m /\ client'[k] # "none"
            OBVIOUS
        <3>1. CASE m = n
            BY <1>0, <2>1, <2>2, <2>3, <3>1 DEF TypeOK
        <3>2. CASE m # n
            <4>1. fds[m] = k
                BY <1>0, <2>2, <2>3, <3>2 DEF TypeOK
            <4>2. cfd[k] = m /\ client[k] # "none" /\ k # c
                BY <2>4, <4>1 DEF Accepted
            <4> QED BY <1>0, <2>1, <2>3, <4>2 DEF TypeOK
        <3> QED BY <3>1, <3>2
    <2>7. \A i \in 1..Len(backlog') : client'[backlog'[i]] = "none" /\ peer'[backlog'[i]] # "away"
        BY <1>0, <2>1, <2>3, <2>5 DEF TypeOK, Accepted
    <2>8. \A i, j \in 1..Len(backlog') : backlog'[i] = backlog'[j] => i = j
        BY <2>1, <2>3, <2>5 DEF Accepted
    <2>9. \A k \in Conns : client'[k] # "none" => peer'[k] # "away"
        BY <1>0, <2>1, <2>3, <2>4 DEF TypeOK, Accepted
    <2> QED BY <2>6, <2>7, <2>8, <2>9 DEF Accepted
<1>9. ASSUME NEW k \in Conns, Client(k) /\ UNCHANGED readerVars PROVE Accepted'
    <2>1. \A c \in Conns : client'[c] = "none" <=> client[c] = "none"
        BY <1>0, <1>9 DEF TypeOK, Client, ClientLoops, ClientReads, ClientWrites
    <2>2. UNCHANGED <<fds, cfd, backlog, peer>>
        BY <1>9 DEF Client, ClientLoops, ClientReads, ClientWrites
    <2> QED BY <1>0, <2>1, <2>2, AcceptedKept
<1>10. CASE Peers /\ UNCHANGED readerVars
    <2>1. ASSUME NEW c \in Conns, Connect(c), UNCHANGED <<fds, clientVars>> PROVE Accepted'
        <3>1. /\ peer[c] = "away" /\ client[c] = "none"
              /\ peer' = [peer EXCEPT ![c] = "open"] /\ backlog' = Append(backlog, c)
            BY <2>1 DEF Connect, Accepted
        <3>2. /\ Len(backlog) \in Nat /\ Len(backlog') = Len(backlog) + 1
              /\ \A i \in 1..Len(backlog) : backlog'[i] = backlog[i] /\ backlog[i] \in Conns
              /\ backlog'[Len(backlog) + 1] = c
              /\ \A i \in 1..Len(backlog) : backlog[i] # c
            BY <1>0, <3>1, ElementOfSeq, AppendProperties DEF TypeOK, Accepted
        <3>3. \A i \in 1..Len(backlog') :
                 client'[backlog'[i]] = "none" /\ peer'[backlog'[i]] # "away"
            BY <1>0, <2>1, <3>1, <3>2 DEF TypeOK, Accepted
        <3>4. \A i, j \in 1..Len(backlog') : backlog'[i] = backlog'[j] => i = j
            BY <3>2 DEF Accepted
        <3>5. \A k \in Conns : client'[k] # "none" => peer'[k] # "away"
            BY <1>0, <2>1, <3>1 DEF TypeOK, Accepted
        <3> QED BY <2>1, <3>3, <3>4, <3>5 DEF Accepted
    <2>2. ASSUME NEW c \in Conns, Send(c) \/ HangUp(c) PROVE Accepted'
        <3>1. UNCHANGED <<fds, cfd, backlog, client>>
            BY <1>10, <2>2 DEF Peers, Send, HangUp
        <3>2. \A k \in Conns : peer[k] # "away" => peer'[k] # "away"
            BY <1>0, <2>2 DEF TypeOK, Send, HangUp
        <3> QED BY <1>0, <3>1, <3>2, AcceptedKept
    <2> QED BY <1>10, <2>1, <2>2 DEF Peers
<1> QED BY <1>1, <1>2, <1>3, <1>4, <1>5, <1>6, <1>7, <1>8, <1>9, <1>10 DEF Next, Stopping
-----------------------------------------------------------------------------
(* The walk over the clients *)

\* The walk does not leave the range it has taken, and what it has passed is closed
\* (UnixListener.cpp:122-125).
WalkCloses ==
    /\ walk.end <= Len(handlers) /\ walk.at <= walk.end + 1
    /\ main = "nextClient" => ~InTable(handlers[walk.at])
    /\ StopReachesClients

\* A step that adds no connection to the table and leaves main's walk alone keeps it.
LEMMA WalkKept ==
    ASSUME TypeOK, WalkCloses, UNCHANGED walk,
           main' = main,
           Len(handlers') >= Len(handlers),
           \A i \in 1..Len(handlers) : handlers'[i] = handlers[i],
           WalkInBounds,
           \A n \in Numbers, i \in 1..Len(handlers) :
              fds'[n] = handlers[i] => fds[n] = handlers[i]
    PROVE  WalkCloses'
<1>1. Len(handlers) \in Nat /\ walk.at \in Nat /\ walk.end \in Nat
    BY LenProperties DEF TypeOK
<1>2. \A i \in 1..(walk.at - 1) : i \in 1..Len(handlers) /\ ~InTable(handlers[i])
    BY <1>1 DEF WalkCloses, StopReachesClients
<1>3. main = "nextClient" => walk.at \in 1..Len(handlers) /\ ~InTable(handlers[walk.at])
    BY <1>1 DEF WalkCloses, WalkInBounds
<1>4. walk.end <= Len(handlers')
    BY <1>1 DEF WalkCloses, TypeOK
<1>5. \A i \in 1..Len(handlers), n \in Numbers :
         ~InTable(handlers[i]) => fds'[n] # handlers'[i]
    BY DEF InTable
<1> QED BY <1>1, <1>2, <1>3, <1>4, <1>5 DEF WalkCloses, StopReachesClients, InTable

\* Every thread leaves closed what the walk has passed.
LEMMA WalkClosesStep ==
    ASSUME IInv, TypeOK', Accepted, WalkCloses, [Next]_vars
    PROVE  WalkCloses'
<1> USE DEF readerVars, listenerVars, clientVars, peerVars
<1>0. TypeOK /\ Registered /\ WalkInBounds
    BY DEF IInv
<1>1. /\ Len(handlers) \in Nat /\ walk.at \in Nat /\ walk.end \in Nat
      /\ \A i \in 1..Len(handlers) : handlers[i] \in Conns
    BY <1>0, LenProperties, ElementOfSeq DEF TypeOK
<1>2. ASSUME UNCHANGED <<walk, handlers, main>>,
             \/ \E k : Close(k)
             \/ FreeNumbers # {} /\ \E f \in Special : Open(f)
             \/ UNCHANGED fds
      PROVE  WalkCloses'
    <2>1. \A n \in Numbers, c \in Conns : fds'[n] = c => fds[n] = c
        BY <1>0, <1>2, NoNewConnection DEF TypeOK
    <2> QED BY <1>0, <1>1, <1>2, <2>1, WalkKept DEF InTable
<1>3. CASE UNCHANGED vars
    BY <1>2, <1>3 DEF vars
<1>4. CASE Start \/ Stop
    BY <1>4 DEF Start, Stop, WalkCloses, StopReachesClients, InTable
<1>5. CASE Crash \/ Exit
    BY <1>5, EmptySeq DEF Crash, Exit, ProcessEnds, SocketEnds, NoWalk, WalkCloses, StopReachesClients
<1>6. CASE StopReader /\ UNCHANGED <<reader, listenerVars, clientVars, peerVars>>
    <2>1. main \in {"closeReader", "forgetReader"} /\ main' \in {"forgetReader", "walk"}
          /\ ((\E k : Close(k)) \/ UNCHANGED fds)
        BY <1>6 DEF StopReader
    <2>2. \A n \in Numbers, c \in Conns : fds'[n] = c => fds[n] = c
        BY <1>0, <2>1, NoNewConnection DEF TypeOK
    <2>3. \A i \in 1..(walk.at - 1) : i \in 1..Len(handlers)
        BY <1>1 DEF WalkCloses
    <2> QED BY <1>1, <1>6, <2>1, <2>2, <2>3 DEF WalkCloses, StopReachesClients, InTable
<1>7. CASE StopListener /\ UNCHANGED readerVars
    <2>0. UNCHANGED handlers
        BY <1>7 DEF StopListener
    <2>1. CASE BeginWalk
        <3>1. walk' = [at |-> 1, end |-> Len(handlers)] /\ main' \in {"closeSocket", "closeClient"}
              /\ (main' = "closeSocket" => Len(handlers) = 0)
            BY <2>1, EmptySeq DEF BeginWalk
        <3> QED BY <1>1, <2>0, <3>1 DEF WalkCloses, StopReachesClients
    <2>2. CASE CloseClient
        <3> DEFINE c == handlers[walk.at]
        <3>1. c \in Conns /\ walk.at \in 1..Len(handlers)
            BY <1>0, <1>1, <2>2 DEF WalkInBounds, CloseClient
        <3>2. Close(cfd[c]) /\ main' = "nextClient" /\ UNCHANGED walk
            BY <2>2 DEF CloseClient
        <3>3. \A n \in Numbers, k \in Conns : fds'[n] = k => fds[n] = k
            BY <1>0, <3>2, NoNewConnection DEF TypeOK
        <3>4. \A n \in Numbers : fds'[n] # c
            <4> SUFFICES ASSUME NEW n \in Numbers, fds'[n] = c PROVE FALSE
                OBVIOUS
            <4> HIDE DEF c
            <4>1. fds[n] = c /\ cfd[c] = n
                BY <3>1, <3>3 DEF Accepted
            <4>2. FileAt(cfd[c]) = c /\ c # "free"
                BY <3>1, <4>1, Names DEF FileAt
            <4>3. fds' = [fds EXCEPT ![n] = "free"]
                BY <3>2, <4>1, <4>2 DEF Close
            <4> QED BY <1>0, <4>2, <4>3 DEF TypeOK
        <3>5. \A i \in 1..(walk.at - 1) : i \in 1..Len(handlers)
            BY <3>1
        <3> QED BY <1>1, <2>0, <3>1, <3>2, <3>3, <3>4, <3>5 DEF WalkCloses, StopReachesClients, InTable
    <2>3. CASE NextClient
        <3>1. /\ walk.at \in 1..walk.end
              /\ walk' = [walk EXCEPT !.at = @ + 1] /\ UNCHANGED fds
              /\ main' = IF walk.at = walk.end THEN "closeSocket" ELSE "closeClient"
              /\ ~InTable(handlers[walk.at])
            BY <1>0, <2>3 DEF WalkInBounds, NextClient, WalkCloses
        <3>2. walk'.at = walk.at + 1 /\ walk'.end = walk.end
            BY <1>0, <3>1 DEF TypeOK
        <3>3. \A i \in 1..(walk'.at - 1) : i \in 1..(walk.at - 1) \/ i = walk.at
            BY <1>1, <3>2
        <3> QED BY <1>1, <2>0, <3>1, <3>2, <3>3 DEF WalkCloses, StopReachesClients, InTable
    <2>4. CASE CloseSocket \/ UnlinkSocket \/ Unflag
        <3>1. /\ main \in {"closeSocket", "unlinkSocket", "unflag"} /\ UNCHANGED walk
              /\ main' \in {"unlinkSocket", "unflag", "exit"}
              /\ \/ \E k : Close(k)
                 \/ UNCHANGED fds
            BY <2>4 DEF CloseSocket, UnlinkSocket, Unflag
        <3>2. \A n \in Numbers, c \in Conns : fds'[n] = c => fds[n] = c
            BY <1>0, <3>1, NoNewConnection DEF TypeOK
        <3>3. \A i \in 1..(walk.at - 1) : i \in 1..Len(handlers)
            BY <1>1 DEF WalkCloses
        <3> QED BY <1>1, <2>0, <3>1, <3>2, <3>3 DEF WalkCloses, StopReachesClients, InTable
    <2> QED BY <1>7, <2>1, <2>2, <2>3, <2>4 DEF StopListener
<1>8. CASE Reader
    <2>1. \/ \E k : Close(k)
          \/ FreeNumbers # {} /\ \E f \in Special : Open(f)
          \/ UNCHANGED fds
        BY <1>8 DEF Reader, ReaderAlone, ReaderReadsConnection, ReaderSetsUp, ReaderFailsSetup,
                    ReaderLoops, ReaderCloses, ReaderTearsDown, ReaderForgets, Special
    <2>2. UNCHANGED <<walk, handlers, main>>
        BY <1>8 DEF Reader, ReaderAlone, ReaderReadsConnection
    <2> QED BY <1>2, <2>1, <2>2
<1>9. CASE Listener /\ UNCHANGED readerVars /\ ~ListenerAccepts
    <2>1. \/ \E k : Close(k)
          \/ FreeNumbers # {} /\ \E f \in Special : Open(f)
          \/ UNCHANGED fds
        BY <1>9 DEF Listener, ListenerOpens, ListenerBinds,
                    ListenerListens, ListenerLoops, ListenerStartsClient,
                    ListenerCloses, ListenerUnlinks, Special
    <2>2. UNCHANGED <<walk, handlers, main>>
        BY <1>9 DEF Listener, ListenerOpens, ListenerBinds,
                    ListenerListens, ListenerLoops, ListenerStartsClient,
                    ListenerCloses, ListenerUnlinks
    <2> QED BY <1>2, <2>1, <2>2
<1>10. CASE ListenerAccepts /\ Listener
    <2> DEFINE c == Head(backlog)
               n == CHOOSE m \in Numbers : fds[m] = "accepting"
    <2>1. c \in Conns /\ c = backlog[1] /\ 1 \in 1..Len(backlog)
        BY <1>0, <1>10, HeadTailProperties, EmptySeq, LenProperties DEF TypeOK, ListenerAccepts
    <2>2. client[c] = "none"
        BY <2>1 DEF Accepted
    <2>3. fds' = [fds EXCEPT ![n] = c] /\ handlers' = Append(handlers, c) /\ UNCHANGED <<walk, main>>
        BY <1>10 DEF Listener, ListenerAccepts
    <2> HIDE DEF c, n
    <2>4. Len(handlers') = Len(handlers) + 1
          /\ \A i \in 1..Len(handlers) : handlers'[i] = handlers[i]
        BY <1>0, <2>1, <2>3, AppendProperties DEF TypeOK
    <2>5. \A i \in 1..Len(handlers) : handlers[i] # c
        BY <1>0, <2>2 DEF Registered
    <2>6. \A m \in Numbers, i \in 1..Len(handlers) :
             fds'[m] = handlers[i] => fds[m] = handlers[i]
        BY <1>0, <2>3, <2>5 DEF TypeOK
    <2> QED BY <1>0, <1>1, <2>3, <2>4, <2>6, WalkKept
<1>11. ASSUME NEW k \in Conns, Client(k) /\ UNCHANGED readerVars PROVE WalkCloses'
    BY <1>2, <1>11 DEF Client, ClientLoops, ClientReads, ClientWrites
<1>12. CASE Peers /\ UNCHANGED readerVars
    BY <1>2, <1>12 DEF Peers, Connect, Send, HangUp
<1> QED BY <1>3, <1>4, <1>5, <1>6, <1>7, <1>8, <1>9, <1>10, <1>11, <1>12 DEF Next, Stopping

\* A stop closes the connection of every client that it walks over, although the
\* vector grows and numbers are given out again meanwhile (UnixListener.cpp:118-126).
THEOREM WalkReachesClients == Spec => []StopReachesClients
<1>1. Init => Accepted /\ WalkCloses
    BY Names, EmptySeq DEF Init, SocketInit, NoFiles, Idle, NoWalk, Accepted, WalkCloses,
                           StopReachesClients
<1>2. IInv /\ IInv' /\ Accepted /\ WalkCloses /\ [Next]_vars => Accepted' /\ WalkCloses'
    BY AcceptedStep, WalkClosesStep DEF IInv
<1>3. WalkCloses => StopReachesClients
    BY DEF WalkCloses
<1> QED BY <1>1, <1>2, <1>3, InductiveInvariant, PTL DEF Spec
=============================================================================
