--------------------------- MODULE CommandService ---------------------------
(***************************************************************************)
(* What the ship promises to those who send it requests, with no socket,   *)
(* descriptor or thread in sight.  The requests of each peer are taken in  *)
(* the order in which they were sent, none twice and none skipped; a       *)
(* request that is taken alone takes effect exactly once if it is valid,   *)
(* before it is answered; the answer says which; and a peer that waits for *)
(* its answers has every request taken alone.  Requests of a peer that     *)
(* does not wait may be taken together, and are then refused together.     *)
(* There is no answer to a text that the ship goes down over.              *)
(***************************************************************************)
EXTENDS RequestHandler

CONSTANTS Conns, Eager, Requests

VARIABLES
    sent,       \* the requests each peer has sent
    served,     \* the texts taken from each peer: sequences of requests
    pushed,     \* the events its requests have become
    told        \* the answers it was given

vars == <<sent, served, pushed, told>>

Empty == [c \in Conns |-> <<>>]

Init == sent = Empty /\ served = Empty /\ pushed = Empty /\ told = Empty

\* The number of requests in the texts s.
Taken(s) ==
    LET count[i \in 0..Len(s)] == IF i = 0 THEN 0 ELSE count[i - 1] + Len(s[i])
    IN count[Len(s)]

Send(c, rq) ==
    /\ c \notin Eager => Len(told[c]) = Len(sent[c])
    /\ sent' = [sent EXCEPT ![c] = Append(@, rq)]
    /\ UNCHANGED <<served, pushed, told>>

\* The next requests of c, all those up to the last one, are taken.
Serve(c, last) ==
    LET text == SubSeq(sent[c], Taken(served[c]) + 1, last) IN
    /\ Len(told[c]) = Len(served[c])
    /\ text # <<>> /\ ~Kills(text)
    /\ served' = [served EXCEPT ![c] = Append(@, text)]
    /\ pushed' = [pushed EXCEPT ![c] =
                     IF Accepts(text) THEN Append(@, Event(text[1])) ELSE @]
    /\ UNCHANGED <<sent, told>>

\* The answer to the last text taken.
Answer(c) ==
    /\ Len(told[c]) < Len(served[c])
    /\ told' = [told EXCEPT ![c] = Append(@, Verdict(served[c][Len(@) + 1]))]
    /\ UNCHANGED <<sent, served, pushed>>

\* The ship goes down, and every connection with it.
GoDown == sent' = Empty /\ served' = Empty /\ pushed' = Empty /\ told' = Empty

Next ==
    \/ \E c \in Conns :
          \/ \E rq \in Requests : Send(c, rq)
          \/ \E last \in 1..Len(sent[c]) : Serve(c, last)
          \/ Answer(c)
    \/ GoDown

Spec == Init /\ [][Next]_vars
=============================================================================
