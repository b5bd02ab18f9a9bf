--------------------------- MODULE InputQueueProofs ---------------------------
(***************************************************************************)
(* Proofs about InputQueue.tla for any number of producers, signals and    *)
(* pushes: type correctness, freedom from data races on _queue, pop()      *)
(* never on an empty queue, and that the queue implements EventPipeline.   *)
(***************************************************************************)
EXTENDS InputQueue, SequenceTheorems, TLAPS

(* The inductive invariant *)

\* The frames whose next statement lies inside a critical section.
HoldsQueue(f) ==
    pc[f] \in {"pushLockBlock", "append", "pushUnlockBlock", "pushUnlockQueue",
               "front", "popFront", "popUnlockQueue"}
HoldsBlock(f) ==
    pc[f] \in {"append", "pushUnlockBlock", "test", "popUnlockBlock"}

\* A frame owns a mutex exactly while it is inside its critical section.
MutexInv ==
    \A f \in Frames :
        /\ queueMutex = f <=> HoldsQueue(f)
        /\ blockMutex = f <=> HoldsBlock(f)

\* A frame inside push() has counted the event it is pushing.
IssuedInv ==
    /\ \A p \in Producers : pc[p] \in PushPC => issued[p] >= 1
    /\ \A s \in Signals :
          issued[s] = IF pc[s] \in {"undelivered", "setStop"} THEN 0 ELSE 1

\* pop()'s local holds the front of the queue, later the event in hand.
EvtInv ==
    /\ pc[Main] = "popFront" => evt = Head(queue)
    /\ pc[Main] \in {"popUnlockQueue", "dispatch"} => evt \in Event

\* After an event was dispatched late, the loop can only leave.
LateInv == late => stop /\ pc[Main] \in {"checkStop", "exited"}

IInv ==
    /\ TypeOK
    /\ MutexInv
    /\ IssuedInv
    /\ NoPopOnEmpty
    /\ EvtInv
    /\ LateInv
    /\ NothingLostOrReordered
    /\ NoLostWakeup

-----------------------------------------------------------------------------
(* Sequences *)

\* Appending keeps the front of a sequence that has one.
LEMMA AppendKeepsFront ==
    ASSUME NEW S, NEW q \in Seq(S), NEW e \in S
    PROVE  /\ Append(q, e) \in Seq(S)
           /\ Append(q, e) # <<>>
           /\ q # <<>> => Head(Append(q, e)) = Head(q)
<1>1. Append(q, e) \in Seq(S) /\ Len(Append(q, e)) = Len(q) + 1
  BY AppendProperties
<1>2. Append(q, e) # <<>>
  BY <1>1, LenProperties, EmptySeq
<1>3. q # <<>> => Head(Append(q, e)) = Head(q)
  <2> SUFFICES ASSUME q # <<>> PROVE Head(Append(q, e)) = Head(q)
    OBVIOUS
  <2>1. Len(q) >= 1
    BY EmptySeq, LenProperties
  <2>2. Append(q, e)[1] = q[1]
    BY <2>1, AppendProperties
  <2> QED
    BY <2>1, <2>2, <1>1, HeadTailProperties, <1>2
<1> QED
  BY <1>1, <1>2, <1>3

\* Appending at the end of a concatenation appends to its last part.
LEMMA AppendConcat ==
    ASSUME NEW S, NEW s \in Seq(S), NEW q \in Seq(S), NEW e \in S
    PROVE  s \o Append(q, e) = Append(s \o q, e)
<1>1. Append(q, e) = q \o <<e>> /\ Append(s \o q, e) = (s \o q) \o <<e>>
  BY AppendIsConcat, ConcatProperties
<1> QED
  BY <1>1, ConcatAssociative

\* The front of a sequence followed by the rest of it is the sequence.
LEMMA FrontThenRest ==
    ASSUME NEW S, NEW q \in Seq(S), q # <<>>
    PROVE  /\ Head(q) \in S
           /\ Tail(q) \in Seq(S)
           /\ <<Head(q)>> \o Tail(q) = q
<1>1. /\ Head(q) \in S
      /\ Tail(q) \in Seq(S)
      /\ Len(Tail(q)) = Len(q) - 1
      /\ \A i \in 1..Len(Tail(q)) : Tail(q)[i] = q[i + 1]
  BY HeadTailProperties
<1>2. Head(q) = q[1]
  OBVIOUS
<1>3. Len(q) \in Nat \ {0}
  BY EmptySeq
<1>4. <<Head(q)>> \in Seq(S) /\ Len(<<Head(q)>>) = 1 /\ <<Head(q)>>[1] = q[1]
  BY <1>1, <1>2
<1> DEFINE r == <<Head(q)>> \o Tail(q)
<1>5. /\ r \in Seq(S)
      /\ Len(r) = 1 + Len(Tail(q))
      /\ \A i \in 1..(1 + Len(Tail(q))) :
            r[i] = IF i <= 1 THEN <<Head(q)>>[i] ELSE Tail(q)[i - 1]
  BY <1>1, <1>4, ConcatProperties
<1> HIDE DEF r
<1>6. Len(r) = Len(q)
  BY <1>1, <1>3, <1>5
<1>7. \A i \in 1..Len(r) : r[i] = q[i]
  BY <1>1, <1>3, <1>4, <1>5, <1>6
<1>8. r = q
  BY <1>5, <1>6, <1>7, SeqEqual
<1> QED
  BY <1>1, <1>8 DEF r

-----------------------------------------------------------------------------
(* Every step keeps the inductive invariant *)

\* The invariant holds before any thread has taken a step.
LEMMA InitInvariant == Init => IInv
<1> SUFFICES ASSUME Init PROVE IInv
  OBVIOUS
<1> USE FramesAssumption, MaxPushesAssumption
    DEF Init, Threads, Pushers, Frames, PC, PushPC, ProducerPC,
        SignalPC, MainPC
<1>1. TypeOK
  <2>1. <<>> \in Seq(Event)
    BY EmptySeq
  <2>2. \A p \in Producers : p \notin Signals
    OBVIOUS
  <2>3. pc \in [Frames -> PC] /\ \A p \in Producers : pc[p] \in ProducerPC
    OBVIOUS
  <2>4. (\A s \in Signals : pc[s] \in SignalPC) /\ pc[Main] \in MainPC
    BY <2>2
  <2>5. issued \in [Pushers -> 0..MaxPushes]
    OBVIOUS
  <2> QED
    BY <2>1, <2>3, <2>4, <2>5 DEF TypeOK
<1>2. MutexInv
  BY DEF MutexInv, HoldsQueue, HoldsBlock
<1>3. IssuedInv /\ NoPopOnEmpty /\ EvtInv /\ LateInv /\ NoLostWakeup
  BY DEF IssuedInv, NoPopOnEmpty, EvtInv, LateInv, NoLostWakeup
<1>4. NothingLostOrReordered
  BY ConcatEmptySeq, EmptySeq DEF NothingLostOrReordered, InHand
<1> QED
  BY <1>1, <1>2, <1>3, <1>4 DEF IInv

\* Every statement of every frame keeps the invariant.
LEMMA NextInvariant == IInv /\ [Next]_vars => IInv'
<1> SUFFICES ASSUME IInv, [Next]_vars PROVE IInv'
  OBVIOUS
<1> USE FramesAssumption, MaxPushesAssumption
    DEF IInv, At, Runs, Goto, LockQueue, LockBlock, Threads, Pushers, Frames,
            PC, PushPC, ProducerPC, SignalPC, MainPC, HoldsQueue,
            HoldsBlock
<1>1. ASSUME NEW p \in Producers, Submit(p) PROVE IInv'
  <2>1. TypeOK'
    BY <1>1 DEF Submit, TypeOK, IssuedInv
  <2>2. MutexInv'
    BY <1>1 DEF Submit, TypeOK, MutexInv
  <2>3. (IssuedInv /\ NoPopOnEmpty /\ EvtInv /\ LateInv)'
    <3>1. IssuedInv'
      BY <1>1 DEF Submit, TypeOK, IssuedInv
    <3>2. NoPopOnEmpty' /\ EvtInv' /\ LateInv'
      BY <1>1 DEF Submit, TypeOK, NoPopOnEmpty, EvtInv, LateInv
    <3> QED
      BY <3>1, <3>2
  <2>4. NothingLostOrReordered'
    BY <1>1 DEF Submit, TypeOK, NothingLostOrReordered, InHand
  <2>5. NoLostWakeup'
    BY <1>1 DEF Submit, TypeOK, NoLostWakeup
  <2> QED
    BY <2>1, <2>2, <2>3, <2>4, <2>5
<1>2. ASSUME NEW f \in Pushers, PushLockQueue(f) PROVE IInv'
  <2>1. TypeOK'
    BY <1>2 DEF PushLockQueue, TypeOK, IssuedInv
  <2>2. MutexInv'
    BY <1>2 DEF PushLockQueue, TypeOK, MutexInv
  <2>3. (IssuedInv /\ NoPopOnEmpty /\ EvtInv /\ LateInv)'
    <3>1. IssuedInv'
      BY <1>2 DEF PushLockQueue, TypeOK, IssuedInv
    <3>2. NoPopOnEmpty' /\ EvtInv' /\ LateInv'
      BY <1>2 DEF PushLockQueue, TypeOK, NoPopOnEmpty, EvtInv, LateInv
    <3> QED
      BY <3>1, <3>2
  <2>4. NothingLostOrReordered'
    BY <1>2 DEF PushLockQueue, TypeOK, NothingLostOrReordered, InHand
  <2>5. NoLostWakeup'
    BY <1>2 DEF PushLockQueue, TypeOK, NoLostWakeup
  <2> QED
    BY <2>1, <2>2, <2>3, <2>4, <2>5
<1>3. ASSUME NEW f \in Pushers, PushLockBlock(f) PROVE IInv'
  <2>1. TypeOK'
    BY <1>3 DEF PushLockBlock, TypeOK, IssuedInv
  <2>2. MutexInv'
    BY <1>3 DEF PushLockBlock, TypeOK, MutexInv
  <2>3. (IssuedInv /\ NoPopOnEmpty /\ EvtInv /\ LateInv)'
    <3>1. IssuedInv'
      BY <1>3 DEF PushLockBlock, TypeOK, IssuedInv
    <3>2. NoPopOnEmpty' /\ EvtInv' /\ LateInv'
      BY <1>3 DEF PushLockBlock, TypeOK, NoPopOnEmpty, EvtInv, LateInv
    <3> QED
      BY <3>1, <3>2
  <2>4. NothingLostOrReordered'
    BY <1>3 DEF PushLockBlock, TypeOK, NothingLostOrReordered, InHand
  <2>5. NoLostWakeup'
    BY <1>3 DEF PushLockBlock, TypeOK, NoLostWakeup
  <2> QED
    BY <2>1, <2>2, <2>3, <2>4, <2>5
<1>4. ASSUME NEW f \in Pushers, PushAppend(f) PROVE IInv'
  <2> DEFINE event == [by |-> f, n |-> issued[f]]
  <2>a. event \in Event
    <3>1. f \in Pushers /\ issued[f] \in 0..MaxPushes
      BY DEF TypeOK
    <3>2. issued[f] >= 1
      <4>1. pc[f] = "append"
        BY <1>4 DEF PushAppend
      <4>2. CASE f \in Producers
        BY <4>1, <4>2 DEF IssuedInv
      <4>3. CASE f \in Signals
        BY <4>1, <4>3 DEF IssuedInv
      <4> QED
        BY <4>2, <4>3
    <3> QED
      BY <3>1, <3>2 DEF Event
  <2>b. queue' = Append(queue, event) /\ pushed' = Append(pushed, event)
    BY <1>4 DEF PushAppend
  <2>c. /\ queue' \in Seq(Event)
        /\ pushed' \in Seq(Event)
        /\ queue' # <<>>
        /\ queue # <<>> => Head(queue') = Head(queue)
    BY <2>a, <2>b, AppendKeepsFront DEF TypeOK
  <2> HIDE DEF event
  <2>1. TypeOK'
    BY <1>4, <2>c DEF PushAppend, TypeOK
  <2>2. MutexInv'
    BY <1>4 DEF PushAppend, TypeOK, MutexInv
  <2>3. (IssuedInv /\ NoPopOnEmpty /\ EvtInv /\ LateInv)'
    <3>1. pc'[Main] = pc[Main] /\ evt' = evt
      BY <1>4 DEF PushAppend, TypeOK
    <3>2. NoPopOnEmpty' /\ EvtInv'
      BY <2>c, <3>1 DEF NoPopOnEmpty, EvtInv
    <3> QED
      BY <1>4, <3>2 DEF PushAppend, TypeOK, IssuedInv, LateInv
  <2>4. NothingLostOrReordered'
    <3>1. InHand' = InHand /\ handled' = handled
      BY <1>4 DEF PushAppend, TypeOK, InHand
    <3>2. handled \in Seq(Event) /\ InHand \in Seq(Event)
      BY DEF TypeOK, EvtInv, InHand
    <3>3. handled \o InHand \in Seq(Event)
      BY <3>2, ConcatProperties
    <3>4. (handled \o InHand) \o Append(queue, event)
            = Append((handled \o InHand) \o queue, event)
      BY <2>a, <3>3, AppendConcat DEF TypeOK
    <3> QED
      BY <2>b, <3>1, <3>4 DEF NothingLostOrReordered
  <2>5. NoLostWakeup'
    BY <1>4 DEF PushAppend, TypeOK, NoLostWakeup
  <2> QED
    BY <2>1, <2>2, <2>3, <2>4, <2>5
<1>5. ASSUME NEW f \in Pushers, PushUnlockBlock(f) PROVE IInv'
  <2>1. TypeOK'
    BY <1>5 DEF PushUnlockBlock, TypeOK, IssuedInv
  <2>2. MutexInv'
    BY <1>5 DEF PushUnlockBlock, TypeOK, MutexInv
  <2>3. (IssuedInv /\ NoPopOnEmpty /\ EvtInv /\ LateInv)'
    <3>1. IssuedInv'
      BY <1>5 DEF PushUnlockBlock, TypeOK, IssuedInv
    <3>2. NoPopOnEmpty' /\ EvtInv' /\ LateInv'
      BY <1>5 DEF PushUnlockBlock, TypeOK, NoPopOnEmpty, EvtInv, LateInv
    <3> QED
      BY <3>1, <3>2
  <2>4. NothingLostOrReordered'
    BY <1>5 DEF PushUnlockBlock, TypeOK, NothingLostOrReordered, InHand
  <2>5. NoLostWakeup'
    BY <1>5 DEF PushUnlockBlock, TypeOK, NoLostWakeup
  <2> QED
    BY <2>1, <2>2, <2>3, <2>4, <2>5
<1>6. ASSUME NEW f \in Pushers, PushUnlockQueue(f) PROVE IInv'
  <2>1. TypeOK'
    BY <1>6 DEF PushUnlockQueue, TypeOK, IssuedInv
  <2>2. MutexInv'
    BY <1>6 DEF PushUnlockQueue, TypeOK, MutexInv
  <2>3. (IssuedInv /\ NoPopOnEmpty /\ EvtInv /\ LateInv)'
    <3>1. IssuedInv'
      BY <1>6 DEF PushUnlockQueue, TypeOK, IssuedInv
    <3>2. NoPopOnEmpty' /\ EvtInv' /\ LateInv'
      BY <1>6 DEF PushUnlockQueue, TypeOK, NoPopOnEmpty, EvtInv, LateInv
    <3> QED
      BY <3>1, <3>2
  <2>4. NothingLostOrReordered'
    BY <1>6 DEF PushUnlockQueue, TypeOK, NothingLostOrReordered, InHand
  <2>5. NoLostWakeup'
    BY <1>6 DEF PushUnlockQueue, TypeOK, NoLostWakeup
  <2> QED
    BY <2>1, <2>2, <2>3, <2>4, <2>5
<1>7. ASSUME NEW f \in Pushers, PushNotify(f) PROVE IInv'
  <2>a. /\ pc' \in [Frames -> PC]
        /\ pc'[f] = IF f \in Signals THEN "returned" ELSE "idle"
        /\ pc'[Main] = IF pc[Main] = "sleep" THEN "relock" ELSE pc[Main]
        /\ \A g \in Frames \ {f, Main} : pc'[g] = pc[g]
    BY <1>7 DEF PushNotify, TypeOK
  <2>1. TypeOK'
    <3>1. pc' \in [Frames -> PC] /\ pc'[Main] \in MainPC
      BY <2>a DEF TypeOK
    <3>2. ASSUME NEW p \in Producers
          PROVE  pc'[p] \in ProducerPC
      <4>1. p \in Frames /\ p # Main /\ p \notin Signals
        OBVIOUS
      <4>2. pc[p] \in ProducerPC
        BY DEF TypeOK
      <4> QED
        BY <2>a, <4>1, <4>2
    <3>3. \A s \in Signals : pc'[s] \in SignalPC
      BY <2>a DEF TypeOK
    <3> QED
      BY <1>7, <3>1, <3>2, <3>3 DEF PushNotify, TypeOK
  <2>2. MutexInv'
    BY <1>7 DEF PushNotify, TypeOK, MutexInv
  <2>3. (IssuedInv /\ NoPopOnEmpty /\ EvtInv /\ LateInv)'
    <3>1. ASSUME NEW p \in Producers
          PROVE  pc'[p] \in PushPC => issued'[p] >= 1
      <4>1. p \in Frames /\ p # Main /\ issued'[p] = issued[p]
        BY <1>7 DEF PushNotify
      <4>2. pc'[p] \in PushPC => pc'[p] = pc[p]
        BY <2>a, <4>1
      <4> QED
        BY <4>1, <4>2 DEF IssuedInv
    <3>2. ASSUME NEW s \in Signals
          PROVE  issued'[s] = IF pc'[s] \in {"undelivered", "setStop"} THEN 0
                                                                     ELSE 1
      <4>1. s \in Frames /\ s # Main /\ issued'[s] = issued[s]
        BY <1>7 DEF PushNotify
      <4>2. CASE s = f
        BY <1>7, <2>a, <4>1, <4>2 DEF PushNotify, IssuedInv
      <4>3. CASE s # f
        BY <2>a, <4>1, <4>3 DEF IssuedInv
      <4> QED
        BY <4>2, <4>3
    <3>3. NoPopOnEmpty' /\ EvtInv' /\ LateInv'
      BY <1>7, <2>a DEF PushNotify, NoPopOnEmpty, EvtInv, LateInv
    <3> QED
      BY <3>1, <3>2, <3>3 DEF IssuedInv
  <2>4. NothingLostOrReordered'
    BY <1>7 DEF PushNotify, TypeOK, NothingLostOrReordered, InHand
  <2>5. NoLostWakeup'
    BY <1>7 DEF PushNotify, TypeOK, NoLostWakeup
  <2> QED
    BY <2>1, <2>2, <2>3, <2>4, <2>5
<1>8. ASSUME CheckStop PROVE IInv'
  <2>1. TypeOK'
    BY <1>8 DEF CheckStop, TypeOK, IssuedInv
  <2>2. MutexInv'
    BY <1>8 DEF CheckStop, TypeOK, MutexInv
  <2>3. (IssuedInv /\ NoPopOnEmpty /\ EvtInv /\ LateInv)'
    <3>1. IssuedInv'
      BY <1>8 DEF CheckStop, TypeOK, IssuedInv
    <3>2. NoPopOnEmpty' /\ EvtInv' /\ LateInv'
      BY <1>8 DEF CheckStop, TypeOK, NoPopOnEmpty, EvtInv, LateInv
    <3> QED
      BY <3>1, <3>2
  <2>4. NothingLostOrReordered'
    BY <1>8 DEF CheckStop, TypeOK, NothingLostOrReordered, InHand
  <2>5. NoLostWakeup'
    BY <1>8 DEF CheckStop, TypeOK, NoLostWakeup
  <2> QED
    BY <2>1, <2>2, <2>3, <2>4, <2>5
<1>9. ASSUME PopLockBlock PROVE IInv'
  <2>1. TypeOK'
    BY <1>9 DEF PopLockBlock, TypeOK, IssuedInv
  <2>2. MutexInv'
    BY <1>9 DEF PopLockBlock, TypeOK, MutexInv
  <2>3. (IssuedInv /\ NoPopOnEmpty /\ EvtInv /\ LateInv)'
    <3>1. IssuedInv'
      BY <1>9 DEF PopLockBlock, TypeOK, IssuedInv
    <3>2. NoPopOnEmpty' /\ EvtInv' /\ LateInv'
      BY <1>9 DEF PopLockBlock, TypeOK, NoPopOnEmpty, EvtInv, LateInv
    <3> QED
      BY <3>1, <3>2
  <2>4. NothingLostOrReordered'
    BY <1>9 DEF PopLockBlock, TypeOK, NothingLostOrReordered, InHand
  <2>5. NoLostWakeup'
    BY <1>9 DEF PopLockBlock, TypeOK, NoLostWakeup
  <2> QED
    BY <2>1, <2>2, <2>3, <2>4, <2>5
<1>10. ASSUME PopTest PROVE IInv'
  <2>a. blockMutex' \in Frames \cup {None}
    BY <1>10 DEF PopTest, TypeOK
  <2>b. pc' = [pc EXCEPT ![Main] = IF queue = <<>> THEN "sleep"
                                   ELSE "popUnlockBlock"]
    BY <1>10 DEF PopTest
  <2>1. TypeOK'
    BY <1>10, <2>a, <2>b DEF PopTest, TypeOK
  <2>2. MutexInv'
    <3>1. CASE queue = <<>>
      BY <1>10, <2>b, <3>1 DEF PopTest, TypeOK, MutexInv
    <3>2. CASE queue # <<>>
      BY <1>10, <2>b, <3>2 DEF PopTest, TypeOK, MutexInv
    <3> QED
      BY <3>1, <3>2
  <2>3. (IssuedInv /\ NoPopOnEmpty /\ EvtInv /\ LateInv)'
    <3>1. queue' = queue /\ evt' = evt /\ issued' = issued
      BY <1>10 DEF PopTest
    <3>2. NoPopOnEmpty' /\ EvtInv'
      BY <2>b, <3>1 DEF TypeOK, NoPopOnEmpty, EvtInv
    <3> QED
      BY <1>10, <2>b, <3>1, <3>2 DEF PopTest, TypeOK, IssuedInv, LateInv
  <2>4. NothingLostOrReordered'
    BY <1>10, <2>b DEF PopTest, TypeOK, NothingLostOrReordered, InHand
  <2>5. NoLostWakeup'
    BY <1>10 DEF PopTest, TypeOK, NoLostWakeup
  <2> QED
    BY <2>1, <2>2, <2>3, <2>4, <2>5
<1>11. ASSUME SpuriousWakeup PROVE IInv'
  <2>1. TypeOK'
    BY <1>11 DEF SpuriousWakeup, TypeOK, IssuedInv
  <2>2. MutexInv'
    BY <1>11 DEF SpuriousWakeup, TypeOK, MutexInv
  <2>3. (IssuedInv /\ NoPopOnEmpty /\ EvtInv /\ LateInv)'
    <3>1. IssuedInv'
      BY <1>11 DEF SpuriousWakeup, TypeOK, IssuedInv
    <3>2. NoPopOnEmpty' /\ EvtInv' /\ LateInv'
      BY <1>11 DEF SpuriousWakeup, TypeOK, NoPopOnEmpty, EvtInv, LateInv
    <3> QED
      BY <3>1, <3>2
  <2>4. NothingLostOrReordered'
    BY <1>11 DEF SpuriousWakeup, TypeOK, NothingLostOrReordered, InHand
  <2>5. NoLostWakeup'
    BY <1>11 DEF SpuriousWakeup, TypeOK, NoLostWakeup
  <2> QED
    BY <2>1, <2>2, <2>3, <2>4, <2>5
<1>12. ASSUME PopUnlockBlock PROVE IInv'
  <2>1. TypeOK'
    BY <1>12 DEF PopUnlockBlock, TypeOK, IssuedInv
  <2>2. MutexInv'
    BY <1>12 DEF PopUnlockBlock, TypeOK, MutexInv
  <2>3. (IssuedInv /\ NoPopOnEmpty /\ EvtInv /\ LateInv)'
    <3>1. IssuedInv'
      BY <1>12 DEF PopUnlockBlock, TypeOK, IssuedInv
    <3>2. NoPopOnEmpty' /\ EvtInv' /\ LateInv'
      BY <1>12 DEF PopUnlockBlock, TypeOK, NoPopOnEmpty, EvtInv, LateInv
    <3> QED
      BY <3>1, <3>2
  <2>4. NothingLostOrReordered'
    BY <1>12 DEF PopUnlockBlock, TypeOK, NothingLostOrReordered, InHand
  <2>5. NoLostWakeup'
    BY <1>12 DEF PopUnlockBlock, TypeOK, NoLostWakeup
  <2> QED
    BY <2>1, <2>2, <2>3, <2>4, <2>5
<1>13. ASSUME PopLockQueue PROVE IInv'
  <2>1. TypeOK'
    BY <1>13 DEF PopLockQueue, TypeOK, IssuedInv
  <2>2. MutexInv'
    BY <1>13 DEF PopLockQueue, TypeOK, MutexInv
  <2>3. (IssuedInv /\ NoPopOnEmpty /\ EvtInv /\ LateInv)'
    <3>1. IssuedInv'
      BY <1>13 DEF PopLockQueue, TypeOK, IssuedInv
    <3>2. NoPopOnEmpty' /\ EvtInv' /\ LateInv'
      BY <1>13 DEF PopLockQueue, TypeOK, NoPopOnEmpty, EvtInv, LateInv
    <3> QED
      BY <3>1, <3>2
  <2>4. NothingLostOrReordered'
    BY <1>13 DEF PopLockQueue, TypeOK, NothingLostOrReordered, InHand
  <2>5. NoLostWakeup'
    BY <1>13 DEF PopLockQueue, TypeOK, NoLostWakeup
  <2> QED
    BY <2>1, <2>2, <2>3, <2>4, <2>5
<1>14. ASSUME PopFront PROVE IInv'
  <2>a. evt' \in Event
    BY <1>14, FrontThenRest DEF PopFront, TypeOK, NoPopOnEmpty
  <2>1. TypeOK'
    BY <1>14, <2>a DEF PopFront, TypeOK
  <2>2. MutexInv'
    BY <1>14 DEF PopFront, TypeOK, MutexInv
  <2>3. (IssuedInv /\ NoPopOnEmpty /\ EvtInv /\ LateInv)'
    <3>1. IssuedInv'
      BY <1>14 DEF PopFront, TypeOK, IssuedInv
    <3>2. NoPopOnEmpty' /\ EvtInv' /\ LateInv'
      BY <1>14 DEF PopFront, TypeOK, NoPopOnEmpty, EvtInv, LateInv
    <3> QED
      BY <3>1, <3>2
  <2>4. NothingLostOrReordered'
    BY <1>14 DEF PopFront, TypeOK, NothingLostOrReordered, InHand
  <2>5. NoLostWakeup'
    BY <1>14 DEF PopFront, TypeOK, NoLostWakeup
  <2> QED
    BY <2>1, <2>2, <2>3, <2>4, <2>5
<1>15. ASSUME PopRemove PROVE IInv'
  <2>a. /\ Head(queue) \in Event
        /\ Tail(queue) \in Seq(Event)
        /\ <<Head(queue)>> \o Tail(queue) = queue
    BY <1>15, FrontThenRest DEF PopRemove, TypeOK, NoPopOnEmpty
  <2>b. evt = Head(queue) /\ evt' = evt /\ queue' = Tail(queue)
    BY <1>15 DEF PopRemove, EvtInv
  <2>1. TypeOK'
    BY <1>15, <2>a, <2>b DEF PopRemove, TypeOK
  <2>2. MutexInv'
    BY <1>15 DEF PopRemove, TypeOK, MutexInv
  <2>3. (IssuedInv /\ NoPopOnEmpty /\ EvtInv /\ LateInv)'
    <3>1. pc' = [pc EXCEPT ![Main] = "popUnlockQueue"]
      BY <1>15 DEF PopRemove
    <3>2. EvtInv'
      BY <2>a, <2>b, <3>1 DEF TypeOK, EvtInv
    <3> QED
      BY <1>15, <3>1, <3>2
      DEF PopRemove, TypeOK, IssuedInv, NoPopOnEmpty, LateInv
  <2>4. NothingLostOrReordered'
    <3>1. InHand = <<>> /\ InHand' = <<Head(queue)>> /\ handled' = handled
      BY <1>15, <2>b DEF PopRemove, TypeOK, InHand
    <3>2. handled \in Seq(Event) /\ <<Head(queue)>> \in Seq(Event)
      BY <2>a DEF TypeOK
    <3>3. (handled \o <<Head(queue)>>) \o Tail(queue) = handled \o queue
      BY <2>a, <3>2, ConcatAssociative
    <3>4. handled \o <<>> = handled
      BY <3>2, ConcatEmptySeq
    <3>5. pushed' = pushed
      BY <1>15 DEF PopRemove
    <3> QED
      BY <2>b, <3>1, <3>3, <3>4, <3>5 DEF NothingLostOrReordered
  <2>5. NoLostWakeup'
    BY <1>15 DEF PopRemove, TypeOK, NoLostWakeup
  <2> QED
    BY <2>1, <2>2, <2>3, <2>4, <2>5
<1>16. ASSUME PopUnlockQueue PROVE IInv'
  <2>1. TypeOK'
    BY <1>16 DEF PopUnlockQueue, TypeOK, IssuedInv
  <2>2. MutexInv'
    BY <1>16 DEF PopUnlockQueue, TypeOK, MutexInv
  <2>3. (IssuedInv /\ NoPopOnEmpty /\ EvtInv /\ LateInv)'
    <3>1. IssuedInv'
      BY <1>16 DEF PopUnlockQueue, TypeOK, IssuedInv
    <3>2. NoPopOnEmpty' /\ EvtInv' /\ LateInv'
      BY <1>16 DEF PopUnlockQueue, TypeOK, NoPopOnEmpty, EvtInv, LateInv
    <3> QED
      BY <3>1, <3>2
  <2>4. NothingLostOrReordered'
    BY <1>16 DEF PopUnlockQueue, TypeOK, NothingLostOrReordered, InHand
  <2>5. NoLostWakeup'
    BY <1>16 DEF PopUnlockQueue, TypeOK, NoLostWakeup
  <2> QED
    BY <2>1, <2>2, <2>3, <2>4, <2>5
<1>17. ASSUME Dispatch PROVE IInv'
  <2>a. handled \in Seq(Event) /\ evt \in Event
    BY <1>17 DEF Dispatch, TypeOK, EvtInv
  <2>b. handled' \in Seq(Event) /\ handled' = handled \o <<evt>>
    BY <1>17, <2>a, AppendProperties, AppendIsConcat DEF Dispatch
  <2>1. TypeOK'
    BY <1>17, <2>b DEF Dispatch, TypeOK
  <2>2. MutexInv'
    BY <1>17 DEF Dispatch, TypeOK, MutexInv
  <2>3. (IssuedInv /\ NoPopOnEmpty /\ EvtInv /\ LateInv)'
    <3>1. IssuedInv'
      BY <1>17 DEF Dispatch, TypeOK, IssuedInv
    <3>2. NoPopOnEmpty' /\ EvtInv' /\ LateInv'
      BY <1>17 DEF Dispatch, TypeOK, NoPopOnEmpty, EvtInv, LateInv
    <3> QED
      BY <3>1, <3>2
  <2>4. NothingLostOrReordered'
    <3>1. InHand = <<evt>> /\ InHand' = <<>> /\ queue' = queue
      BY <1>17 DEF Dispatch, TypeOK, InHand
    <3>2. handled' \o <<>> = handled'
      BY <2>b, ConcatEmptySeq
    <3> QED
      BY <1>17, <2>b, <3>1, <3>2 DEF Dispatch, NothingLostOrReordered
  <2>5. NoLostWakeup'
    BY <1>17 DEF Dispatch, TypeOK, NoLostWakeup
  <2> QED
    BY <2>1, <2>2, <2>3, <2>4, <2>5
<1>18. ASSUME NEW s \in Signals, NEW t \in SignalTargets,
            DeliverSignal(s, t) PROVE IInv'
  <2>1. TypeOK'
    BY <1>18 DEF DeliverSignal, TypeOK, IssuedInv
  <2>2. MutexInv'
    BY <1>18 DEF DeliverSignal, TypeOK, MutexInv
  <2>3. (IssuedInv /\ NoPopOnEmpty /\ EvtInv /\ LateInv)'
    <3>1. IssuedInv'
      BY <1>18 DEF DeliverSignal, TypeOK, IssuedInv
    <3>2. NoPopOnEmpty' /\ EvtInv' /\ LateInv'
      BY <1>18 DEF DeliverSignal, TypeOK, NoPopOnEmpty, EvtInv, LateInv
    <3> QED
      BY <3>1, <3>2
  <2>4. NothingLostOrReordered'
    BY <1>18 DEF DeliverSignal, TypeOK, NothingLostOrReordered, InHand
  <2>5. NoLostWakeup'
    BY <1>18 DEF DeliverSignal, TypeOK, NoLostWakeup
  <2> QED
    BY <2>1, <2>2, <2>3, <2>4, <2>5
<1>19. ASSUME NEW s \in Signals, SetStop(s) PROVE IInv'
  <2>1. TypeOK'
    BY <1>19 DEF SetStop, TypeOK, IssuedInv
  <2>2. MutexInv'
    BY <1>19 DEF SetStop, TypeOK, MutexInv
  <2>3. (IssuedInv /\ NoPopOnEmpty /\ EvtInv /\ LateInv)'
    <3>1. IssuedInv'
      BY <1>19 DEF SetStop, TypeOK, IssuedInv
    <3>2. NoPopOnEmpty' /\ EvtInv' /\ LateInv'
      BY <1>19 DEF SetStop, TypeOK, NoPopOnEmpty, EvtInv, LateInv
    <3> QED
      BY <3>1, <3>2
  <2>4. NothingLostOrReordered'
    BY <1>19 DEF SetStop, TypeOK, NothingLostOrReordered, InHand
  <2>5. NoLostWakeup'
    BY <1>19 DEF SetStop, TypeOK, NoLostWakeup
  <2> QED
    BY <2>1, <2>2, <2>3, <2>4, <2>5
<1>20. ASSUME UNCHANGED vars PROVE IInv'
  BY <1>20 DEF vars, TypeOK, MutexInv, IssuedInv, NoPopOnEmpty, EvtInv, InHand,
     LateInv, NothingLostOrReordered, NoLostWakeup
<1> QED
  BY <1>1, <1>2, <1>3, <1>4, <1>5, <1>6, <1>7, <1>8, <1>9, <1>10,
     <1>11, <1>12, <1>13, <1>14, <1>15, <1>16, <1>17, <1>18, <1>19, <1>20
  DEF Next, Push, MainStep, Terminated

-----------------------------------------------------------------------------
(* The safety theorems *)

\* The inductive invariant holds in every reachable state.
THEOREM InductiveInvariant == Spec => []IInv
<1>1. Init => IInv
  BY InitInvariant
<1>2. IInv /\ [Next]_vars => IInv'
  BY NextInvariant
<1> QED
  BY <1>1, <1>2, PTL DEF Spec

\* Every variable keeps its type, for any number of producers and signals.
THEOREM TypeCorrect == Spec => []TypeOK
<1>1. IInv => TypeOK
  BY DEF IInv
<1> QED
  BY <1>1, InductiveInvariant, PTL

\* No two frames ever access _queue in conflict (InputQueue.cpp:34-63): both
\* writers own _queue_mutex, and the unprotected read of is_empty() is made
\* under _block_mutex, which push() owns as well.
THEOREM DataRaceFreedom == Spec => []NoDataRace
<1>1. IInv => NoDataRace
  <2> SUFFICES ASSUME IInv, NEW f \in Frames, NEW g \in Frames, f # g,
                      Writing(f), Touching(g)
               PROVE  FALSE
    BY DEF NoDataRace
  <2>1. /\ queueMutex = f <=> HoldsQueue(f)
        /\ queueMutex = g <=> HoldsQueue(g)
        /\ blockMutex = f <=> HoldsBlock(f)
        /\ blockMutex = g <=> HoldsBlock(g)
    BY DEF IInv, MutexInv
  <2>2. queueMutex = f
    BY <2>1 DEF Writing, HoldsQueue
  <2>3. ~HoldsQueue(g)
    BY <2>1, <2>2
  <2>4. pc[g] = "test"
    BY <2>3 DEF Touching, HoldsQueue
  <2>5. blockMutex = g
    BY <2>1, <2>4 DEF HoldsBlock
  <2>6. pc[f] = "popFront"
    BY <2>1, <2>5 DEF Writing, HoldsBlock
  <2>7. f = Main /\ g = Main
    BY <2>4, <2>6, FramesAssumption
    DEF IInv, TypeOK, Frames, Threads, ProducerPC, SignalPC, PushPC
  <2> QED
    BY <2>7
<1> QED
  BY <1>1, InductiveInvariant, PTL

\* front() and pop() never meet an empty queue, although they run after the
\* mutex of the emptiness test was released.
THEOREM PopIsDefined == Spec => []NoPopOnEmpty
<1>1. IInv => NoPopOnEmpty
  BY DEF IInv
<1> QED
  BY <1>1, InductiveInvariant, PTL

\* Every pushed event is dispatched, in hand or queued, once and in order.
THEOREM FirstInFirstOut == Spec => []NothingLostOrReordered
<1>1. IInv => NothingLostOrReordered
  BY DEF IInv
<1> QED
  BY <1>1, InductiveInvariant, PTL

\* The main thread never sleeps through an event: a push on its way to
\* notify_all() will wake it.
THEOREM WakeupNotLost == Spec => []NoLostWakeup
<1>1. IInv => NoLostWakeup
  BY DEF IInv
<1> QED
  BY <1>1, InductiveInvariant, PTL

-----------------------------------------------------------------------------
(* The order of each producer's events *)

\* The events of one frame are in the queue's history in the order of their
\* numbers, and none has a number that the frame has not issued; the one it is about
\* to append has a new number.
PushOrder ==
    /\ \A i, j \in 1..Len(pushed) :
          (i < j /\ pushed[i].by = pushed[j].by) => pushed[i].n < pushed[j].n
    /\ \A i \in 1..Len(pushed) :
          LET f == pushed[i].by IN
          /\ pushed[i].n <= issued[f]
          /\ pc[f] \in {"pushLockQueue", "pushLockBlock", "append"} =>
                pushed[i].n < issued[f]

\* Every step keeps that order (InputQueue.cpp:34-42).
LEMMA OrderStep ==
    ASSUME TypeOK, TypeOK', PushOrder, [Next]_vars
    PROVE  PushOrder'
<1> USE FramesAssumption, MaxPushesAssumption
<1>1. \A i \in 1..Len(pushed) :
         pushed[i].by \in Pushers /\ pushed[i].n \in Nat
  <2> TAKE i \in 1..Len(pushed)
  <2>1. pushed[i] \in Event
    BY ElementOfSeq DEF TypeOK
  <2> QED
    BY <2>1 DEF Event
<1>2. Len(pushed) \in Nat /\ issued \in [Pushers -> Nat]
  BY LenProperties DEF TypeOK
<1>3. Main \notin Pushers /\ pc \in [Frames -> PC] /\ Pushers \subseteq Frames
  BY DEF TypeOK, Frames, Threads, Pushers
\* A frame that reaches push() has just issued a number.
<1>4. ASSUME NEW f \in Pushers, issued' = [issued EXCEPT ![f] = @ + 1],
             UNCHANGED pushed, Goto(f, "pushLockQueue")
      PROVE  PushOrder'
  BY <1>1, <1>2, <1>3, <1>4 DEF PushOrder, Goto
\* Any other step but the append leaves numbers and history alone, and no frame
\* comes nearer to an append but by a step inside push().
<1>5. ASSUME UNCHANGED <<issued, pushed>>,
             \A f \in Pushers :
                pc'[f] \in {"pushLockQueue", "pushLockBlock", "append"} =>
                   pc[f] \in {"pushLockQueue", "pushLockBlock", "append"}
      PROVE  PushOrder'
  BY <1>1, <1>2, <1>5 DEF PushOrder
<1>6. ASSUME NEW f \in Pushers, PushAppend(f)
      PROVE  PushOrder'
  <2> DEFINE e == [by |-> f, n |-> issued[f]]
  <2>1. /\ pushed' = Append(pushed, e) /\ issued' = issued
        /\ pc[f] = "append" /\ pc' = [pc EXCEPT ![f] = "pushUnlockBlock"]
    BY <1>6 DEF PushAppend, At, Goto
  <2>2. /\ Len(pushed') = Len(pushed) + 1
        /\ \A i \in 1..Len(pushed) : pushed'[i] = pushed[i]
        /\ pushed'[Len(pushed) + 1] = e
        /\ e.by = f /\ e.n = issued[f]
    BY <2>1, <1>2 DEF TypeOK
  <2>3. \A i \in 1..Len(pushed) : pushed[i].by = f => pushed[i].n < issued[f]
    BY <2>1, <1>1 DEF PushOrder
  <2> HIDE DEF e
  <2>4. ASSUME NEW i \in 1..Len(pushed'), NEW j \in 1..Len(pushed'), i < j,
               pushed'[i].by = pushed'[j].by
        PROVE  pushed'[i].n < pushed'[j].n
    <3>1. i \in 1..Len(pushed)
      BY <1>2, <2>2, <2>4
    <3>2. CASE j \in 1..Len(pushed)
      BY <2>2, <2>4, <3>1, <3>2 DEF PushOrder
    <3>3. CASE j = Len(pushed) + 1
      BY <2>2, <2>3, <2>4, <3>1, <3>3
    <3> QED
      BY <1>2, <2>2, <3>2, <3>3
  <2>5. ASSUME NEW i \in 1..Len(pushed')
        PROVE  LET g == pushed'[i].by IN
               /\ pushed'[i].n <= issued'[g]
               /\ pc'[g] \in {"pushLockQueue", "pushLockBlock", "append"} =>
                     pushed'[i].n < issued'[g]
    <3>1. CASE i \in 1..Len(pushed)
      BY <1>1, <1>3, <2>1, <2>2, <3>1 DEF PushOrder
    <3>2. CASE i = Len(pushed) + 1
      BY <1>2, <1>3, <2>1, <2>2, <3>2
    <3> QED
      BY <1>2, <2>2, <3>1, <3>2
  <2> QED
    BY <2>4, <2>5 DEF PushOrder
<1>7. CASE UNCHANGED vars
  BY <1>5, <1>7 DEF vars
<1>8. ASSUME NEW p \in Producers, Submit(p) PROVE PushOrder'
  BY <1>4, <1>8 DEF Submit, Pushers
<1>9. ASSUME NEW f \in Pushers, Push(f) PROVE PushOrder'
  <2>1. CASE PushAppend(f)
    BY <1>6, <2>1
  <2>2. CASE PushLockQueue(f) \/ PushLockBlock(f) \/ PushUnlockBlock(f)
             \/ PushUnlockQueue(f) \/ PushNotify(f)
    BY <1>3, <1>5, <2>2 DEF PushLockQueue, PushLockBlock, PushUnlockBlock,
       PushUnlockQueue, PushNotify, At, Goto
  <2> QED
    BY <1>9, <2>1, <2>2 DEF Push
<1>10. CASE MainStep \/ SpuriousWakeup
  BY <1>3, <1>5, <1>10 DEF MainStep, SpuriousWakeup, CheckStop, PopLockBlock, PopTest,
     PopUnlockBlock, PopLockQueue, PopFront, PopRemove, PopUnlockQueue, Dispatch, Goto
<1>11. ASSUME NEW s \in Signals, NEW t \in SignalTargets, DeliverSignal(s, t)
       PROVE  PushOrder'
  BY <1>3, <1>5, <1>11 DEF DeliverSignal, Goto
<1>12. ASSUME NEW s \in Signals, SetStop(s) PROVE PushOrder'
  BY <1>4, <1>12 DEF SetStop, Pushers
<1>13. CASE Terminated
  BY <1>7, <1>13 DEF Terminated
<1> QED
  BY <1>7, <1>8, <1>9, <1>10, <1>11, <1>12, <1>13 DEF Next

\* run() dispatches the events of each producer in the order in which it issued
\* them, however the pushes of several are interleaved (InputQueue.cpp:34-58).
THEOREM DispatchInIssueOrder == Spec => []IssueOrder
<1>1. Init => PushOrder
  BY DEF Init, PushOrder
<1>2. IInv /\ IInv' /\ PushOrder /\ [Next]_vars => PushOrder'
  BY OrderStep DEF IInv
<1>3. IInv /\ PushOrder => IssueOrder
  <2> SUFFICES ASSUME IInv, PushOrder PROVE IssueOrder
    OBVIOUS
  <2>1. /\ handled \in Seq(Event) /\ InHand \in Seq(Event) /\ queue \in Seq(Event)
        /\ (handled \o InHand) \o queue = pushed
    <3>1. InHand \in Seq(Event)
      BY EmptySeq DEF IInv, TypeOK, EvtInv, InHand
    <3> QED
      BY <3>1 DEF IInv, TypeOK, NothingLostOrReordered
  <2>2. /\ Len(handled) \in Nat /\ Len(InHand) \in Nat /\ Len(queue) \in Nat
        /\ handled \o InHand \in Seq(Event)
        /\ Len(handled \o InHand) = Len(handled) + Len(InHand)
        /\ Len(pushed) = Len(handled \o InHand) + Len(queue)
    BY <2>1, ConcatProperties, LenProperties
  <2>3. ASSUME NEW i \in 1..Len(handled) PROVE i \in 1..Len(pushed) /\ handled[i] = pushed[i]
    <3>1. (handled \o InHand)[i] = handled[i]
      BY <2>1, <2>2, ConcatProperties
    <3>2. pushed[i] = (handled \o InHand)[i]
      <4> DEFINE front == handled \o InHand
      <4>1. front \in Seq(Event) /\ queue \in Seq(Event) /\ pushed = front \o queue
        BY <2>1, <2>2
      <4>2. i \in 1..(Len(front) + Len(queue)) /\ i <= Len(front)
        BY <2>2
      <4> HIDE DEF front
      <4>3. (front \o queue)[i] = front[i]
        BY <4>1, <4>2, ConcatProperties
      <4> QED
        BY <4>1, <4>3 DEF front
    <3> QED
      BY <2>2, <3>1, <3>2
  <2> QED
    BY <2>3 DEF IssueOrder, PushOrder
<1> QED
  BY <1>1, <1>2, <1>3, InductiveInvariant, PTL DEF Spec

-----------------------------------------------------------------------------
(* The queue implements the pipeline *)

\* A handler runs on some thread.  Once it has had both mutexes that thread owns
\* none: it can neither have kept one from the handler nor have taken one since.
HandlerInv ==
    \A s \in Signals :
        /\ Active(s) => on[s] # None
        /\ pc[s] \in {"append", "pushUnlockBlock", "pushUnlockQueue", "notify"} =>
              on[s] \notin {queueMutex, blockMutex}

\* A thread under a handler keeps what it owns and takes nothing.
LEMMA SuspendedKeeps ==
    ASSUME IInv, HandlerInv, [Next]_vars, NEW s \in Signals, Active(s)
    PROVE  /\ on'[s] = on[s]
           /\ queueMutex' = on[s] <=> queueMutex = on[s]
           /\ blockMutex' = on[s] <=> blockMutex = on[s]
<1> USE FramesAssumption
    DEF IInv, TypeOK, MutexInv, HoldsQueue, HoldsBlock, At, Goto, Runs,
        LockQueue, LockBlock, Frames, Threads, Pushers, Active
<1>0. on[s] # None
  BY DEF HandlerInv
<1>1. CASE \E p \in Producers : Submit(p)
  BY <1>1 DEF Submit
<1>2. CASE \E f \in Pushers : Push(f)
  <2>1. PICK f \in Pushers : Push(f)
    BY <1>2
  <2>2. f # on[s]
    BY <2>1 DEF Push, PushLockQueue, PushLockBlock, PushAppend, PushUnlockBlock,
                PushUnlockQueue, PushNotify
  <2>3. CASE PushLockQueue(f)
    BY <1>0, <2>2, <2>3 DEF PushLockQueue
  <2>4. CASE PushLockBlock(f)
    BY <1>0, <2>2, <2>4 DEF PushLockBlock
  <2>5. CASE PushUnlockBlock(f)
    BY <1>0, <2>2, <2>5 DEF PushUnlockBlock
  <2>6. CASE PushUnlockQueue(f)
    BY <1>0, <2>2, <2>6 DEF PushUnlockQueue
  <2>7. CASE PushAppend(f) \/ PushNotify(f)
    BY <2>7 DEF PushAppend, PushNotify
  <2> QED
    BY <2>1, <2>3, <2>4, <2>5, <2>6, <2>7 DEF Push
<1>3. CASE MainStep
  <2>1. on[s] # Main
    BY <1>3 DEF MainStep, CheckStop, PopLockBlock, PopTest, PopUnlockBlock,
                PopLockQueue, PopFront, PopRemove, PopUnlockQueue, Dispatch
  <2>2. CASE CheckStop \/ PopFront \/ PopRemove \/ Dispatch
    BY <2>2 DEF CheckStop, PopFront, PopRemove, Dispatch
  <2>3. CASE PopLockBlock \/ PopTest \/ PopUnlockBlock
    BY <1>0, <2>1, <2>3 DEF PopLockBlock, PopTest, PopUnlockBlock
  <2>4. CASE PopLockQueue \/ PopUnlockQueue
    BY <1>0, <2>1, <2>4 DEF PopLockQueue, PopUnlockQueue
  <2> QED
    BY <1>3, <2>2, <2>3, <2>4 DEF MainStep
<1>4. CASE \E r \in Signals, t \in SignalTargets : DeliverSignal(r, t)
  BY <1>4 DEF DeliverSignal
<1>5. CASE SpuriousWakeup \/ (\E r \in Signals : SetStop(r)) \/ UNCHANGED vars
  BY <1>5 DEF SpuriousWakeup, SetStop, vars
<1> QED
  BY <1>1, <1>2, <1>3, <1>4, <1>5 DEF Next, Terminated

\* The statement a handler goes to next, and when.
LEMMA HandlerStep ==
    ASSUME IInv, [Next]_vars, NEW s \in Signals, pc'[s] # pc[s]
    PROVE  \/ \E t \in SignalTargets : DeliverSignal(s, t)
           \/ SetStop(s)
           \/ Push(s)
<1> USE FramesAssumption DEF IInv, TypeOK, At, Goto, Frames, Threads, Pushers
<1>1. CASE \E p \in Producers : Submit(p)
  BY <1>1 DEF Submit
<1>2. ASSUME NEW f \in Pushers, Push(f)
      PROVE  f = s
  BY <1>2 DEF Push, PushLockQueue, PushLockBlock, PushAppend, PushUnlockBlock,
              PushUnlockQueue, PushNotify
<1>3. CASE MainStep
  BY <1>3 DEF MainStep, CheckStop, PopLockBlock, PopTest, PopUnlockBlock,
              PopLockQueue, PopFront, PopRemove, PopUnlockQueue, Dispatch
<1>4. CASE SpuriousWakeup \/ UNCHANGED vars
  BY <1>4 DEF SpuriousWakeup, vars
<1>5. ASSUME NEW r \in Signals, NEW t \in SignalTargets, DeliverSignal(r, t)
      PROVE  r = s
  BY <1>5 DEF DeliverSignal
<1>6. ASSUME NEW r \in Signals, SetStop(r)
      PROVE  r = s
  BY <1>6 DEF SetStop
<1> QED
  BY <1>1, <1>2, <1>3, <1>4, <1>5, <1>6 DEF Next, Terminated

\* The handlers' invariant is kept.
LEMMA HandlerInvariant == Spec => []HandlerInv
<1>1. Init => HandlerInv
  BY FramesAssumption DEF Init, HandlerInv, Active, Frames, Threads, Pushers
<1>2. IInv /\ HandlerInv /\ [Next]_vars => HandlerInv'
  <2> SUFFICES ASSUME IInv, HandlerInv, [Next]_vars, NEW s \in Signals
               PROVE  /\ Active(s)' => on'[s] # None
                      /\ pc'[s] \in {"append", "pushUnlockBlock",
                                    "pushUnlockQueue", "notify"} =>
                            on'[s] \notin {queueMutex', blockMutex'}
    BY DEF HandlerInv
  <2>1. Active(s)' => on'[s] # None
    <3>1. CASE Active(s)
      BY <3>1, SuspendedKeeps DEF HandlerInv
    <3>2. CASE ~Active(s) /\ Active(s)'
      <4>1. PICK t \in SignalTargets : DeliverSignal(s, t)
        BY <3>2, HandlerStep DEF Active, SetStop, Push, PushLockQueue,
           PushLockBlock, PushAppend, PushUnlockBlock, PushUnlockQueue,
           PushNotify, At
      <4> QED
        BY <4>1, FramesAssumption DEF DeliverSignal, IInv, TypeOK, Frames,
           Threads, Pushers
    <3> QED
      BY <3>1, <3>2
  <2>2. CASE pc[s] \in {"append", "pushUnlockBlock", "pushUnlockQueue", "notify"}
    BY <2>1, <2>2, SuspendedKeeps DEF HandlerInv, Active
  <2>3. ASSUME pc[s] \notin {"append", "pushUnlockBlock", "pushUnlockQueue",
                             "notify"},
               pc'[s] \in {"append", "pushUnlockBlock", "pushUnlockQueue",
                           "notify"}
        PROVE  on'[s] \notin {queueMutex', blockMutex'}
    <3> USE FramesAssumption
        DEF IInv, TypeOK, At, Goto, Frames, Threads, Pushers
    <3>1. PushLockBlock(s)
      BY <2>3, HandlerStep DEF DeliverSignal, SetStop, Push, PushLockQueue,
         PushLockBlock, PushAppend, PushUnlockBlock, PushUnlockQueue, PushNotify
    <3>2. queueMutex' = s /\ blockMutex' = s /\ on'[s] = on[s]
      BY <3>1 DEF PushLockBlock, LockBlock, MutexInv, HoldsQueue
    <3>3. on[s] # s
      OBVIOUS
    <3> QED
      BY <3>2, <3>3
  <2> QED
    BY <2>1, <2>2, <2>3
<1> QED
  BY <1>1, <1>2, InductiveInvariant, PTL DEF Spec

\* Only the delivery of a signal can jam the pipeline, and nothing frees it.
LEMMA JammedStays ==
    ASSUME IInv, HandlerInv, [Next]_vars
    PROVE  /\ OwnerInterrupted => OwnerInterrupted'
           /\ OwnerInterrupted' =>
                 \/ OwnerInterrupted
                 \/ \E s \in Signals, t \in SignalTargets : DeliverSignal(s, t)
<1>1. ASSUME NEW s \in Signals, Active(s), on[s] \in {queueMutex, blockMutex}
      PROVE  OwnerInterrupted'
  <2>1. on'[s] \in {queueMutex', blockMutex'}
    BY <1>1, SuspendedKeeps
  <2>2. pc[s] \notin {"append", "pushUnlockBlock", "pushUnlockQueue", "notify"}
    BY <1>1 DEF HandlerInv
  <2>3. Active(s)'
    <3>1. CASE pc'[s] = pc[s]
      BY <1>1, <3>1 DEF Active
    <3>2. CASE pc'[s] # pc[s]
      BY <1>1, <2>2, <3>2, HandlerStep
      DEF DeliverSignal, SetStop, Push, PushLockQueue, PushLockBlock, PushAppend,
          PushUnlockBlock, PushUnlockQueue, PushNotify, Active, At, Goto, IInv,
          TypeOK, Frames, Pushers
    <3> QED
      BY <3>1, <3>2
  <2> QED
    BY <2>1, <2>3 DEF OwnerInterrupted
<1>2. ASSUME NEW s \in Signals, Active(s)', on'[s] \in {queueMutex', blockMutex'},
             ~(\E t \in SignalTargets : DeliverSignal(s, t))
      PROVE  OwnerInterrupted
  <2>1. Active(s)
    <3>1. CASE pc'[s] = pc[s]
      BY <1>2, <3>1 DEF Active
    <3>2. CASE pc'[s] # pc[s]
      BY <1>2, <3>2, HandlerStep
      DEF SetStop, Push, PushLockQueue, PushLockBlock, PushAppend,
          PushUnlockBlock, PushUnlockQueue, PushNotify, Active, At
    <3> QED
      BY <3>1, <3>2
  <2> QED
    BY <1>2, <2>1, SuspendedKeeps DEF OwnerInterrupted
<1> QED
  BY <1>1, <1>2 DEF OwnerInterrupted

\* What the pipeline sees of a state in which nothing it knows has changed.
LEMMA SameForPipeline ==
    ASSUME InHand' = InHand, queue' = queue, handled' = handled, stop' = stop,
           late' = late, (pc[Main] = "exited")' = (pc[Main] = "exited"),
           OwnerInterrupted' = OwnerInterrupted
    PROVE  UNCHANGED Pipeline!vars
BY DEF Pipeline!vars

\* A push of one event is the pipeline's Submit.
LEMMA AppendIsSubmit ==
    ASSUME IInv, NEW f \in Pushers, PushAppend(f),
           OwnerInterrupted' = OwnerInterrupted
    PROVE  Pipeline!Next
<1> DEFINE event == [by |-> f, n |-> issued[f]]
<1>1. f \in Frames /\ f # Main
  BY FramesAssumption DEF Frames, Threads, Pushers
<1>2. event \in Event
  <2>1. issued[f] \in 0..MaxPushes
    BY DEF IInv, TypeOK
  <2>2. pc[f] = "append"
    BY DEF PushAppend, At
  <2>3. issued[f] # 0
    <3>1. CASE f \in Producers
      BY <2>2, <3>1 DEF IInv, IssuedInv, PushPC
    <3>2. CASE f \in Signals
      BY <2>2, <3>2 DEF IInv, IssuedInv
    <3> QED
      BY <3>1, <3>2 DEF Pushers
  <2> QED
    BY <2>1, <2>3, MaxPushesAssumption DEF Event
<1>3. /\ queue' = Append(queue, event)
      /\ handled' = handled /\ stop' = stop /\ late' = late /\ evt' = evt
      /\ pc'[Main] = pc[Main]
  BY <1>1 DEF PushAppend, Goto, IInv, TypeOK
<1> HIDE DEF event
<1>4. InHand' = InHand /\ InHand \in Seq(Event) /\ queue \in Seq(Event)
  BY <1>3 DEF InHand, IInv, TypeOK, EvtInv
<1>5. InHand \o Append(queue, event) = Append(InHand \o queue, event)
  BY <1>2, <1>4, AppendConcat
<1>6. Pipeline!Submit(event)
  BY <1>3, <1>4, <1>5 DEF Pipeline!Submit
<1> QED
  BY <1>2, <1>6 DEF Pipeline!Next

\* Dispatching the event in hand is the pipeline's Handle.
LEMMA DispatchIsHandle ==
    ASSUME IInv, Dispatch, OwnerInterrupted' = OwnerInterrupted
    PROVE  Pipeline!Next
<1>1. /\ pc[Main] = "dispatch"
      /\ pc'[Main] = "checkStop"
      /\ handled' = Append(handled, evt)
      /\ late' = (late \/ stop)
      /\ stop' = stop /\ queue' = queue
  BY DEF Dispatch, At, Goto, IInv, TypeOK, Frames, Threads
<1>2. evt \in Event /\ queue \in Seq(Event)
  BY <1>1 DEF IInv, TypeOK, EvtInv
<1>3. InHand = <<evt>> /\ InHand' = <<>>
  BY <1>1 DEF InHand
<1> DEFINE p == <<evt>> \o queue
<1>4. p \in Seq(Event) /\ Len(p) = 1 + Len(queue) /\ p[1] = evt
  BY <1>2, ConcatProperties, LenProperties
<1>5. p # <<>> /\ Head(p) = evt
  BY <1>2, <1>4, LenProperties, EmptySeq
<1>6. Tail(p) = queue /\ <<>> \o queue = queue
  <2>1. /\ Tail(p) \in Seq(Event)
        /\ Len(Tail(p)) = Len(queue)
        /\ \A i \in 1..Len(Tail(p)) : Tail(p)[i] = p[i + 1]
    <3> HIDE DEF p
    <3> QED
      BY <1>2, <1>4, <1>5, HeadTailProperties, LenProperties
  <2>2. \A i \in 1..Len(queue) : p[i + 1] = queue[i]
    BY <1>2, ConcatProperties, LenProperties
  <2>3. Tail(p) = queue
    <3> HIDE DEF p
    <3> QED
      BY <1>2, <2>1, <2>2, SeqEqual
  <2> QED
    BY <1>2, <2>3, ConcatEmptySeq
<1>7. ~late
  BY <1>1 DEF IInv, LateInv
<1>8. late' = stop
  BY <1>1, <1>7 DEF IInv, TypeOK
<1>9. ~(pc[Main] = "exited") /\ ~(pc'[Main] = "exited")
  BY <1>1
<1>10. InHand \o queue = p /\ InHand' \o queue' = queue
  BY <1>1, <1>3, <1>6
<1> HIDE DEF p
<1>11. Pipeline!Handle
  BY <1>1, <1>5, <1>6, <1>7, <1>8, <1>9, <1>10 DEF Pipeline!Handle
<1> QED
  BY <1>11 DEF Pipeline!Next

\* Moving the front of the queue into pop()'s hand changes nothing pending.
LEMMA RemoveIsStutter ==
    ASSUME IInv, PopRemove, OwnerInterrupted' = OwnerInterrupted
    PROVE  UNCHANGED Pipeline!vars
<1>1. /\ pc[Main] = "popFront"
      /\ pc'[Main] = "popUnlockQueue"
      /\ queue' = Tail(queue) /\ evt' = evt
      /\ handled' = handled /\ stop' = stop /\ late' = late
  BY DEF PopRemove, At, Goto, IInv, TypeOK, Frames, Threads
<1>2. queue \in Seq(Event) /\ queue # <<>> /\ evt = Head(queue)
  BY <1>1 DEF IInv, TypeOK, NoPopOnEmpty, EvtInv
<1>3. <<Head(queue)>> \o Tail(queue) = queue
  BY <1>2, FrontThenRest
<1>4. InHand = <<>> /\ InHand' = <<Head(queue)>>
  BY <1>1, <1>2 DEF InHand
<1>5. InHand' \o queue' = InHand \o queue
  BY <1>1, <1>2, <1>3, <1>4, ConcatEmptySeq
<1> QED
  BY <1>1, <1>5 DEF Pipeline!vars

\* Every statement is a step of the pipeline, or changes nothing it promises about.
LEMMA StepRefines ==
    IInv /\ HandlerInv /\ [Next]_vars => [Pipeline!Next]_(Pipeline!vars)
<1> SUFFICES ASSUME IInv, HandlerInv, [Next]_vars
             PROVE  Pipeline!Next \/ UNCHANGED Pipeline!vars
  OBVIOUS
<1> USE FramesAssumption
    DEF IInv, TypeOK, At, Goto, Frames, Threads, Pushers, InHand
<1>0. \/ OwnerInterrupted' = OwnerInterrupted
      \/ \E s \in Signals, t \in SignalTargets : DeliverSignal(s, t)
  BY JammedStays DEF OwnerInterrupted
<1>5. ASSUME NEW s \in Signals, NEW t \in SignalTargets, DeliverSignal(s, t)
      PROVE  Pipeline!Next \/ UNCHANGED Pipeline!vars
  <2>1. /\ InHand' = InHand /\ queue' = queue /\ handled' = handled
        /\ stop' = stop /\ late' = late
        /\ (pc[Main] = "exited")' = (pc[Main] = "exited")
    BY <1>5 DEF DeliverSignal
  <2>2. CASE OwnerInterrupted' = OwnerInterrupted
    BY <2>1, <2>2, SameForPipeline
  <2>3. CASE OwnerInterrupted' # OwnerInterrupted
    <3>1. OwnerInterrupted' = TRUE
      BY <2>3, JammedStays DEF OwnerInterrupted
    <3>2. Pipeline!Jam
      BY <2>1, <3>1 DEF Pipeline!Jam
    <3> QED
      BY <3>2 DEF Pipeline!Next
  <2> QED
    BY <2>2, <2>3
<1> SUFFICES ASSUME OwnerInterrupted' = OwnerInterrupted
             PROVE  Pipeline!Next \/ UNCHANGED Pipeline!vars
  BY <1>0, <1>5
<1>1. ASSUME NEW p \in Producers, Submit(p)
      PROVE  UNCHANGED Pipeline!vars
  BY <1>1, SameForPipeline DEF Submit
<1>2. ASSUME NEW f \in Pushers, Push(f)
      PROVE  Pipeline!Next \/ UNCHANGED Pipeline!vars
  <2>1. CASE PushLockQueue(f)
    BY <2>1, SameForPipeline DEF PushLockQueue
  <2>2. CASE PushLockBlock(f)
    BY <2>2, SameForPipeline DEF PushLockBlock
  <2>3. CASE PushAppend(f)
    BY <2>3, AppendIsSubmit
  <2>4. CASE PushUnlockBlock(f)
    BY <2>4, SameForPipeline DEF PushUnlockBlock
  <2>5. CASE PushUnlockQueue(f)
    BY <2>5, SameForPipeline DEF PushUnlockQueue
  <2>6. CASE PushNotify(f)
    BY <2>6, SameForPipeline DEF PushNotify
  <2> QED
    BY <1>2, <2>1, <2>2, <2>3, <2>4, <2>5, <2>6 DEF Push
<1>3. ASSUME MainStep
      PROVE  Pipeline!Next \/ UNCHANGED Pipeline!vars
  <2>1. CASE CheckStop /\ stop
    <3>1. Pipeline!Close
      BY <2>1 DEF CheckStop, Pipeline!Close
    <3> QED
      BY <3>1 DEF Pipeline!Next
  <2>2. CASE CheckStop /\ ~stop
    BY <2>2, SameForPipeline DEF CheckStop
  <2>3. CASE PopLockBlock
    BY <2>3, SameForPipeline DEF PopLockBlock
  <2>4. CASE PopTest
    <3>1. pc[Main] = "test" /\ pc'[Main] \in {"sleep", "popUnlockBlock"}
      BY <2>4 DEF PopTest
    <3> QED
      BY <2>4, <3>1, SameForPipeline DEF PopTest
  <2>5. CASE PopUnlockBlock
    BY <2>5, SameForPipeline DEF PopUnlockBlock
  <2>6. CASE PopLockQueue
    BY <2>6, SameForPipeline DEF PopLockQueue
  <2>7. CASE PopFront
    BY <2>7, SameForPipeline DEF PopFront
  <2>8. CASE PopRemove
    BY <2>8, RemoveIsStutter
  <2>9. CASE PopUnlockQueue
    BY <2>9, SameForPipeline DEF PopUnlockQueue
  <2>10. CASE Dispatch
    BY <2>10, DispatchIsHandle
  <2> QED
    BY <1>3, <2>1, <2>2, <2>3, <2>4, <2>5, <2>6, <2>7, <2>8, <2>9, <2>10
    DEF MainStep
<1>4. ASSUME SpuriousWakeup
      PROVE  UNCHANGED Pipeline!vars
  BY <1>4, SameForPipeline DEF SpuriousWakeup
<1>6. ASSUME NEW s \in Signals, SetStop(s)
      PROVE  Pipeline!Next
  <2>1. Pipeline!RequestStop
    BY <1>6 DEF SetStop, Pipeline!RequestStop
  <2> QED
    BY <2>1 DEF Pipeline!Next
<1>7. ASSUME UNCHANGED vars
      PROVE  UNCHANGED Pipeline!vars
  BY <1>7, SameForPipeline DEF vars
<1> QED
  BY <1>1, <1>2, <1>3, <1>4, <1>5, <1>6, <1>7 DEF Next, Terminated

\* For any number of producers, signals and pushes, and for signals delivered
\* to any thread, the code implements the plain pipeline: events are handled
\* one at a time in the order they were pushed, at most one of them after a
\* stop request, and the loop closes only on such a request.
THEOREM QueueImplementsPipeline == Spec => ImplementsPipeline
<1>1. Init => Pipeline!Init
  <2> SUFFICES ASSUME Init PROVE Pipeline!Init
    OBVIOUS
  <2>1. InHand = <<>> /\ pc[Main] = "checkStop" /\ ~OwnerInterrupted
    BY FramesAssumption DEF Init, InHand, Frames, Threads, Pushers,
       OwnerInterrupted, Active
  <2> QED
    BY <2>1, ConcatEmptySeq, EmptySeq DEF Init, Pipeline!Init
<1>2. IInv /\ HandlerInv /\ [Next]_vars => [Pipeline!Next]_(Pipeline!vars)
  BY StepRefines
<1> QED
  BY <1>1, <1>2, InductiveInvariant, HandlerInvariant, PTL
  DEF Spec, ImplementsPipeline, Pipeline!Spec

=============================================================================
