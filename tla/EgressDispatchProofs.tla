------------------------ MODULE EgressDispatchProofs -------------------------
(***************************************************************************)
(* Proofs about EgressDispatch, for any listeners, messages and queue      *)
(* size.                                                                   *)
(***************************************************************************)
EXTENDS EgressDispatch, SequenceTheorems, TLAPS

\* Every queue size a u16 can hold, zero aside, has a ring: the next power of two.
LEMMA CapacityIsNextPowerOfTwo ==
  Capacity \in Nat /\ Capacity >= MessageQueueSize /\ Capacity < 2 * MessageQueueSize
<1>1. \E c \in PowersOfTwo : c >= MessageQueueSize /\ c < 2 * MessageQueueSize
  <2>1. /\ MessageQueueSize \in Nat
        /\ 1 <= MessageQueueSize
        /\ MessageQueueSize <= 65535
    BY DispatchAssumption
  <2>2. QED
    BY <2>1 DEF PowersOfTwo
<1>2. PowersOfTwo \subseteq Nat
  BY DEF PowersOfTwo
<1>3. QED
  BY <1>1, <1>2 DEF Capacity

\* EgressDispatch's variables always have their types: in particular the
\* receiver's position never passes the end of the log, and no shared-memory
\* message gets past on_receive.
THEOREM DispatchTypeCorrect == Spec => []TypeOK
<1>1. Init => TypeOK
  BY DEF Init, TypeOK, LogEnd
<1>2. TypeOK /\ [Next]_vars => TypeOK'
  <2> SUFFICES ASSUME TypeOK, [Next]_vars
               PROVE  TypeOK'
    OBVIOUS
  <2> USE DEF TypeOK, LogEnd
  <2>1. ASSUME NEW l \in Listeners, RegisterListener(l)
        PROVE  TypeOK'
    BY <2>1 DEF RegisterListener
  <2>2. ASSUME NEW l \in Listeners, UnregisterListener(l)
        PROVE  TypeOK'
    BY <2>2 DEF UnregisterListener
  <2>3. ASSUME NEW l \in Listeners, NEW m \in Messages, BeginReceive(l, m)
        PROVE  TypeOK'
    BY <2>3 DEF BeginReceive
  <2>4. CASE DetachWorker
    BY <2>4 DEF DetachWorker
  <2>5. ASSUME NEW cb \in callbacks, FinishReceive(cb)
        PROVE  TypeOK'
    <3>1. CASE accepted' = accepted
      BY <2>5, <3>1 DEF FinishReceive
    <3>2. CASE cb.msg \notin ShmMessages /\ accepted' = Append(accepted, cb.msg)
      <4>1. cb.msg \in Messages \ ShmMessages
        BY <3>2
      <4>2. /\ accepted' \in Seq(Messages \ ShmMessages)
            /\ Len(accepted') = Len(accepted) + 1
        BY <3>2, <4>1
      <4>3. position' \in 0..Len(accepted')
        BY <2>5, <4>2 DEF FinishReceive
      <4>4. QED
        BY <2>5, <4>2, <4>3 DEF FinishReceive
    <3>3. QED
      BY <2>5, <3>1, <3>2 DEF FinishReceive
  <2>6. CASE RecvMessage
    <3>1. position + 1 \in 1..Len(accepted)
      BY <2>6 DEF RecvMessage
    <3>2. accepted[position + 1] \in Messages \ ShmMessages
      BY <3>1
    <3>3. QED
      BY <2>6, <3>1, <3>2 DEF RecvMessage
  <2>7. CASE FinishSend
    BY <2>7 DEF FinishSend
  <2>8. CASE RecvLagged
    <3>1. /\ position < Oldest
          /\ UNCHANGED <<pooled, unmade, registered, callbacks, arrived, accepted,
                         worker, forwarded, refused>>
          /\ position' = Oldest
      BY <2>8 DEF RecvLagged
    <3>2. Oldest \in 0..Len(accepted)
      <4>1. CASE Len(accepted) > Capacity
        <5>1. Oldest = Len(accepted) - Capacity
          BY <4>1 DEF Oldest
        <5>2. Capacity \in Nat
          BY CapacityIsNextPowerOfTwo
        <5>3. QED
          BY <5>1, <5>2, <4>1
      <4>2. QED
        BY <4>1 DEF Oldest
    <3>3. QED
      BY <3>1, <3>2
  <2>9. CASE RecvClosed
    BY <2>9 DEF RecvClosed
  <2>10. CASE UNCHANGED vars
    BY <2>10 DEF vars
  <2>11. QED
    BY <2>1, <2>2, <2>3, <2>4, <2>5, <2>6, <2>7, <2>8, <2>9, <2>10
       DEF Next, DispatchLoop
<1>3. QED
  BY <1>1, <1>2, PTL DEF Spec

-----------------------------------------------------------------------------
\* What makes a refused send impossible: the loop stops only when no sender is
\* alive, and nothing but a registered listener or a running callback, which are
\* senders themselves, can bring a sender about.
StopInv == StopsWithNothingLeft /\ NoSendIsRefused

\* No sender is refused and no loop has stopped when the worker is created.
LEMMA StopInvInit == Init => StopInv
  BY DEF Init, StopInv, StopsWithNothingLeft, NoSendIsRefused

\* Every step of the callbacks, the pool and the loop keeps the invariant.
LEMMA StopInvNext == TypeOK /\ StopInv /\ [Next]_vars => StopInv'
<1> SUFFICES ASSUME TypeOK, StopInv, [Next]_vars
             PROVE  StopInv'
  OBVIOUS
<1> USE DEF StopInv, StopsWithNothingLeft, NoSendIsRefused, Open, LogEnd
<1>1. ASSUME NEW l \in Listeners, RegisterListener(l)
      PROVE  StopInv'
  \* The pool holds the worker, so the loop has not stopped.
  BY <1>1 DEF RegisterListener
<1>2. ASSUME NEW l \in Listeners, UnregisterListener(l)
      PROVE  StopInv'
  BY <1>2 DEF UnregisterListener
<1>3. ASSUME NEW l \in Listeners, NEW m \in Messages, BeginReceive(l, m)
      PROVE  StopInv'
  \* The listener is registered, so the loop has not stopped.
  BY <1>3 DEF BeginReceive
<1>4. CASE DetachWorker
  BY <1>4 DEF DetachWorker
<1>5. ASSUME NEW cb \in callbacks, FinishReceive(cb)
      PROVE  StopInv'
  <2>1. worker # "stopped"
    BY <1>5
  <2>2. QED
    BY <1>5, <2>1 DEF FinishReceive
<1>6. CASE RecvMessage
  BY <1>6 DEF RecvMessage
<1>7. CASE FinishSend
  BY <1>7 DEF FinishSend
<1>8. CASE RecvLagged
  BY <1>8 DEF RecvLagged
<1>9. CASE RecvClosed
  BY <1>9 DEF RecvClosed
<1>10. CASE UNCHANGED vars
  BY <1>10 DEF vars
<1>11. QED
  BY <1>1, <1>2, <1>3, <1>4, <1>5, <1>6, <1>7, <1>8, <1>9, <1>10
     DEF Next, DispatchLoop

\* on_receive's send never fails, for any listeners, messages and queue size: a
\* worker dropped from the pool keeps receiving while a listener is left.
THEOREM SendsAreNeverRefused == Spec => []NoSendIsRefused
<1>1. StopInv => NoSendIsRefused
  BY DEF StopInv
<1>2. QED
  BY <1>1, StopInvInit, StopInvNext, DispatchTypeCorrect, PTL DEF Spec

\* A dispatch loop that has stopped left no accepted message in its channel and
\* has no sender that could still use it.
THEOREM StoppedWorkersAreDone == Spec => []StopsWithNothingLeft
<1>1. StopInv => StopsWithNothingLeft
  BY DEF StopInv
<1>2. QED
  BY <1>1, StopInvInit, StopInvNext, DispatchTypeCorrect, PTL DEF Spec

-----------------------------------------------------------------------------
(* The ring implements the bounded queue. *)

\* What waits in the queue is what the ring still holds past the position.
Waiting == SubSeq(accepted, ReadFrom + 1, LogEnd)

\* The end of an extended log is the end of the log, extended.
LEMMA SuffixOfAppend ==
  ASSUME NEW S, NEW log \in Seq(S), NEW m \in S, NEW h \in 0..Len(log)
  PROVE  SubSeq(Append(log, m), h + 1, Len(log) + 1)
           = Append(SubSeq(log, h + 1, Len(log)), m)
<1> DEFINE n     == Len(log)
           left  == SubSeq(Append(log, m), h + 1, n + 1)
           end   == SubSeq(log, h + 1, n)
           right == Append(end, m)
<1>1. n \in Nat /\ h \in Nat /\ h <= n
  BY LenProperties
<1>2. /\ Append(log, m) \in Seq(S)
      /\ Len(Append(log, m)) = n + 1
      /\ \A i \in 1..n : Append(log, m)[i] = log[i]
      /\ Append(log, m)[n + 1] = m
  BY AppendProperties
<1>3. \A i \in (h + 1)..(n + 1) : Append(log, m)[i] \in S
  <2> HIDE DEF n
  <2>1. \A i \in (h + 1)..(n + 1) : i \in 1..(n + 1)
    BY <1>1
  <2>2. QED
    BY <1>2, <2>1, ElementOfSeq
<1>4. /\ left \in Seq(S)
      /\ Len(left) = n - h + 1
      /\ \A i \in 1..(n - h + 1) : left[i] = Append(log, m)[h + i]
  <2>1. h + 1 \in Int /\ n + 1 \in Int
    BY <1>1
  <2>2. /\ left \in Seq(S)
        /\ Len(left) = IF h + 1 <= n + 1 THEN n + 1 - (h + 1) + 1 ELSE 0
        /\ \A i \in 1..(n + 1 - (h + 1) + 1) : left[i] = Append(log, m)[(h + 1) + i - 1]
    BY <2>1, <1>3, SubSeqProperties
  <2> HIDE DEF left, n
  <2>3. \A i \in 1..(n - h + 1) : (h + 1) + i - 1 = h + i
    BY <1>1
  <2>4. n + 1 - (h + 1) + 1 = n - h + 1 /\ h + 1 <= n + 1
    BY <1>1
  <2>5. QED
    BY <2>2, <2>3, <2>4
<1>5. /\ end \in Seq(S)
      /\ Len(end) = n - h
      /\ \A i \in 1..(n - h) : end[i] = log[h + i]
  <2>1. h + 1 \in Int /\ n \in Int
    BY <1>1
  <2>2. \A i \in (h + 1)..n : log[i] \in S
    BY <1>1, ElementOfSeq
  <2>3. /\ end \in Seq(S)
        /\ Len(end) = IF h + 1 <= n THEN n - (h + 1) + 1 ELSE 0
        /\ \A i \in 1..(n - (h + 1) + 1) : end[i] = log[(h + 1) + i - 1]
    BY <2>1, <2>2, SubSeqProperties
  <2> HIDE DEF end, n
  <2>4. QED
    BY <2>3, <1>1
<1>6. /\ right \in Seq(S)
      /\ Len(right) = Len(end) + 1
      /\ \A i \in 1..Len(end) : right[i] = end[i]
      /\ right[Len(end) + 1] = m
  <2> HIDE DEF end
  <2>1. QED
    BY <1>5, AppendProperties
<1>7. ASSUME NEW i \in 1..(n - h + 1)
      PROVE  left[i] = right[i]
  <2> HIDE DEF left, end, right, n
  <2>1. CASE i = n - h + 1
    <3>1. h + i = n + 1 /\ i = Len(end) + 1
      BY <2>1, <1>1, <1>5
    <3>2. QED
      BY <3>1, <1>2, <1>4, <1>6
  <2>2. CASE i # n - h + 1
    <3>1. i \in 1..(n - h) /\ h + i \in 1..n
      BY <2>2, <1>1
    <3>2. QED
      BY <3>1, <1>2, <1>4, <1>5, <1>6
  <2>3. QED
    BY <2>1, <2>2
<1>8. Len(left) = Len(right)
  BY <1>1, <1>4, <1>5, <1>6
<1>9. QED
  <2> HIDE DEF left, right
  <2>1. left = right
    BY <1>4, <1>6, <1>7, <1>8, SeqEqual
  <2>2. QED
    BY <2>1 DEF left, right

\* The receiver reads next within the log, and never more than Capacity messages
\* from its end.
LEMMA ReadFromProperties ==
  ASSUME TypeOK
  PROVE  /\ ReadFrom \in 0..LogEnd
         /\ LogEnd - ReadFrom <= Capacity
         /\ position <= ReadFrom
<1>1. /\ LogEnd \in Nat
      /\ position \in 0..LogEnd
  BY DEF TypeOK, LogEnd
<1>2. Capacity \in Nat
  BY CapacityIsNextPowerOfTwo
<1>3. Oldest \in 0..LogEnd /\ LogEnd - Oldest <= Capacity
  BY <1>1, <1>2 DEF Oldest
<1>4. CASE position < Oldest
  BY <1>1, <1>3, <1>4 DEF ReadFrom
<1>5. CASE ~(position < Oldest)
  BY <1>1, <1>2, <1>3, <1>5 DEF ReadFrom
<1>6. QED
  BY <1>4, <1>5

\* As many messages wait as lie between the place to read next and the log's end.
LEMMA WaitingLength ==
  ASSUME TypeOK
  PROVE  Len(Waiting) = LogEnd - ReadFrom
<1>1. ReadFrom \in 0..LogEnd /\ LogEnd \in Nat /\ LogEnd = Len(accepted)
  BY ReadFromProperties DEF TypeOK, LogEnd
<1>2. \A i \in (ReadFrom + 1)..LogEnd : accepted[i] \in Messages
  BY <1>1 DEF TypeOK
<1>3. ReadFrom + 1 \in Int /\ LogEnd \in Int
  BY <1>1
<1>4. Len(Waiting) = IF ReadFrom + 1 <= LogEnd THEN LogEnd - (ReadFrom + 1) + 1 ELSE 0
  BY <1>2, <1>3, SubSeqProperties DEF Waiting
<1>5. QED
  BY <1>1, <1>4

\* An accepted message goes to the end of what waits, and displaces the oldest of
\* it exactly when Capacity messages wait.
LEMMA AppendAccepts ==
  ASSUME TypeOK,
         NEW m \in Messages,
         accepted' = Append(accepted, m),
         position' = position
  PROVE  Waiting' = Append(IF Len(Waiting) = Capacity THEN Tail(Waiting) ELSE Waiting, m)
<1>1. /\ accepted \in Seq(Messages)
      /\ LogEnd = Len(accepted)
      /\ LogEnd \in Nat
      /\ position \in Nat
  BY DEF TypeOK, LogEnd
<1>2. LogEnd' = LogEnd + 1
  BY <1>1, AppendProperties DEF LogEnd
<1>3. Capacity \in Nat /\ Capacity >= 1
  BY CapacityIsNextPowerOfTwo, DispatchAssumption
<1>4. /\ ReadFrom \in 0..LogEnd
      /\ LogEnd - ReadFrom <= Capacity
      /\ position <= ReadFrom
  BY ReadFromProperties
<1>5. Len(Waiting) = LogEnd - ReadFrom
  BY WaitingLength
<1>6. /\ Oldest' = IF LogEnd + 1 > Capacity THEN LogEnd + 1 - Capacity ELSE 0
      /\ ReadFrom' = IF position < Oldest' THEN Oldest' ELSE position
  <2>1. Oldest' = IF LogEnd' > Capacity THEN LogEnd' - Capacity ELSE 0
    BY DEF Oldest, Capacity
  <2>2. ReadFrom' = IF position' < Oldest' THEN Oldest' ELSE position'
    BY DEF ReadFrom
  <2>3. QED
    BY <1>1, <1>2, <1>3, <2>1, <2>2
\* A full ring loses its oldest message, which was the next to be read.
<1>7. CASE Len(Waiting) = Capacity
  <2>1. ReadFrom' = ReadFrom + 1
    BY <1>1, <1>3, <1>4, <1>5, <1>6, <1>7
  <2>2. ReadFrom + 1 \in 1..Len(accepted) /\ Len(accepted) \in (ReadFrom + 1)..Len(accepted)
    BY <1>1, <1>3, <1>4, <1>5, <1>7
  <2>3. Tail(Waiting) = SubSeq(accepted, (ReadFrom + 1) + 1, Len(accepted))
    BY <1>1, <2>2, HeadTailOfSubSeq DEF Waiting
  <2>4. ReadFrom + 1 \in 0..Len(accepted)
    BY <2>2
  <2>5. SubSeq(Append(accepted, m), (ReadFrom + 1) + 1, Len(accepted) + 1)
          = Append(SubSeq(accepted, (ReadFrom + 1) + 1, Len(accepted)), m)
    BY <1>1, <2>4, SuffixOfAppend
  <2>6. QED
    BY <1>1, <1>2, <1>7, <2>1, <2>3, <2>5 DEF Waiting
\* Otherwise the ring loses nothing that waits.
<1>8. CASE Len(Waiting) # Capacity
  <2>1. ReadFrom' = ReadFrom
    <3>1. LogEnd - ReadFrom < Capacity
      BY <1>1, <1>3, <1>4, <1>5, <1>8
    <3>2. CASE position < Oldest
      <4>1. ReadFrom = Oldest /\ Oldest = IF LogEnd > Capacity THEN LogEnd - Capacity ELSE 0
        BY <3>2 DEF ReadFrom, Oldest
      <4>2. QED
        BY <1>1, <1>3, <3>1, <3>2, <4>1
    <3>3. CASE ~(position < Oldest)
      <4>1. ReadFrom = position
        BY <3>3 DEF ReadFrom
      <4>2. ~(position < Oldest')
        BY <1>1, <1>3, <1>6, <3>1, <4>1
      <4>3. QED
        BY <1>6, <4>1, <4>2
    <3>4. QED
      BY <3>2, <3>3
  <2>2. ReadFrom \in 0..Len(accepted)
    BY <1>1, <1>4
  <2>3. SubSeq(Append(accepted, m), ReadFrom + 1, Len(accepted) + 1)
          = Append(SubSeq(accepted, ReadFrom + 1, Len(accepted)), m)
    BY <1>1, <2>2, SuffixOfAppend
  <2>4. QED
    BY <1>1, <1>2, <1>8, <2>1, <2>3 DEF Waiting
<1>9. QED
  BY <1>7, <1>8

\* The receiver takes the head of what waits.
LEMMA RecvTakesHead ==
  ASSUME TypeOK, RecvMessage
  PROVE  /\ Waiting # << >>
         /\ accepted[position + 1] = Head(Waiting)
         /\ Waiting' = Tail(Waiting)
<1>1. /\ accepted \in Seq(Messages)
      /\ LogEnd = Len(accepted)
      /\ LogEnd \in Nat
      /\ position \in 0..LogEnd
      /\ position < LogEnd
      /\ position >= Oldest
      /\ position' = position + 1
      /\ accepted' = accepted
  BY DEF TypeOK, LogEnd, RecvMessage
<1>2. /\ LogEnd' = LogEnd
      /\ Oldest' = Oldest
  BY <1>1 DEF LogEnd, Oldest
<1>3. Oldest \in Nat
  BY <1>1, CapacityIsNextPowerOfTwo DEF Oldest
<1>4. ReadFrom = position /\ ReadFrom' = position + 1
  BY <1>1, <1>2, <1>3 DEF ReadFrom
<1>5. position + 1 \in 1..Len(accepted) /\ Len(accepted) \in (position + 1)..Len(accepted)
  BY <1>1
<1>6. /\ Head(Waiting) = accepted[position + 1]
      /\ Tail(Waiting) = SubSeq(accepted, position + 1 + 1, Len(accepted))
  BY <1>1, <1>4, <1>5, HeadTailOfSubSeq DEF Waiting
<1>7. Waiting # << >>
  <2>1. Len(Waiting) # 0
    BY <1>1, <1>4, WaitingLength
  <2>2. QED
    BY <2>1
<1>8. QED
  BY <1>1, <1>2, <1>4, <1>6, <1>7 DEF Waiting

\* Every step of EgressDispatch is a step of the queue or leaves it as it is.
LEMMA StepIsQueueStep ==
  TypeOK /\ StopInv /\ [Next]_vars
    => [Queue!Next]_<<Waiting, forwarded, IF worker = "stopped" THEN "stopped" ELSE "open">>
<1> DEFINE State == IF worker = "stopped" THEN "stopped" ELSE "open"
           Same == UNCHANGED <<Waiting, forwarded, State>>
<1> SUFFICES ASSUME TypeOK, StopInv, [Next]_vars
             PROVE  Queue!Next \/ Same
  OBVIOUS
<1>0. ASSUME UNCHANGED <<accepted, position, forwarded, worker>>
      PROVE  Same
  BY <1>0 DEF Waiting, ReadFrom, Oldest, LogEnd
<1>1. ASSUME NEW l \in Listeners, RegisterListener(l)
      PROVE  Same
  BY <1>0, <1>1 DEF RegisterListener
<1>2. ASSUME NEW l \in Listeners, UnregisterListener(l)
      PROVE  Same
  BY <1>0, <1>2 DEF UnregisterListener
<1>3. ASSUME NEW l \in Listeners, NEW m \in Messages, BeginReceive(l, m)
      PROVE  Same
  BY <1>0, <1>3 DEF BeginReceive
<1>4. CASE DetachWorker
  BY <1>0, <1>4 DEF DetachWorker
<1>5. ASSUME NEW cb \in callbacks, FinishReceive(cb)
      PROVE  Queue!Next \/ Same
  <2>1. cb.msg \in Messages
    BY DEF TypeOK
  \* The callback itself keeps a sender alive, so the loop has not stopped.
  <2>2. worker # "stopped"
    BY <1>5 DEF StopInv, StopsWithNothingLeft, Open
  <2>3. UNCHANGED <<position, worker, forwarded>>
    BY <1>5 DEF FinishReceive
  <2>4. CASE accepted' = Append(accepted, cb.msg)
    <3>1. Waiting' = Append(IF Len(Waiting) = Capacity THEN Tail(Waiting) ELSE Waiting, cb.msg)
      BY <2>1, <2>3, <2>4, AppendAccepts
    <3>2. Queue!Accept(cb.msg)
      BY <2>2, <2>3, <3>1 DEF Queue!Accept, Waiting
    <3>3. QED
      BY <2>1, <3>2 DEF Queue!Next
  <2>5. CASE accepted' = accepted
    BY <2>3, <2>5, <1>0
  <2>6. QED
    BY <1>5, <2>4, <2>5 DEF FinishReceive
<1>6. CASE RecvMessage
  <2>1. /\ Waiting # << >>
        /\ accepted[position + 1] = Head(Waiting)
        /\ Waiting' = Tail(Waiting)
    BY <1>6, RecvTakesHead
  <2>2. /\ forwarded' = Append(forwarded, accepted[position + 1])
        /\ State' = State
    BY <1>6 DEF RecvMessage
  <2>3. Queue!Forward
    BY <2>1, <2>2 DEF Queue!Forward, Waiting
  <2>4. QED
    BY <2>3 DEF Queue!Next
<1>7. CASE FinishSend
  BY <1>7 DEF FinishSend, Waiting, ReadFrom, Oldest, LogEnd
\* A receiver that learns of a lag loses nothing that was still waiting.
<1>8. CASE RecvLagged
  <2>1. /\ UNCHANGED <<accepted, forwarded, worker>>
        /\ position < Oldest
        /\ position' = Oldest
    BY <1>8 DEF RecvLagged
  <2>2. LogEnd' = LogEnd /\ Oldest' = Oldest
    BY <2>1 DEF LogEnd, Oldest
  <2>3. ReadFrom' = ReadFrom
    BY <2>1, <2>2 DEF ReadFrom
  <2>4. QED
    BY <2>1, <2>2, <2>3 DEF Waiting
<1>9. CASE RecvClosed
  <2>1. /\ UNCHANGED <<accepted, position, forwarded>>
        /\ worker = "receiving" /\ worker' = "stopped"
        /\ position = LogEnd
    BY <1>9 DEF RecvClosed
  <2>2. Waiting' = Waiting
    BY <2>1 DEF Waiting, ReadFrom, Oldest, LogEnd
  <2>3. Waiting = << >>
    <3>1. ReadFrom \in 0..LogEnd /\ position <= ReadFrom /\ LogEnd \in Nat
      BY ReadFromProperties DEF TypeOK, LogEnd
    <3>2. ReadFrom = LogEnd
      BY <2>1, <3>1
    <3>3. QED
      BY <3>1, <3>2, SubSeqEmpty DEF Waiting
  <2>4. Queue!Stop
    BY <2>1, <2>2, <2>3 DEF Queue!Stop, Waiting
  <2>5. QED
    BY <2>4 DEF Queue!Next
<1>10. CASE UNCHANGED vars
  BY <1>0, <1>10 DEF vars
<1>11. QED
  BY <1>1, <1>2, <1>3, <1>4, <1>5, <1>6, <1>7, <1>8, <1>9, <1>10
     DEF Next, DispatchLoop

\* The broadcast ring with its positions and Lagged implements the bounded queue,
\* for every queue size: messages leave in the order in which on_receive sent
\* them, at most once each, and one is lost only to make room in a full ring.
THEOREM ImplementsQueueSafety == Spec => Queue!Safety
<1>1. Init => Queue!Init
  BY SubSeqEmpty DEF Init, Queue!Init, ReadFrom, Oldest, LogEnd
<1>2. TypeOK /\ StopInv /\ [Next]_vars
        => [Queue!Next]_<<SubSeq(accepted, ReadFrom + 1, LogEnd), forwarded,
                          IF worker = "stopped" THEN "stopped" ELSE "open">>
  BY StepIsQueueStep DEF Waiting
<1>3. QED
  BY <1>1, <1>2, DispatchTypeCorrect, StopInvInit, StopInvNext, PTL
     DEF Spec, Queue!Safety

=============================================================================
