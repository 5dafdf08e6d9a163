-------------------------- MODULE PacketQueueProofs --------------------------
(***************************************************************************)
(* Proofs about PacketQueue for any finite sets of producers and consumers *)
(* and any max_size_.                                                      *)
(***************************************************************************)
EXTENDS PacketQueue, SequenceTheorems, FiniteSetTheorems, TLAPS

(* Every step is one of the actions below, taken by one thread. *)
LEMMA NextCases ==
    ASSUME [Next]_vars,
           NEW G,
           \A p \in Producers : PushCall(p) => G,
           \A p \in Producers : PushLock(p) => G,
           \A p \in Producers : PushSleep(p) => G,
           \A p \in Producers : PushRefused(p) => G,
           \A p \in Producers : PushFrame(p) => G,
           \A p \in Producers : PushUnlock(p) => G,
           \A p \in Producers : PushNotify(p) => G,
           \A c \in Consumers : PopCall(c) => G,
           \A c \in Consumers : PopLock(c) => G,
           \A c \in Consumers : PopSleep(c) => G,
           \A c \in Consumers : PopFrame(c) => G,
           \A c \in Consumers : PopFalse(c) => G,
           \A c \in Consumers : PopUnlock(c) => G,
           \A c \in Consumers : PopNotify(c) => G,
           CloseCall => G, CloseLock => G, CloseSet => G, CloseUnlock => G,
           CloseNotifyNotEmpty => G, CloseNotifyNotFull => G,
           \A t \in Producers \cup Consumers : SpuriousWakeup(t) => G,
           UNCHANGED vars => G
    PROVE  G
  BY DEF Next, PushStep, PopStep, CloseStep, Terminated

(* The frame of a push() in progress is a frame. *)
LEMMA OfferedFrame ==
    ASSUME TypeOK, NEW p \in Producers, pc[p] = "push_wait"
    PROVE  <<p, calls[p]>> \in Frames
<1>1. calls[p] \in 0 .. MaxPushes
  BY DEF TypeOK
<1>2. calls[p] > 0
  BY DEF TypeOK
<1>3. QED
  BY <1>1, <1>2, ConstantsAssumption DEF Frames

(* TypeOK holds of every reachable state. *)
THEOREM TypeCorrect == Spec => []TypeOK
<1>1. Init => TypeOK
  <2> SUFFICES ASSUME Init PROVE TypeOK
    OBVIOUS
  <2>1. queue_ \in Seq(Frames) /\ Len(queue_) <= MaxSize
    BY ConstantsAssumption DEF Init
  <2>2. pc \in [Threads -> PushPoints \cup PopPoints \cup ClosePoints]
    BY DEF Init, PushPoints
  <2>3. /\ \A t \in Threads : pc[t] = "idle"
        /\ calls \in [Producers -> 0 .. MaxPushes]
    BY ConstantsAssumption DEF Init
  <2>4. QED
    BY <2>1, <2>2, <2>3 DEF Init, TypeOK, Threads, PushPoints, PopPoints, ClosePoints
<1>2. TypeOK /\ [Next]_vars => TypeOK'
  <2> SUFFICES ASSUME TypeOK, [Next]_vars PROVE TypeOK'
    OBVIOUS
  <2> USE ConstantsAssumption DEF TypeOK, Threads, PushPoints, PopPoints, ClosePoints, Goto
  <2>1. ASSUME NEW p \in Producers, PushCall(p) PROVE TypeOK'
    BY <2>1 DEF PushCall
  <2>2. ASSUME NEW p \in Producers, PushLock(p) PROVE TypeOK'
    BY <2>2 DEF PushLock, Lock
  <2>3. ASSUME NEW p \in Producers, PushSleep(p) PROVE TypeOK'
    BY <2>3 DEF PushSleep, Sleep, Unlock
  <2>4. ASSUME NEW p \in Producers, PushRefused(p) PROVE TypeOK'
    BY <2>4 DEF PushRefused, Unlock
  <2>5. ASSUME NEW p \in Producers, PushFrame(p) PROVE TypeOK'
    <3>1. <<p, calls[p]>> \in Frames
      BY <2>5, OfferedFrame DEF PushFrame
    <3>2. QED
      BY <2>5, <3>1 DEF PushFrame, HasRoom
  <2>6. ASSUME NEW p \in Producers, PushUnlock(p) PROVE TypeOK'
    BY <2>6 DEF PushUnlock, Unlock
  <2>7. ASSUME NEW p \in Producers, PushNotify(p) PROVE TypeOK'
    BY <2>7 DEF PushNotify, NotifyOne, not_empty_
  <2>8. ASSUME NEW c \in Consumers, PopCall(c) PROVE TypeOK'
    BY <2>8 DEF PopCall
  <2>9. ASSUME NEW c \in Consumers, PopLock(c) PROVE TypeOK'
    BY <2>9 DEF PopLock, Lock
  <2>10. ASSUME NEW c \in Consumers, PopSleep(c) PROVE TypeOK'
    BY <2>10 DEF PopSleep, Sleep, Unlock
  <2>11. ASSUME NEW c \in Consumers, PopFrame(c) PROVE TypeOK'
    BY <2>11 DEF PopFrame
  <2>12. ASSUME NEW c \in Consumers, PopFalse(c) PROVE TypeOK'
    BY <2>12 DEF PopFalse, Unlock
  <2>13. ASSUME NEW c \in Consumers, PopUnlock(c) PROVE TypeOK'
    BY <2>13 DEF PopUnlock, Unlock
  <2>14. ASSUME NEW c \in Consumers, PopNotify(c) PROVE TypeOK'
    BY <2>14 DEF PopNotify, NotifyOne, not_full_
  <2>15. CloseCall => TypeOK'
    BY DEF CloseCall
  <2>16. CloseLock => TypeOK'
    BY DEF CloseLock, Lock
  <2>17. CloseSet => TypeOK'
    BY DEF CloseSet
  <2>18. CloseUnlock => TypeOK'
    BY DEF CloseUnlock, Unlock
  <2>19. CloseNotifyNotEmpty => TypeOK'
    BY DEF CloseNotifyNotEmpty, NotifyAll, not_empty_
  <2>20. CloseNotifyNotFull => TypeOK'
    BY DEF CloseNotifyNotFull, NotifyAll, not_full_
  <2>21. ASSUME NEW t \in Producers \cup Consumers, SpuriousWakeup(t) PROVE TypeOK'
    BY <2>21 DEF SpuriousWakeup
  <2>22. UNCHANGED vars => TypeOK'
    BY DEF vars
  <2>23. QED
    BY <2>1, <2>2, <2>3, <2>4, <2>5, <2>6, <2>7, <2>8, <2>9, <2>10, <2>11, <2>12, <2>13,
       <2>14, <2>15, <2>16, <2>17, <2>18, <2>19, <2>20, <2>21, <2>22, NextCases
<1>3. QED
  BY <1>1, <1>2, PTL DEF Spec

-----------------------------------------------------------------------------
(* Mutual exclusion *)

(* mutex_ is held exactly by the thread between its lock and its unlock. *)
THEOREM MutexCorrect == Spec => []MutualExclusion
<1>1. Init => MutualExclusion
  BY ConstantsAssumption DEF Init, MutualExclusion, Threads, Holding
<1>2. TypeOK /\ MutualExclusion /\ [Next]_vars => MutualExclusion'
  <2> SUFFICES ASSUME TypeOK, MutualExclusion, [Next]_vars PROVE MutualExclusion'
    OBVIOUS
  <2> USE ConstantsAssumption DEF MutualExclusion, Holding, Threads, Goto
  <2>0. pc \in [Threads -> PushPoints \cup PopPoints \cup ClosePoints]
    BY DEF TypeOK
  <2>1. ASSUME NEW p \in Producers, PushCall(p) PROVE MutualExclusion'
    BY <2>0, <2>1 DEF PushCall
  <2>2. ASSUME NEW p \in Producers, PushLock(p) PROVE MutualExclusion'
    BY <2>0, <2>2 DEF PushLock, Lock
  <2>3. ASSUME NEW p \in Producers, PushSleep(p) PROVE MutualExclusion'
    BY <2>0, <2>3 DEF PushSleep, Sleep, Unlock
  <2>4. ASSUME NEW p \in Producers, PushRefused(p) PROVE MutualExclusion'
    BY <2>0, <2>4 DEF PushRefused, Unlock
  <2>5. ASSUME NEW p \in Producers, PushFrame(p) PROVE MutualExclusion'
    BY <2>0, <2>5 DEF PushFrame
  <2>6. ASSUME NEW p \in Producers, PushUnlock(p) PROVE MutualExclusion'
    BY <2>0, <2>6 DEF PushUnlock, Unlock
  <2>7. ASSUME NEW p \in Producers, PushNotify(p) PROVE MutualExclusion'
    BY <2>0, <2>7 DEF PushNotify, NotifyOne, not_empty_
  <2>8. ASSUME NEW c \in Consumers, PopCall(c) PROVE MutualExclusion'
    BY <2>0, <2>8 DEF PopCall
  <2>9. ASSUME NEW c \in Consumers, PopLock(c) PROVE MutualExclusion'
    BY <2>0, <2>9 DEF PopLock, Lock
  <2>10. ASSUME NEW c \in Consumers, PopSleep(c) PROVE MutualExclusion'
    BY <2>0, <2>10 DEF PopSleep, Sleep, Unlock
  <2>11. ASSUME NEW c \in Consumers, PopFrame(c) PROVE MutualExclusion'
    BY <2>0, <2>11 DEF PopFrame
  <2>12. ASSUME NEW c \in Consumers, PopFalse(c) PROVE MutualExclusion'
    BY <2>0, <2>12 DEF PopFalse, Unlock
  <2>13. ASSUME NEW c \in Consumers, PopUnlock(c) PROVE MutualExclusion'
    BY <2>0, <2>13 DEF PopUnlock, Unlock
  <2>14. ASSUME NEW c \in Consumers, PopNotify(c) PROVE MutualExclusion'
    BY <2>0, <2>14 DEF PopNotify, NotifyOne, not_full_
  <2>15. CloseCall => MutualExclusion'
    BY <2>0 DEF CloseCall
  <2>16. CloseLock => MutualExclusion'
    BY <2>0 DEF CloseLock, Lock
  <2>17. CloseSet => MutualExclusion'
    BY <2>0 DEF CloseSet
  <2>18. CloseUnlock => MutualExclusion'
    BY <2>0 DEF CloseUnlock, Unlock
  <2>19. CloseNotifyNotEmpty => MutualExclusion'
    BY <2>0 DEF CloseNotifyNotEmpty, NotifyAll, not_empty_
  <2>20. CloseNotifyNotFull => MutualExclusion'
    BY <2>0 DEF CloseNotifyNotFull, NotifyAll, not_full_
  <2>21. ASSUME NEW t \in Producers \cup Consumers, SpuriousWakeup(t) PROVE MutualExclusion'
    BY <2>0, <2>21 DEF SpuriousWakeup
  <2>22. UNCHANGED vars => MutualExclusion'
    BY DEF vars
  <2>23. QED
    BY <2>1, <2>2, <2>3, <2>4, <2>5, <2>6, <2>7, <2>8, <2>9, <2>10, <2>11, <2>12, <2>13,
       <2>14, <2>15, <2>16, <2>17, <2>18, <2>19, <2>20, <2>21, <2>22, NextCases
<1>3. QED
  BY <1>1, <1>2, TypeCorrect, PTL DEF Spec

-----------------------------------------------------------------------------
(* First in, first out *)

(* Only PushFrame and PopFrame touch the queue and the two histories. *)
LEMMA QueueSteps ==
    ASSUME [Next]_vars
    PROVE  \/ \E p \in Producers : PushFrame(p)
           \/ \E c \in Consumers : PopFrame(c)
           \/ UNCHANGED <<queue_, pushed, popped>>
  BY DEF Next, PushStep, PopStep, CloseStep, Terminated, vars, PushCall, PushLock,
         PushSleep,
         PushRefused, PushUnlock, PushNotify, PopCall, PopLock, PopSleep, PopFalse,
                PopUnlock,
         PopNotify, CloseCall, CloseLock, CloseSet, CloseUnlock, CloseNotifyNotEmpty,
         CloseNotifyNotFull, SpuriousWakeup, Lock, Unlock, Sleep, NotifyOne, NotifyAll

(* The head of the second part of a concatenation may move to the first part. *)
LEMMA MoveHead ==
    ASSUME NEW S, NEW s \in Seq(S), NEW t \in Seq(S), t # <<>>
    PROVE  s \o t = Append(s, Head(t)) \o Tail(t)
<1>1. /\ Head(t) \in S
      /\ Tail(t) \in Seq(S)
      /\ Len(Tail(t)) = Len(t) - 1
      /\ \A i \in 1 .. Len(Tail(t)) : Tail(t)[i] = t[i + 1]
  BY HeadTailProperties
<1>2. t = <<Head(t)>> \o Tail(t)
  BY <1>1, SMTT(30)
<1>3. <<Head(t)>> \in Seq(S)
  BY <1>1
<1>4. Append(s, Head(t)) = s \o <<Head(t)>>
  BY <1>1, AppendIsConcat
<1>5. (s \o <<Head(t)>>) \o Tail(t) = s \o (<<Head(t)>> \o Tail(t))
  BY <1>1, <1>3, ConcatAssociative
<1>6. QED
  BY <1>2, <1>4, <1>5

(* Frames leave in the order in which they entered, none lost or repeated. *)
THEOREM FifoCorrect == Spec => []Fifo
<1>1. Init => Fifo
  BY ConcatEmptySeq DEF Init, Fifo
<1>2. TypeOK /\ TypeOK' /\ Fifo /\ [Next]_vars => Fifo'
  <2> SUFFICES ASSUME TypeOK, TypeOK', Fifo, [Next]_vars PROVE Fifo'
    OBVIOUS
  <2>0. queue_ \in Seq(Frames) /\ pushed \in Seq(Frames) /\ popped \in Seq(Frames)
    BY DEF TypeOK
  <2>1. ASSUME NEW p \in Producers, PushFrame(p) PROVE Fifo'
    <3>1. <<p, calls[p]>> \in Frames
      BY <2>1, OfferedFrame DEF PushFrame
    <3>2. PICK f \in Frames : f = <<p, calls[p]>>
      BY <3>1
    <3>3. popped \o queue_ \in Seq(Frames) /\ <<f>> \in Seq(Frames)
      BY <2>0, ConcatProperties
    <3>4. /\ Append(popped \o queue_, f) = (popped \o queue_) \o <<f>>
          /\ Append(queue_, f) = queue_ \o <<f>>
      BY <2>0, <3>3, AppendIsConcat
    <3>5. Append(popped \o queue_, f) = popped \o Append(queue_, f)
      BY <2>0, <3>3, <3>4, ConcatAssociative
    <3>6. QED
      BY <2>1, <3>2, <3>5 DEF Fifo, PushFrame
  <2>2. ASSUME NEW c \in Consumers, PopFrame(c) PROVE Fifo'
    <3>1. popped \o queue_ = Append(popped, Head(queue_)) \o Tail(queue_)
      BY <2>0, <2>2, MoveHead DEF PopFrame
    <3>2. QED
      BY <2>2, <3>1 DEF Fifo, PopFrame
  <2>3. CASE UNCHANGED <<queue_, pushed, popped>>
    BY <2>3 DEF Fifo
  <2>4. QED
    BY <2>1, <2>2, <2>3, QueueSteps
<1>3. QED
  BY <1>1, <1>2, TypeCorrect, PTL DEF Spec

-----------------------------------------------------------------------------
(* Closing *)

(* Once closed, a thread sleeps only until close() reaches its notify_all(). *)
THEOREM CloseWakesSleepersCorrect == Spec => []CloseWakesSleepers
<1>1. Init => CloseWakesSleepers
  BY DEF Init, CloseWakesSleepers
<1>2. TypeOK /\ CloseWakesSleepers /\ [Next]_vars => CloseWakesSleepers'
  <2> SUFFICES ASSUME TypeOK, CloseWakesSleepers, [Next]_vars PROVE CloseWakesSleepers'
    OBVIOUS
  <2> USE ConstantsAssumption DEF CloseWakesSleepers, Threads, Goto, not_empty_, not_full_
  <2>0. pc \in [Threads -> PushPoints \cup PopPoints \cup ClosePoints]
    BY DEF TypeOK
  <2>1. ASSUME NEW p \in Producers, PushCall(p) PROVE CloseWakesSleepers'
    BY <2>0, <2>1 DEF PushCall
  <2>2. ASSUME NEW p \in Producers, PushLock(p) PROVE CloseWakesSleepers'
    BY <2>0, <2>2 DEF PushLock, Lock
  <2>3. ASSUME NEW p \in Producers, PushSleep(p) PROVE CloseWakesSleepers'
    BY <2>0, <2>3 DEF PushSleep, Sleep, Unlock
  <2>4. ASSUME NEW p \in Producers, PushRefused(p) PROVE CloseWakesSleepers'
    BY <2>0, <2>4 DEF PushRefused, Unlock
  <2>5. ASSUME NEW p \in Producers, PushFrame(p) PROVE CloseWakesSleepers'
    BY <2>0, <2>5 DEF PushFrame
  <2>6. ASSUME NEW p \in Producers, PushUnlock(p) PROVE CloseWakesSleepers'
    BY <2>0, <2>6 DEF PushUnlock, Unlock
  <2>7. ASSUME NEW p \in Producers, PushNotify(p) PROVE CloseWakesSleepers'
    BY <2>0, <2>7 DEF PushNotify, NotifyOne
  <2>8. ASSUME NEW c \in Consumers, PopCall(c) PROVE CloseWakesSleepers'
    BY <2>0, <2>8 DEF PopCall
  <2>9. ASSUME NEW c \in Consumers, PopLock(c) PROVE CloseWakesSleepers'
    BY <2>0, <2>9 DEF PopLock, Lock
  <2>10. ASSUME NEW c \in Consumers, PopSleep(c) PROVE CloseWakesSleepers'
    BY <2>0, <2>10 DEF PopSleep, Sleep, Unlock
  <2>11. ASSUME NEW c \in Consumers, PopFrame(c) PROVE CloseWakesSleepers'
    BY <2>0, <2>11 DEF PopFrame
  <2>12. ASSUME NEW c \in Consumers, PopFalse(c) PROVE CloseWakesSleepers'
    BY <2>0, <2>12 DEF PopFalse, Unlock
  <2>13. ASSUME NEW c \in Consumers, PopUnlock(c) PROVE CloseWakesSleepers'
    BY <2>0, <2>13 DEF PopUnlock, Unlock
  <2>14. ASSUME NEW c \in Consumers, PopNotify(c) PROVE CloseWakesSleepers'
    BY <2>0, <2>14 DEF PopNotify, NotifyOne
  <2>15. CloseCall => CloseWakesSleepers'
    BY <2>0 DEF CloseCall
  <2>16. CloseLock => CloseWakesSleepers'
    BY <2>0 DEF CloseLock, Lock
  <2>17. CloseSet => CloseWakesSleepers'
    BY <2>0 DEF CloseSet
  <2>18. CloseUnlock => CloseWakesSleepers'
    BY <2>0 DEF CloseUnlock, Unlock
  <2>19. CloseNotifyNotEmpty => CloseWakesSleepers'
    BY <2>0 DEF CloseNotifyNotEmpty, NotifyAll
  <2>20. CloseNotifyNotFull => CloseWakesSleepers'
    BY <2>0 DEF CloseNotifyNotFull, NotifyAll
  <2>21. ASSUME NEW t \in Producers \cup Consumers,
         SpuriousWakeup(t) PROVE CloseWakesSleepers'
    BY <2>0, <2>21 DEF SpuriousWakeup
  <2>22. UNCHANGED vars => CloseWakesSleepers'
    BY DEF vars
  <2>23. QED
    BY <2>1, <2>2, <2>3, <2>4, <2>5, <2>6, <2>7, <2>8, <2>9, <2>10, <2>11, <2>12, <2>13,
       <2>14, <2>15, <2>16, <2>17, <2>18, <2>19, <2>20, <2>21, <2>22, NextCases
<1>3. QED
  BY <1>1, <1>2, TypeCorrect, PTL DEF Spec

(* The inductive form of EndMeansDrained. *)
Drained == (\E c \in Consumers : pc[c] = "done") => closed_ /\ queue_ = <<>>

(* When pop() has returned false, every accepted frame was handed out. *)
THEOREM EndMeansDrainedCorrect == Spec => []EndMeansDrained
<1>1. Init => Drained
  BY DEF Init, Drained, Threads
<1>2. TypeOK /\ Drained /\ [Next]_vars => Drained'
  <2> SUFFICES ASSUME TypeOK, Drained, [Next]_vars PROVE Drained'
    OBVIOUS
  <2> USE ConstantsAssumption DEF Drained, Threads, Goto, not_empty_, not_full_
  <2>0. pc \in [Threads -> PushPoints \cup PopPoints \cup ClosePoints]
    BY DEF TypeOK
  <2>1. ASSUME NEW p \in Producers, PushCall(p) PROVE Drained'
    BY <2>0, <2>1 DEF PushCall
  <2>2. ASSUME NEW p \in Producers, PushLock(p) PROVE Drained'
    BY <2>0, <2>2 DEF PushLock, Lock
  <2>3. ASSUME NEW p \in Producers, PushSleep(p) PROVE Drained'
    BY <2>0, <2>3 DEF PushSleep, Sleep, Unlock
  <2>4. ASSUME NEW p \in Producers, PushRefused(p) PROVE Drained'
    BY <2>0, <2>4 DEF PushRefused, Unlock
  <2>5. ASSUME NEW p \in Producers, PushFrame(p) PROVE Drained'
    BY <2>0, <2>5 DEF PushFrame
  <2>6. ASSUME NEW p \in Producers, PushUnlock(p) PROVE Drained'
    BY <2>0, <2>6 DEF PushUnlock, Unlock
  <2>7. ASSUME NEW p \in Producers, PushNotify(p) PROVE Drained'
    BY <2>0, <2>7 DEF PushNotify, NotifyOne
  <2>8. ASSUME NEW c \in Consumers, PopCall(c) PROVE Drained'
    BY <2>0, <2>8 DEF PopCall
  <2>9. ASSUME NEW c \in Consumers, PopLock(c) PROVE Drained'
    BY <2>0, <2>9 DEF PopLock, Lock
  <2>10. ASSUME NEW c \in Consumers, PopSleep(c) PROVE Drained'
    BY <2>0, <2>10 DEF PopSleep, Sleep, Unlock
  <2>11. ASSUME NEW c \in Consumers, PopFrame(c) PROVE Drained'
    BY <2>0, <2>11 DEF PopFrame
  <2>12. ASSUME NEW c \in Consumers, PopFalse(c) PROVE Drained'
    BY <2>0, <2>12 DEF PopFalse, Unlock
  <2>13. ASSUME NEW c \in Consumers, PopUnlock(c) PROVE Drained'
    BY <2>0, <2>13 DEF PopUnlock, Unlock
  <2>14. ASSUME NEW c \in Consumers, PopNotify(c) PROVE Drained'
    BY <2>0, <2>14 DEF PopNotify, NotifyOne
  <2>15. CloseCall => Drained'
    BY <2>0 DEF CloseCall
  <2>16. CloseLock => Drained'
    BY <2>0 DEF CloseLock, Lock
  <2>17. CloseSet => Drained'
    BY <2>0 DEF CloseSet
  <2>18. CloseUnlock => Drained'
    BY <2>0 DEF CloseUnlock, Unlock
  <2>19. CloseNotifyNotEmpty => Drained'
    BY <2>0 DEF CloseNotifyNotEmpty, NotifyAll
  <2>20. CloseNotifyNotFull => Drained'
    BY <2>0 DEF CloseNotifyNotFull, NotifyAll
  <2>21. ASSUME NEW t \in Producers \cup Consumers, SpuriousWakeup(t) PROVE Drained'
    BY <2>0, <2>21 DEF SpuriousWakeup
  <2>22. UNCHANGED vars => Drained'
    BY DEF vars
  <2>23. QED
    BY <2>1, <2>2, <2>3, <2>4, <2>5, <2>6, <2>7, <2>8, <2>9, <2>10, <2>11, <2>12, <2>13,
       <2>14, <2>15, <2>16, <2>17, <2>18, <2>19, <2>20, <2>21, <2>22, NextCases
<1>3. TypeOK /\ Fifo /\ Drained => EndMeansDrained
  <2> SUFFICES ASSUME TypeOK, Fifo, Drained, NEW c \in Consumers, pc[c] = "done"
               PROVE  closed_ /\ popped = pushed
    BY DEF EndMeansDrained
  <2>1. closed_ /\ queue_ = <<>>
    BY DEF Drained
  <2>2. popped \o <<>> = popped
    BY ConcatEmptySeq DEF TypeOK
  <2>3. QED
    BY <2>1, <2>2 DEF Fifo
<1>4. QED
  BY <1>1, <1>2, <1>3, TypeCorrect, FifoCorrect, PTL DEF Spec

-----------------------------------------------------------------------------
(* No lost wakeup *)

(* While a consumer sleeps, every queued frame is accounted for. *)
THEOREM NoLostFrameWakeupCorrect == Spec => []NoLostFrameWakeup
<1>1. Init => NoLostFrameWakeup
  BY DEF Init, NoLostFrameWakeup, not_empty_, Threads
<1>2. TypeOK /\ TypeOK' /\ NoLostFrameWakeup /\ [Next]_vars => NoLostFrameWakeup'
  <2> SUFFICES ASSUME TypeOK, TypeOK', NoLostFrameWakeup,
      [Next]_vars PROVE NoLostFrameWakeup'
    OBVIOUS
  <2> USE ConstantsAssumption DEF Threads, Goto
  <2>0. pc \in [Threads -> PushPoints \cup PopPoints \cup ClosePoints]
    BY DEF TypeOK
  <2>a. /\ IsFiniteSet(AwakeConsumers) /\ IsFiniteSet(AwakeConsumers')
        /\ IsFiniteSet(OwingProducers) /\ IsFiniteSet(OwingProducers')
    BY FS_Subset DEF AwakeConsumers, OwingProducers
  <2>b. /\ Cardinality(AwakeConsumers) \in Nat /\ Cardinality(AwakeConsumers') \in Nat
        /\ Cardinality(OwingProducers) \in Nat /\ Cardinality(OwingProducers') \in Nat
        /\ Len(queue_) \in Nat /\ Len(queue_') \in Nat
    BY <2>a, FS_CardinalityType, LenProperties DEF TypeOK
  <2>c. ASSUME AwakeConsumers' = AwakeConsumers, OwingProducers' = OwingProducers,
        not_empty_' = not_empty_, UNCHANGED queue_
        PROVE  NoLostFrameWakeup'
    BY <2>c DEF NoLostFrameWakeup
  <2>1. ASSUME NEW p \in Producers, PushCall(p) PROVE NoLostFrameWakeup'
    BY <2>0, <2>1, <2>c DEF PushCall, AwakeConsumers, OwingProducers, not_empty_, not_full_
  <2>2. ASSUME NEW p \in Producers, PushLock(p) PROVE NoLostFrameWakeup'
    BY <2>0, <2>2, <2>c DEF PushLock, Lock, AwakeConsumers, OwingProducers, not_empty_,
           not_full_
  <2>3. ASSUME NEW p \in Producers, PushSleep(p) PROVE NoLostFrameWakeup'
    BY <2>0, <2>3, <2>c DEF PushSleep, Sleep, Unlock, AwakeConsumers, OwingProducers,
           not_empty_, not_full_
  <2>4. ASSUME NEW p \in Producers, PushRefused(p) PROVE NoLostFrameWakeup'
    BY <2>0, <2>4, <2>c DEF PushRefused, Unlock, AwakeConsumers, OwingProducers,
           not_empty_, not_full_
  <2>5. ASSUME NEW p \in Producers, PushFrame(p) PROVE NoLostFrameWakeup'
    <3>1. AwakeConsumers' = AwakeConsumers /\ OwingProducers' = OwingProducers \cup {p}
          /\ p \notin OwingProducers /\ not_empty_' = not_empty_
      BY <2>0, <2>5 DEF PushFrame, AwakeConsumers, OwingProducers, not_empty_, not_full_
    <3>2. Cardinality(OwingProducers') = Cardinality(OwingProducers) + 1
      BY <2>a, <3>1, FS_AddElement
    <3>3. Len(queue_') = Len(queue_) + 1
      BY <2>5, OfferedFrame, AppendProperties DEF PushFrame, TypeOK
    <3>4. QED
      BY <2>b, <3>1, <3>2, <3>3 DEF NoLostFrameWakeup
  <2>6. ASSUME NEW p \in Producers, PushUnlock(p) PROVE NoLostFrameWakeup'
    BY <2>0, <2>6, <2>c DEF PushUnlock, Unlock, AwakeConsumers, OwingProducers, not_empty_,
           not_full_
  <2>7. ASSUME NEW p \in Producers, PushNotify(p) PROVE NoLostFrameWakeup'
    <3>1. CASE not_empty_ = {}
      BY <2>0, <2>7, <3>1 DEF PushNotify, NotifyOne, NoLostFrameWakeup, not_empty_
    <3>2. CASE not_empty_ # {}
      <4>1. PICK s \in not_empty_ : pc' = [pc EXCEPT ![p] = "idle", ![s] = "pop_lock"]
        BY <2>7, <3>2 DEF PushNotify, NotifyOne
      <4>2. /\ AwakeConsumers' = AwakeConsumers \cup {s} /\ s \notin AwakeConsumers
            /\ OwingProducers' = OwingProducers \ {p} /\ p \in OwingProducers
        BY <2>0, <2>7, <4>1 DEF PushNotify, NotifyOne, AwakeConsumers, OwingProducers,
               not_empty_, not_full_
      <4>3. /\ Cardinality(AwakeConsumers') = Cardinality(AwakeConsumers) + 1
            /\ Cardinality(OwingProducers') = Cardinality(OwingProducers) - 1
        BY <2>a, <4>2, FS_AddElement, FS_RemoveElement
      <4>4. queue_' = queue_
        BY <2>7 DEF PushNotify, NotifyOne
      <4>5. QED
        BY <2>b, <3>2, <4>3, <4>4 DEF NoLostFrameWakeup
    <3>3. QED
      BY <3>1, <3>2
  <2>8. ASSUME NEW c \in Consumers, PopCall(c) PROVE NoLostFrameWakeup'
    <3>1. /\ AwakeConsumers' = AwakeConsumers \cup {c} /\ c \notin AwakeConsumers
          /\ OwingProducers' = OwingProducers
          /\ not_empty_' = not_empty_ /\ queue_' = queue_
      BY <2>0, <2>8 DEF PopCall, AwakeConsumers, OwingProducers, not_empty_, not_full_
    <3>2. Cardinality(AwakeConsumers') = Cardinality(AwakeConsumers) + 1
      BY <2>a, <3>1, FS_AddElement
    <3>3. QED
      BY <2>b, <3>1, <3>2 DEF NoLostFrameWakeup
  <2>9. ASSUME NEW c \in Consumers, PopLock(c) PROVE NoLostFrameWakeup'
    BY <2>0, <2>9, <2>c DEF PopLock, Lock, AwakeConsumers, OwingProducers, not_empty_,
           not_full_
  <2>10. ASSUME NEW c \in Consumers, PopSleep(c) PROVE NoLostFrameWakeup'
    <3>1. Len(queue_') = 0
      BY <2>10 DEF PopSleep, Sleep, Unlock
    <3>2. QED
      BY <2>b, <3>1 DEF NoLostFrameWakeup
  <2>11. ASSUME NEW c \in Consumers, PopFrame(c) PROVE NoLostFrameWakeup'
    <3>1. AwakeConsumers' = AwakeConsumers \ {c} /\ c \in AwakeConsumers
          /\ OwingProducers' = OwingProducers /\ not_empty_' = not_empty_
      BY <2>0, <2>11 DEF PopFrame, AwakeConsumers, OwingProducers, not_empty_, not_full_
    <3>2. Cardinality(AwakeConsumers') = Cardinality(AwakeConsumers) - 1
      BY <2>a, <3>1, FS_RemoveElement
    <3>3. Len(queue_') = Len(queue_) - 1
      BY <2>11, HeadTailProperties DEF PopFrame, TypeOK
    <3>4. QED
      BY <2>b, <3>1, <3>2, <3>3 DEF NoLostFrameWakeup
  <2>12. ASSUME NEW c \in Consumers, PopFalse(c) PROVE NoLostFrameWakeup'
    <3>1. Len(queue_') = 0
      BY <2>12 DEF PopFalse, Unlock
    <3>2. QED
      BY <2>b, <3>1 DEF NoLostFrameWakeup
  <2>13. ASSUME NEW c \in Consumers, PopUnlock(c) PROVE NoLostFrameWakeup'
    BY <2>0, <2>13, <2>c DEF PopUnlock, Unlock, AwakeConsumers, OwingProducers, not_empty_,
           not_full_
  <2>14. ASSUME NEW c \in Consumers, PopNotify(c) PROVE NoLostFrameWakeup'
    BY <2>0, <2>14, <2>c DEF PopNotify, NotifyOne, AwakeConsumers, OwingProducers,
           not_empty_, not_full_
  <2>15. ASSUME CloseCall PROVE NoLostFrameWakeup'
    BY <2>0, <2>15, <2>c DEF CloseCall, AwakeConsumers, OwingProducers, not_empty_,
           not_full_
  <2>16. ASSUME CloseLock PROVE NoLostFrameWakeup'
    BY <2>0, <2>16, <2>c DEF CloseLock, Lock, AwakeConsumers, OwingProducers, not_empty_,
           not_full_
  <2>17. ASSUME CloseSet PROVE NoLostFrameWakeup'
    BY <2>0, <2>17, <2>c DEF CloseSet, AwakeConsumers, OwingProducers, not_empty_, not_full_
  <2>18. ASSUME CloseUnlock PROVE NoLostFrameWakeup'
    BY <2>0, <2>18, <2>c DEF CloseUnlock, Unlock, AwakeConsumers, OwingProducers,
           not_empty_, not_full_
  <2>19. ASSUME CloseNotifyNotEmpty PROVE NoLostFrameWakeup'
    <3>1. not_empty_' = {}
      BY <2>0, <2>19 DEF CloseNotifyNotEmpty, NotifyAll, not_empty_
    <3>2. QED
      BY <3>1 DEF NoLostFrameWakeup
  <2>20. ASSUME CloseNotifyNotFull PROVE NoLostFrameWakeup'
    BY <2>0, <2>20, <2>c DEF CloseNotifyNotFull, NotifyAll, AwakeConsumers, OwingProducers,
           not_empty_, not_full_
  <2>21. ASSUME NEW t \in Producers \cup Consumers,
         SpuriousWakeup(t) PROVE NoLostFrameWakeup'
    <3>1. CASE pc[t] = "push_asleep"
      BY <2>0, <2>c, <2>21, <3>1 DEF SpuriousWakeup, AwakeConsumers, OwingProducers,
             not_empty_, not_full_, TypeOK, PopPoints
    <3>2. CASE pc[t] = "pop_asleep"
      <4>0. t \in Consumers /\ t \notin Producers
        BY <3>2 DEF TypeOK, PushPoints
      <4>1. t \in not_empty_ /\ AwakeConsumers' = AwakeConsumers \cup {t}
            /\ t \notin AwakeConsumers /\ OwingProducers' = OwingProducers
        BY <2>0, <2>21, <3>2, <4>0 DEF SpuriousWakeup, AwakeConsumers, OwingProducers,
               not_empty_, not_full_
      <4>2. Cardinality(AwakeConsumers') = Cardinality(AwakeConsumers) + 1
        BY <2>a, <4>1, FS_AddElement
      <4>3. queue_' = queue_
        BY <2>21 DEF SpuriousWakeup
      <4>4. QED
        BY <2>b, <4>1, <4>2, <4>3 DEF NoLostFrameWakeup
    <3>3. QED
      BY <2>21, <3>1, <3>2 DEF SpuriousWakeup
  <2>22. UNCHANGED vars => NoLostFrameWakeup'
    BY <2>c DEF vars, AwakeConsumers, OwingProducers, not_empty_
  <2>23. QED
    BY <2>1, <2>2, <2>3, <2>4, <2>5, <2>6, <2>7, <2>8, <2>9, <2>10, <2>11, <2>12, <2>13,
       <2>14, <2>15, <2>16, <2>17, <2>18, <2>19, <2>20, <2>21, <2>22, NextCases
<1>3. QED
  BY <1>1, <1>2, TypeCorrect, PTL DEF Spec

(* While a producer sleeps on an open queue, every free place is accounted for. *)
THEOREM NoLostRoomWakeupCorrect == Spec => []NoLostRoomWakeup
<1>1. Init => NoLostRoomWakeup
  BY DEF Init, NoLostRoomWakeup, not_full_, Threads
<1>2. TypeOK /\ TypeOK' /\ NoLostRoomWakeup /\ [Next]_vars => NoLostRoomWakeup'
  <2> SUFFICES ASSUME TypeOK, TypeOK', NoLostRoomWakeup, [Next]_vars PROVE NoLostRoomWakeup'
    OBVIOUS
  <2> USE ConstantsAssumption DEF Threads, Goto
  <2>0. pc \in [Threads -> PushPoints \cup PopPoints \cup ClosePoints]
    BY DEF TypeOK
  <2>a. /\ IsFiniteSet(AwakeProducers) /\ IsFiniteSet(AwakeProducers')
        /\ IsFiniteSet(OwingConsumers) /\ IsFiniteSet(OwingConsumers')
    BY FS_Subset DEF AwakeProducers, OwingConsumers
  <2>b. /\ Cardinality(AwakeProducers) \in Nat /\ Cardinality(AwakeProducers') \in Nat
        /\ Cardinality(OwingConsumers) \in Nat /\ Cardinality(OwingConsumers') \in Nat
        /\ Len(queue_) \in Nat /\ Len(queue_') \in Nat
    BY <2>a, FS_CardinalityType, LenProperties DEF TypeOK
  <2>c. ASSUME AwakeProducers' = AwakeProducers, OwingConsumers' = OwingConsumers,
        not_full_' = not_full_, UNCHANGED <<queue_, closed_>>
        PROVE  NoLostRoomWakeup'
    BY <2>c DEF NoLostRoomWakeup
  <2>1. ASSUME NEW p \in Producers, PushCall(p) PROVE NoLostRoomWakeup'
    <3>1. /\ AwakeProducers' = AwakeProducers \cup {p} /\ p \notin AwakeProducers
          /\ OwingConsumers' = OwingConsumers
          /\ not_full_' = not_full_ /\ UNCHANGED <<queue_, closed_>>
      BY <2>0, <2>1 DEF PushCall, AwakeProducers, OwingConsumers, not_empty_, not_full_
    <3>2. Cardinality(AwakeProducers') = Cardinality(AwakeProducers) + 1
      BY <2>a, <3>1, FS_AddElement
    <3>3. QED
      BY <2>b, <3>1, <3>2 DEF NoLostRoomWakeup
  <2>2. ASSUME NEW p \in Producers, PushLock(p) PROVE NoLostRoomWakeup'
    BY <2>0, <2>2, <2>c DEF PushLock, Lock, AwakeProducers, OwingConsumers, not_empty_,
           not_full_
  <2>3. ASSUME NEW p \in Producers, PushSleep(p) PROVE NoLostRoomWakeup'
    <3>1. MaxSize <= Len(queue_')
      BY <2>b, <2>3 DEF PushSleep, Sleep, Unlock, HasRoom
    <3>2. QED
      BY <2>b, <3>1 DEF NoLostRoomWakeup
  <2>4. ASSUME NEW p \in Producers, PushRefused(p) PROVE NoLostRoomWakeup'
    <3>1. closed_'
      BY <2>4 DEF PushRefused, Unlock
    <3>2. QED
      BY <3>1 DEF NoLostRoomWakeup
  <2>5. ASSUME NEW p \in Producers, PushFrame(p) PROVE NoLostRoomWakeup'
    <3>1. /\ AwakeProducers' = AwakeProducers \ {p} /\ p \in AwakeProducers
          /\ OwingConsumers' = OwingConsumers
          /\ not_full_' = not_full_ /\ closed_' = closed_
      BY <2>0, <2>5 DEF PushFrame, AwakeProducers, OwingConsumers, not_empty_, not_full_
    <3>2. Cardinality(AwakeProducers') = Cardinality(AwakeProducers) - 1
      BY <2>a, <3>1, FS_RemoveElement
    <3>3. Len(queue_') = Len(queue_) + 1
      BY <2>5, OfferedFrame, AppendProperties DEF PushFrame, TypeOK
    <3>4. QED
      BY <2>b, <3>1, <3>2, <3>3 DEF NoLostRoomWakeup
  <2>6. ASSUME NEW p \in Producers, PushUnlock(p) PROVE NoLostRoomWakeup'
    BY <2>0, <2>6, <2>c DEF PushUnlock, Unlock, AwakeProducers, OwingConsumers, not_empty_,
           not_full_
  <2>7. ASSUME NEW p \in Producers, PushNotify(p) PROVE NoLostRoomWakeup'
    BY <2>0, <2>7, <2>c DEF PushNotify, NotifyOne, AwakeProducers, OwingConsumers,
           not_empty_, not_full_
  <2>8. ASSUME NEW c \in Consumers, PopCall(c) PROVE NoLostRoomWakeup'
    BY <2>0, <2>8, <2>c DEF PopCall, AwakeProducers, OwingConsumers, not_empty_, not_full_
  <2>9. ASSUME NEW c \in Consumers, PopLock(c) PROVE NoLostRoomWakeup'
    BY <2>0, <2>9, <2>c DEF PopLock, Lock, AwakeProducers, OwingConsumers, not_empty_,
           not_full_
  <2>10. ASSUME NEW c \in Consumers, PopSleep(c) PROVE NoLostRoomWakeup'
    BY <2>0, <2>10, <2>c DEF PopSleep, Sleep, Unlock, AwakeProducers, OwingConsumers,
           not_empty_, not_full_
  <2>11. ASSUME NEW c \in Consumers, PopFrame(c) PROVE NoLostRoomWakeup'
    <3>1. /\ OwingConsumers' = OwingConsumers \cup {c} /\ c \notin OwingConsumers
          /\ AwakeProducers' = AwakeProducers
          /\ not_full_' = not_full_ /\ closed_' = closed_
      BY <2>0, <2>11 DEF PopFrame, AwakeProducers, OwingConsumers, not_empty_, not_full_
    <3>2. Cardinality(OwingConsumers') = Cardinality(OwingConsumers) + 1
      BY <2>a, <3>1, FS_AddElement
    <3>3. Len(queue_') = Len(queue_) - 1
      BY <2>11, HeadTailProperties DEF PopFrame, TypeOK
    <3>4. QED
      BY <2>b, <3>1, <3>2, <3>3 DEF NoLostRoomWakeup
  <2>12. ASSUME NEW c \in Consumers, PopFalse(c) PROVE NoLostRoomWakeup'
    BY <2>0, <2>12, <2>c DEF PopFalse, Unlock, AwakeProducers, OwingConsumers, not_empty_,
           not_full_
  <2>13. ASSUME NEW c \in Consumers, PopUnlock(c) PROVE NoLostRoomWakeup'
    BY <2>0, <2>13, <2>c DEF PopUnlock, Unlock, AwakeProducers, OwingConsumers, not_empty_,
           not_full_
  <2>14. ASSUME NEW c \in Consumers, PopNotify(c) PROVE NoLostRoomWakeup'
    <3>1. CASE not_full_ = {}
      BY <2>0, <2>14, <3>1 DEF PopNotify, NotifyOne, NoLostRoomWakeup, not_full_
    <3>2. CASE not_full_ # {}
      <4>1. PICK s \in not_full_ : pc' = [pc EXCEPT ![c] = "idle", ![s] = "push_lock"]
        BY <2>14, <3>2 DEF PopNotify, NotifyOne
      <4>2. /\ AwakeProducers' = AwakeProducers \cup {s} /\ s \notin AwakeProducers
            /\ OwingConsumers' = OwingConsumers \ {c} /\ c \in OwingConsumers
        BY <2>0, <2>14, <4>1 DEF PopNotify, NotifyOne, AwakeProducers, OwingConsumers,
               not_empty_, not_full_
      <4>3. /\ Cardinality(AwakeProducers') = Cardinality(AwakeProducers) + 1
            /\ Cardinality(OwingConsumers') = Cardinality(OwingConsumers) - 1
        BY <2>a, <4>2, FS_AddElement, FS_RemoveElement
      <4>4. UNCHANGED <<queue_, closed_>>
        BY <2>14 DEF PopNotify, NotifyOne
      <4>5. QED
        BY <2>b, <3>2, <4>3, <4>4 DEF NoLostRoomWakeup
    <3>3. QED
      BY <3>1, <3>2
  <2>15. ASSUME CloseCall PROVE NoLostRoomWakeup'
    BY <2>0, <2>15, <2>c DEF CloseCall, AwakeProducers, OwingConsumers, not_empty_,
           not_full_
  <2>16. ASSUME CloseLock PROVE NoLostRoomWakeup'
    BY <2>0, <2>16, <2>c DEF CloseLock, Lock, AwakeProducers, OwingConsumers, not_empty_,
           not_full_
  <2>17. ASSUME CloseSet PROVE NoLostRoomWakeup'
    <3>1. closed_'
      BY <2>17 DEF CloseSet
    <3>2. QED
      BY <3>1 DEF NoLostRoomWakeup
  <2>18. ASSUME CloseUnlock PROVE NoLostRoomWakeup'
    BY <2>0, <2>18, <2>c DEF CloseUnlock, Unlock, AwakeProducers, OwingConsumers,
           not_empty_, not_full_
  <2>19. ASSUME CloseNotifyNotEmpty PROVE NoLostRoomWakeup'
    BY <2>0, <2>19, <2>c DEF CloseNotifyNotEmpty, NotifyAll, AwakeProducers,
           OwingConsumers, not_empty_, not_full_
  <2>20. ASSUME CloseNotifyNotFull PROVE NoLostRoomWakeup'
    <3>1. not_full_' = {}
      BY <2>0, <2>20 DEF CloseNotifyNotFull, NotifyAll, not_full_
    <3>2. QED
      BY <3>1 DEF NoLostRoomWakeup
  <2>21. ASSUME NEW t \in Producers \cup Consumers,
         SpuriousWakeup(t) PROVE NoLostRoomWakeup'
    <3>1. CASE pc[t] = "pop_asleep"
      BY <2>0, <2>c, <2>21, <3>1 DEF SpuriousWakeup, AwakeProducers, OwingConsumers,
             not_empty_, not_full_, TypeOK, PushPoints
    <3>2. CASE pc[t] = "push_asleep"
      <4>1. t \in not_full_ /\ AwakeProducers' = AwakeProducers \cup {t}
            /\ t \notin AwakeProducers /\ OwingConsumers' = OwingConsumers
        BY <2>0, <2>21, <3>2 DEF SpuriousWakeup, AwakeProducers, OwingConsumers,
               not_empty_, not_full_, TypeOK, PopPoints
      <4>2. Cardinality(AwakeProducers') = Cardinality(AwakeProducers) + 1
        BY <2>a, <4>1, FS_AddElement
      <4>3. UNCHANGED <<queue_, closed_>>
        BY <2>21 DEF SpuriousWakeup
      <4>4. QED
        BY <2>b, <4>1, <4>2, <4>3 DEF NoLostRoomWakeup
    <3>3. QED
      BY <2>21, <3>1, <3>2 DEF SpuriousWakeup
  <2>22. UNCHANGED vars => NoLostRoomWakeup'
    BY <2>c DEF vars, AwakeProducers, OwingConsumers, not_full_
  <2>23. QED
    BY <2>1, <2>2, <2>3, <2>4, <2>5, <2>6, <2>7, <2>8, <2>9, <2>10, <2>11, <2>12, <2>13,
       <2>14, <2>15, <2>16, <2>17, <2>18, <2>19, <2>20, <2>21, <2>22, NextCases
<1>3. QED
  BY <1>1, <1>2, TypeCorrect, PTL DEF Spec

-----------------------------------------------------------------------------
(* Refinement *)

(* The consumers whose loop has ended: the channel's finished. *)
Ended == {c \in Consumers : pc[c] = "done"}

(* PacketQueue implements BoundedChannel. *)
THEOREM Refinement == Spec => ImplementsChannel
<1>1. Init => Channel!Init
  BY DEF Init, Channel!Init, Threads
<1>2. TypeOK /\ [Next]_vars => [Channel!Next]_(Channel!vars)
  <2> SUFFICES ASSUME TypeOK, [Next]_vars PROVE [Channel!Next]_(Channel!vars)
    OBVIOUS
  <2> USE ConstantsAssumption DEF Threads, Goto
  <2>0. pc \in [Threads -> PushPoints \cup PopPoints \cup ClosePoints]
    BY DEF TypeOK
  <2>a. ASSUME UNCHANGED <<queue_, closed_, pushed, popped>>, Ended' = Ended
        PROVE  [Channel!Next]_(Channel!vars)
    BY <2>a DEF Channel!vars, Ended
  <2>1. ASSUME NEW p \in Producers, PushCall(p) PROVE [Channel!Next]_(Channel!vars)
    BY <2>0, <2>a, <2>1 DEF PushCall, Ended, not_empty_, not_full_
  <2>2. ASSUME NEW p \in Producers, PushLock(p) PROVE [Channel!Next]_(Channel!vars)
    BY <2>0, <2>a, <2>2 DEF PushLock, Lock, Ended, not_empty_, not_full_
  <2>3. ASSUME NEW p \in Producers, PushSleep(p) PROVE [Channel!Next]_(Channel!vars)
    BY <2>0, <2>a, <2>3 DEF PushSleep, Sleep, Unlock, Ended, not_empty_, not_full_
  <2>4. ASSUME NEW p \in Producers, PushRefused(p) PROVE [Channel!Next]_(Channel!vars)
    BY <2>0, <2>a, <2>4 DEF PushRefused, Unlock, Ended, not_empty_, not_full_
  <2>5. ASSUME NEW p \in Producers, PushFrame(p) PROVE [Channel!Next]_(Channel!vars)
    <3>1. <<p, calls[p]>> \in Frames
      BY <2>5, OfferedFrame DEF PushFrame
    <3>2. Ended' = Ended
      BY <2>0, <2>5 DEF PushFrame, Ended
    <3>3. Channel!Send(<<p, calls[p]>>)
      BY <2>5, <3>2 DEF PushFrame, HasRoom, Channel!Send, Ended
    <3>4. QED
      BY <3>1, <3>3 DEF Channel!Next
  <2>6. ASSUME NEW p \in Producers, PushUnlock(p) PROVE [Channel!Next]_(Channel!vars)
    BY <2>0, <2>a, <2>6 DEF PushUnlock, Unlock, Ended, not_empty_, not_full_
  <2>7. ASSUME NEW p \in Producers, PushNotify(p) PROVE [Channel!Next]_(Channel!vars)
    BY <2>0, <2>a, <2>7 DEF PushNotify, NotifyOne, Ended, not_empty_, not_full_
  <2>8. ASSUME NEW c \in Consumers, PopCall(c) PROVE [Channel!Next]_(Channel!vars)
    BY <2>0, <2>a, <2>8 DEF PopCall, Ended, not_empty_, not_full_
  <2>9. ASSUME NEW c \in Consumers, PopLock(c) PROVE [Channel!Next]_(Channel!vars)
    BY <2>0, <2>a, <2>9 DEF PopLock, Lock, Ended, not_empty_, not_full_
  <2>10. ASSUME NEW c \in Consumers, PopSleep(c) PROVE [Channel!Next]_(Channel!vars)
    BY <2>0, <2>a, <2>10 DEF PopSleep, Sleep, Unlock, Ended, not_empty_, not_full_
  <2>11. ASSUME NEW c \in Consumers, PopFrame(c) PROVE [Channel!Next]_(Channel!vars)
    <3>1. Ended' = Ended
      BY <2>0, <2>11 DEF PopFrame, Ended
    <3>2. Channel!Receive
      BY <2>11, <3>1 DEF PopFrame, Channel!Receive, Ended
    <3>3. QED
      BY <3>2 DEF Channel!Next
  <2>12. ASSUME NEW c \in Consumers, PopFalse(c) PROVE [Channel!Next]_(Channel!vars)
    <3>1. Ended' = Ended \cup {c}
      BY <2>0, <2>12 DEF PopFalse, Unlock, Ended
    <3>2. Channel!EndOfStream(c)
      BY <2>12, <3>1 DEF PopFalse, Unlock, Channel!EndOfStream, Ended
    <3>3. QED
      BY <3>2 DEF Channel!Next
  <2>13. ASSUME NEW c \in Consumers, PopUnlock(c) PROVE [Channel!Next]_(Channel!vars)
    BY <2>0, <2>a, <2>13 DEF PopUnlock, Unlock, Ended, not_empty_, not_full_
  <2>14. ASSUME NEW c \in Consumers, PopNotify(c) PROVE [Channel!Next]_(Channel!vars)
    BY <2>0, <2>a, <2>14 DEF PopNotify, NotifyOne, Ended, not_empty_, not_full_
  <2>15. ASSUME CloseCall PROVE [Channel!Next]_(Channel!vars)
    BY <2>0, <2>a, <2>15 DEF CloseCall, Ended, not_empty_, not_full_
  <2>16. ASSUME CloseLock PROVE [Channel!Next]_(Channel!vars)
    BY <2>0, <2>a, <2>16 DEF CloseLock, Lock, Ended, not_empty_, not_full_
  <2>17. ASSUME CloseSet PROVE [Channel!Next]_(Channel!vars)
    <3>1. Ended' = Ended
      BY <2>0, <2>17 DEF CloseSet, Ended
    <3>2. Channel!Close
      BY <2>17, <3>1 DEF CloseSet, Channel!Close, Ended
    <3>3. QED
      BY <3>2 DEF Channel!Next
  <2>18. ASSUME CloseUnlock PROVE [Channel!Next]_(Channel!vars)
    BY <2>0, <2>a, <2>18 DEF CloseUnlock, Unlock, Ended, not_empty_, not_full_
  <2>19. ASSUME CloseNotifyNotEmpty PROVE [Channel!Next]_(Channel!vars)
    BY <2>0, <2>a, <2>19 DEF CloseNotifyNotEmpty, NotifyAll, Ended, not_empty_, not_full_
  <2>20. ASSUME CloseNotifyNotFull PROVE [Channel!Next]_(Channel!vars)
    BY <2>0, <2>a, <2>20 DEF CloseNotifyNotFull, NotifyAll, Ended, not_empty_, not_full_
  <2>21. ASSUME NEW t \in Producers \cup Consumers, SpuriousWakeup(t) PROVE [Channel!Next]_(Channel!vars)
    BY <2>0, <2>a, <2>21 DEF SpuriousWakeup, Ended, not_empty_, not_full_
  <2>22. UNCHANGED vars => [Channel!Next]_(Channel!vars)
    BY <2>a DEF vars, Ended
  <2>23. QED
    BY <2>1, <2>2, <2>3, <2>4, <2>5, <2>6, <2>7, <2>8, <2>9, <2>10, <2>11, <2>12, <2>13,
       <2>14, <2>15, <2>16, <2>17, <2>18, <2>19, <2>20, <2>21, <2>22, NextCases
<1>3. QED
  BY <1>1, <1>2, TypeCorrect, PTL DEF Spec, ImplementsChannel, Channel!Spec

-----------------------------------------------------------------------------
(* No frame is dropped by push() *)

(* The call is still inside push(), its frame not yet in the queue. *)
Offering == {"push_lock", "push_wait", "push_asleep"}

(* While the queue is open, every frame of a finished push() was accepted. *)
THEOREM NoSilentDropCorrect == Spec => []NoSilentDrop
<1>1. Init => NoSilentDrop
  BY DEF Init, NoSilentDrop
<1>2. TypeOK /\ TypeOK' /\ NoSilentDrop /\ [Next]_vars => NoSilentDrop'
  <2> SUFFICES ASSUME TypeOK, TypeOK', NoSilentDrop, [Next]_vars PROVE NoSilentDrop'
    OBVIOUS
  <2> USE ConstantsAssumption DEF Threads, Goto
  <2>0. /\ pc \in [Threads -> PushPoints \cup PopPoints \cup ClosePoints]
        /\ calls \in [Producers -> 0 .. MaxPushes]
    BY DEF TypeOK
  <2>a. ASSUME UNCHANGED <<calls, pushed, closed_>>,
               \A p \in Producers : pc[p] \in Offering => pc'[p] \in Offering
        PROVE  NoSilentDrop'
    BY <2>a DEF NoSilentDrop, Offering
  <2>1. ASSUME NEW p \in Producers, PushCall(p) PROVE NoSilentDrop'
    <3> SUFFICES ASSUME ~closed_', NEW q \in Producers, NEW k \in 1 .. calls'[q]
                 PROVE  \/ \E i \in DOMAIN pushed' : pushed'[i] = <<q, k>>
                        \/ k = calls'[q] /\ pc'[q] \in Offering
      BY DEF NoSilentDrop, Offering
    <3>1. CASE q = p /\ k = calls'[q]
      BY <2>0, <2>1, <3>1 DEF PushCall, Offering
    <3>2. CASE ~ (q = p /\ k = calls'[q])
      <4>1. k \in 1 .. calls[q]
        BY <2>0, <2>1, <3>2 DEF PushCall
      <4>2. q = p => pc[q] \notin Offering
        BY <2>1 DEF PushCall, Offering
      <4>3. QED
        BY <2>0, <2>1, <4>1, <4>2 DEF PushCall, NoSilentDrop, Offering
    <3>3. QED
      BY <3>1, <3>2
  <2>2. ASSUME NEW p \in Producers, PushLock(p) PROVE NoSilentDrop'
    BY <2>0, <2>a, <2>2 DEF PushLock, Lock, Offering, not_empty_, not_full_
  <2>3. ASSUME NEW p \in Producers, PushSleep(p) PROVE NoSilentDrop'
    BY <2>0, <2>a, <2>3 DEF PushSleep, Sleep, Unlock, Offering, not_empty_, not_full_
  <2>4. ASSUME NEW p \in Producers, PushRefused(p) PROVE NoSilentDrop'
    BY <2>4 DEF PushRefused, Unlock, NoSilentDrop
  <2>5. ASSUME NEW p \in Producers, PushFrame(p) PROVE NoSilentDrop'
    <3> SUFFICES ASSUME ~closed_', NEW q \in Producers, NEW k \in 1 .. calls'[q]
                 PROVE  \/ \E i \in DOMAIN pushed' : pushed'[i] = <<q, k>>
                        \/ k = calls'[q] /\ pc'[q] \in Offering
      BY DEF NoSilentDrop, Offering
    <3>1. PICK f \in Frames : f = <<p, calls[p]>>
      BY <2>5, OfferedFrame DEF PushFrame
    <3>2. /\ pushed' = Append(pushed, f)
          /\ UNCHANGED <<calls, closed_>>
          /\ pc' = [pc EXCEPT ![p] = "push_unlock"]
      BY <2>5, <3>1 DEF PushFrame
    <3>3. /\ DOMAIN pushed = 1 .. Len(pushed) /\ Len(pushed) \in Nat
          /\ DOMAIN pushed' = 1 .. (Len(pushed) + 1)
          /\ \A i \in 1 .. Len(pushed) : pushed'[i] = pushed[i]
          /\ pushed'[Len(pushed) + 1] = f
      <4>1. pushed \in Seq(Frames) /\ pushed' \in Seq(Frames)
        BY DEF TypeOK
      <4>2. Len(Append(pushed, f)) = Len(pushed) + 1
        BY <4>1, AppendProperties
      <4>3. QED
        BY <3>2, <4>1, <4>2, AppendProperties, LenProperties
    <3>4. CASE q = p /\ k = calls[p]
      BY <3>1, <3>3, <3>4
    <3>5. CASE ~ (q = p /\ k = calls[p])
      <4>1. CASE \E i \in DOMAIN pushed : pushed[i] = <<q, k>>
        BY <3>3, <4>1
      <4>2. CASE k = calls[q] /\ pc[q] \in Offering
        BY <2>0, <3>2, <3>5, <4>2
      <4>3. QED
        BY <3>2, <4>1, <4>2 DEF NoSilentDrop, Offering
    <3>6. QED
      BY <3>4, <3>5
  <2>6. ASSUME NEW p \in Producers, PushUnlock(p) PROVE NoSilentDrop'
    BY <2>0, <2>a, <2>6 DEF PushUnlock, Unlock, Offering, not_empty_, not_full_
  <2>7. ASSUME NEW p \in Producers, PushNotify(p) PROVE NoSilentDrop'
    BY <2>0, <2>a, <2>7 DEF PushNotify, NotifyOne, Offering, not_empty_, not_full_
  <2>8. ASSUME NEW c \in Consumers, PopCall(c) PROVE NoSilentDrop'
    BY <2>0, <2>a, <2>8 DEF PopCall, Offering, not_empty_, not_full_
  <2>9. ASSUME NEW c \in Consumers, PopLock(c) PROVE NoSilentDrop'
    BY <2>0, <2>a, <2>9 DEF PopLock, Lock, Offering, not_empty_, not_full_
  <2>10. ASSUME NEW c \in Consumers, PopSleep(c) PROVE NoSilentDrop'
    BY <2>0, <2>a, <2>10 DEF PopSleep, Sleep, Unlock, Offering, not_empty_, not_full_
  <2>11. ASSUME NEW c \in Consumers, PopFrame(c) PROVE NoSilentDrop'
    BY <2>0, <2>a, <2>11 DEF PopFrame, Offering, not_empty_, not_full_
  <2>12. ASSUME NEW c \in Consumers, PopFalse(c) PROVE NoSilentDrop'
    BY <2>0, <2>a, <2>12 DEF PopFalse, Unlock, Offering, not_empty_, not_full_
  <2>13. ASSUME NEW c \in Consumers, PopUnlock(c) PROVE NoSilentDrop'
    BY <2>0, <2>a, <2>13 DEF PopUnlock, Unlock, Offering, not_empty_, not_full_
  <2>14. ASSUME NEW c \in Consumers, PopNotify(c) PROVE NoSilentDrop'
    BY <2>0, <2>a, <2>14 DEF PopNotify, NotifyOne, Offering, not_empty_, not_full_
  <2>15. ASSUME CloseCall PROVE NoSilentDrop'
    BY <2>0, <2>a, <2>15 DEF CloseCall, Offering, not_empty_, not_full_
  <2>16. ASSUME CloseLock PROVE NoSilentDrop'
    BY <2>0, <2>a, <2>16 DEF CloseLock, Lock, Offering, not_empty_, not_full_
  <2>17. ASSUME CloseSet PROVE NoSilentDrop'
    BY <2>17 DEF CloseSet, NoSilentDrop
  <2>18. ASSUME CloseUnlock PROVE NoSilentDrop'
    BY <2>0, <2>a, <2>18 DEF CloseUnlock, Unlock, Offering, not_empty_, not_full_
  <2>19. ASSUME CloseNotifyNotEmpty PROVE NoSilentDrop'
    BY <2>0, <2>a, <2>19 DEF CloseNotifyNotEmpty, NotifyAll, Offering, not_empty_, not_full_
  <2>20. ASSUME CloseNotifyNotFull PROVE NoSilentDrop'
    BY <2>0, <2>a, <2>20 DEF CloseNotifyNotFull, NotifyAll, Offering, not_empty_, not_full_
  <2>21. ASSUME NEW t \in Producers \cup Consumers, SpuriousWakeup(t) PROVE NoSilentDrop'
    BY <2>0, <2>a, <2>21 DEF SpuriousWakeup, Offering, not_empty_, not_full_
  <2>22. UNCHANGED vars => NoSilentDrop'
    BY <2>a DEF vars
  <2>23. QED
    BY <2>1, <2>2, <2>3, <2>4, <2>5, <2>6, <2>7, <2>8, <2>9, <2>10, <2>11, <2>12, <2>13,
       <2>14, <2>15, <2>16, <2>17, <2>18, <2>19, <2>20, <2>21, <2>22, NextCases
<1>3. QED
  BY <1>1, <1>2, TypeCorrect, PTL DEF Spec
=============================================================================
