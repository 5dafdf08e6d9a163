----------------------------- MODULE PacketQueue -----------------------------
(***************************************************************************)
(* PacketQueue (src/cpp/packet_queue.{h,cpp}): the bounded queue between   *)
(* the capture thread and the printing thread, at the grain of its mutex   *)
(* and its two condition variables.                                        *)
(*                                                                         *)
(* A thread's control point is pc[t].  A thread asleep in                  *)
(* condition_variable::wait is at "push_asleep" or "pop_asleep"; it leaves *)
(* by a notification or a spurious wakeup and then has to take the mutex   *)
(* and test its predicate again.  Steps taken under the mutex touch queue_ *)
(* and closed_; the notifications come after the unlock, as in the code.   *)
(***************************************************************************)
EXTENDS Naturals, Sequences, FiniteSets

CONSTANTS
    Producers,   \* threads that call push()
    Consumers,   \* threads that call pop() until it returns false
    Closer,      \* the thread that calls close(), once
    NoThread,    \* the value of mutex_ when nobody holds it
    MaxSize,     \* max_size_
    MaxPushes    \* bound: calls to push() per producer

ASSUME ConstantsAssumption ==
    /\ IsFiniteSet(Producers)
    /\ IsFiniteSet(Consumers)
    /\ Producers \cap Consumers = {}
    /\ Closer \notin Producers \cup Consumers
    /\ NoThread \notin Producers \cup Consumers \cup {Closer}
    /\ MaxSize \in Nat \ {0}
    /\ MaxPushes \in Nat

Threads == Producers \cup Consumers \cup {Closer}

(* A frame is named after the call that offers it: producer and call number. *)
Frames == Producers \X (1 .. MaxPushes)

VARIABLES
    mutex_,      \* the thread that holds mutex_, or NoThread
    queue_,      \* queue_, oldest frame first
    closed_,     \* closed_
    pc,          \* control point of every thread
    calls,       \* number of push() calls each producer has made
    pushed,      \* history: frames that entered queue_, in order
    popped       \* history: frames handed out by pop(), in order

vars == <<mutex_, queue_, closed_, pc, calls, pushed, popped>>

PushPoints == {"idle", "push_lock", "push_wait", "push_asleep", "push_unlock", "push_notify"}
PopPoints == {"idle", "pop_lock", "pop_wait", "pop_asleep", "pop_unlock", "pop_notify", "done"}
ClosePoints ==
    {"idle", "close_lock", "close_set", "close_unlock", "notify_not_empty", "notify_not_full", "done"}

(* The control points at which a thread holds mutex_. *)
Holding ==
    {"push_wait", "push_unlock", "pop_wait", "pop_unlock", "close_set", "close_unlock"}

(* The threads asleep on each condition variable. *)
not_full_ == {p \in Producers : pc[p] = "push_asleep"}
not_empty_ == {c \in Consumers : pc[c] = "pop_asleep"}

Goto(t, point) == pc' = [pc EXCEPT ![t] = point]

Init ==
    /\ mutex_ = NoThread
    /\ queue_ = <<>>
    /\ closed_ = FALSE
    /\ pc = [t \in Threads |-> "idle"]
    /\ calls = [p \in Producers |-> 0]
    /\ pushed = <<>>
    /\ popped = <<>>

-----------------------------------------------------------------------------
(* The mutex. *)

Lock(t, from, to) ==
    /\ pc[t] = from
    /\ mutex_ = NoThread
    /\ mutex_' = t
    /\ Goto(t, to)
    /\ UNCHANGED <<queue_, closed_, calls, pushed, popped>>

Unlock(t, from, to) ==
    /\ pc[t] = from
    /\ mutex_' = NoThread
    /\ Goto(t, to)
    /\ UNCHANGED <<queue_, closed_, calls, pushed, popped>>

(* Atomically releases the mutex and goes to sleep. *)
Sleep(t, from, to) == Unlock(t, from, to)

(* notify_one() wakes some sleeper, or nobody; notify_all() wakes them all. *)
NotifyOne(t, from, to, sleepers, wakeAt) ==
    /\ pc[t] = from
    /\ \/ /\ sleepers = {}
          /\ Goto(t, to)
       \/ \E s \in sleepers : pc' = [pc EXCEPT ![t] = to, ![s] = wakeAt]
    /\ UNCHANGED <<mutex_, queue_, closed_, calls, pushed, popped>>

NotifyAll(t, from, to, sleepers, wakeAt) ==
    /\ pc[t] = from
    /\ pc' = [s \in Threads |->
                IF s = t THEN to ELSE IF s \in sleepers THEN wakeAt ELSE pc[s]]
    /\ UNCHANGED <<mutex_, queue_, closed_, calls, pushed, popped>>

(* A sleeper may wake although nobody notified it. *)
SpuriousWakeup(t) ==
    /\ \/ pc[t] = "push_asleep" /\ Goto(t, "push_lock")
       \/ pc[t] = "pop_asleep" /\ Goto(t, "pop_lock")
    /\ UNCHANGED <<mutex_, queue_, closed_, calls, pushed, popped>>

-----------------------------------------------------------------------------
(* push() *)

(* Fault: room is tested with <= instead of <. *)
HasRoomOffByOne == Len(queue_) <= MaxSize

HasRoom == Len(queue_) < MaxSize

(* The copy of the caller's bytes, made before the mutex is taken. *)
PushCall(p) ==
    /\ pc[p] = "idle"
    /\ calls[p] < MaxPushes
    /\ calls' = [calls EXCEPT ![p] = @ + 1]
    /\ Goto(p, "push_lock")
    /\ UNCHANGED <<mutex_, queue_, closed_, pushed, popped>>

PushLock(p) == Lock(p, "push_lock", "push_wait")

PushSleep(p) ==
    /\ ~ (HasRoom \/ closed_)
    /\ Sleep(p, "push_wait", "push_asleep")

(* Closed while waiting, or before: the frame is discarded. *)
PushRefused(p) ==
    /\ closed_
    /\ Unlock(p, "push_wait", "idle")

(* Fault: closed_ is not tested again after the wait. *)
PushFrameIgnoringClosed(p) ==
    /\ pc[p] = "push_wait"
    /\ HasRoom
    /\ queue_' = Append(queue_, <<p, calls[p]>>)
    /\ pushed' = Append(pushed, <<p, calls[p]>>)
    /\ Goto(p, "push_unlock")
    /\ UNCHANGED <<mutex_, closed_, calls, popped>>

PushFrame(p) ==
    /\ pc[p] = "push_wait"
    /\ HasRoom
    /\ ~closed_
    /\ queue_' = Append(queue_, <<p, calls[p]>>)
    /\ pushed' = Append(pushed, <<p, calls[p]>>)
    /\ Goto(p, "push_unlock")
    /\ UNCHANGED <<mutex_, closed_, calls, popped>>

PushUnlock(p) == Unlock(p, "push_unlock", "push_notify")

(* Fault: consumers are notified only when the queue was empty before. *)
PushNotifyFirstOnly(p) ==
    NotifyOne(p, "push_notify", "idle", IF Len(queue_) = 1 THEN not_empty_ ELSE {}, "pop_lock")

PushNotify(p) == NotifyOne(p, "push_notify", "idle", not_empty_, "pop_lock")

-----------------------------------------------------------------------------
(* pop(), called by the consumer's loop until it returns false *)

PopCall(c) ==
    /\ pc[c] = "idle"
    /\ Goto(c, "pop_lock")
    /\ UNCHANGED <<mutex_, queue_, closed_, calls, pushed, popped>>

PopLock(c) == Lock(c, "pop_lock", "pop_wait")

(* Fault: the wait predicate of pop() does not look at closed_. *)
PopSleepIgnoringClosed(c) ==
    /\ queue_ = <<>>
    /\ Sleep(c, "pop_wait", "pop_asleep")

PopSleep(c) ==
    /\ queue_ = <<>>
    /\ ~closed_
    /\ Sleep(c, "pop_wait", "pop_asleep")

(* Fault: the newest frame is moved out, the oldest one is removed. *)
PopFrameNewest(c) ==
    /\ pc[c] = "pop_wait"
    /\ queue_ # <<>>
    /\ popped' = Append(popped, queue_[Len(queue_)])
    /\ queue_' = Tail(queue_)
    /\ Goto(c, "pop_unlock")
    /\ UNCHANGED <<mutex_, closed_, calls, pushed>>

PopFrame(c) ==
    /\ pc[c] = "pop_wait"
    /\ queue_ # <<>>
    /\ popped' = Append(popped, Head(queue_))
    /\ queue_' = Tail(queue_)
    /\ Goto(c, "pop_unlock")
    /\ UNCHANGED <<mutex_, closed_, calls, pushed>>

(* Fault: pop() returns false as soon as the queue is closed. *)
PopFalseWhenClosed(c) ==
    /\ closed_
    /\ Unlock(c, "pop_wait", "done")

(* Closed and drained: pop() returns false and the consumer's loop ends. *)
PopFalse(c) ==
    /\ queue_ = <<>>
    /\ closed_
    /\ Unlock(c, "pop_wait", "done")

PopUnlock(c) == Unlock(c, "pop_unlock", "pop_notify")

(* Fault: the notification after a pop() is forgotten. *)
PopWithoutNotify(c) == NotifyOne(c, "pop_notify", "idle", {}, "push_lock")

PopNotify(c) == NotifyOne(c, "pop_notify", "idle", not_full_, "push_lock")

-----------------------------------------------------------------------------
(* close() *)

CloseCall ==
    /\ pc[Closer] = "idle"
    /\ Goto(Closer, "close_lock")
    /\ UNCHANGED <<mutex_, queue_, closed_, calls, pushed, popped>>

CloseLock == Lock(Closer, "close_lock", "close_set")

CloseSet ==
    /\ pc[Closer] = "close_set"
    /\ closed_' = TRUE
    /\ Goto(Closer, "close_unlock")
    /\ UNCHANGED <<mutex_, queue_, calls, pushed, popped>>

CloseUnlock == Unlock(Closer, "close_unlock", "notify_not_empty")

(* Fault: close() wakes one consumer instead of all of them. *)
CloseNotifyOneNotEmpty ==
    NotifyOne(Closer, "notify_not_empty", "notify_not_full", not_empty_, "pop_lock")

CloseNotifyNotEmpty ==
    NotifyAll(Closer, "notify_not_empty", "notify_not_full", not_empty_, "pop_lock")

CloseNotifyNotFull ==
    NotifyAll(Closer, "notify_not_full", "done", not_full_, "push_lock")

-----------------------------------------------------------------------------
(* The specification *)

PushStep(p) ==
    \/ PushLock(p) \/ PushSleep(p) \/ PushRefused(p) \/ PushFrame(p)
    \/ PushUnlock(p) \/ PushNotify(p)

PopStep(c) ==
    \/ PopCall(c) \/ PopLock(c) \/ PopSleep(c) \/ PopFrame(c) \/ PopFalse(c)
    \/ PopUnlock(c) \/ PopNotify(c)

CloseStep ==
    \/ CloseLock \/ CloseSet \/ CloseUnlock \/ CloseNotifyNotEmpty \/ CloseNotifyNotFull

(* The only states in which nothing is left to do. *)
Terminated ==
    /\ \A p \in Producers : pc[p] = "idle" /\ calls[p] = MaxPushes
    /\ \A t \in Threads \ Producers : pc[t] = "done"
    /\ UNCHANGED vars

Next ==
    \/ \E p \in Producers : PushCall(p) \/ PushStep(p)
    \/ \E c \in Consumers : PopStep(c)
    \/ CloseCall
    \/ CloseStep
    \/ \E t \in Producers \cup Consumers : SpuriousWakeup(t)
    \/ Terminated

Spec == Init /\ [][Next]_vars

(***************************************************************************)
(* Every thread inside a call keeps running, and one that finds the mutex  *)
(* free again and again gets it in the end.  Nobody is obliged to call     *)
(* push() or close(), and no sleeper is obliged to wake spuriously.        *)
(***************************************************************************)
Fairness ==
    /\ \A p \in Producers : WF_vars(PushStep(p)) /\ SF_vars(PushLock(p))
    /\ \A c \in Consumers : WF_vars(PopStep(c)) /\ SF_vars(PopLock(c))
    /\ WF_vars(CloseStep) /\ SF_vars(CloseLock)

FairSpec == Spec /\ Fairness

-----------------------------------------------------------------------------
(* Properties *)

(* Types of the state; queue_ never holds more than max_size_ frames, the  *)
(* bound push() waits for (packet_queue.cpp:11).                           *)
TypeOK ==
    /\ mutex_ \in Threads \cup {NoThread}
    /\ queue_ \in Seq(Frames)
    /\ Len(queue_) <= MaxSize
    /\ closed_ \in BOOLEAN
    /\ pc \in [Threads -> PushPoints \cup PopPoints \cup ClosePoints]
    /\ \A p \in Producers : pc[p] \in PushPoints
    /\ \A c \in Consumers : pc[c] \in PopPoints
    /\ pc[Closer] \in ClosePoints
    /\ calls \in [Producers -> 0 .. MaxPushes]
    /\ \A p \in Producers : pc[p] # "idle" => calls[p] > 0
    /\ pushed \in Seq(Frames)
    /\ popped \in Seq(Frames)

(* The lock objects of push(), pop() and close() are held exactly between  *)
(* lock and unlock, by one thread at a time, across sleeps and early       *)
(* returns (packet_queue.cpp:10-16, 21-28, 35).                            *)
MutualExclusion ==
    \A t \in Threads : pc[t] \in Holding <=> mutex_ = t

(* Frames leave in the order in which they entered, none lost, none handed *)
(* out twice, whatever the interleaving of push() and pop().               *)
Fifo == pushed = popped \o queue_

(* push() never drops a frame of its own accord (packet_queue.h:33-35): as *)
(* long as the queue is open, every frame of a push() that has returned is *)
(* in the queue or was handed out.                                         *)
NoSilentDrop ==
    ~closed_ =>
        \A p \in Producers : \A k \in 1 .. calls[p] :
            \/ \E i \in DOMAIN pushed : pushed[i] = <<p, k>>
            \/ k = calls[p] /\ pc[p] \in {"push_lock", "push_wait", "push_asleep"}

(* Threads that will test a wait predicate again, and threads that still   *)
(* owe a notification.                                                     *)
AwakeConsumers == {c \in Consumers : pc[c] \in {"pop_lock", "pop_wait"}}
AwakeProducers == {p \in Producers : pc[p] \in {"push_lock", "push_wait"}}
OwingProducers == {p \in Producers : pc[p] \in {"push_unlock", "push_notify"}}
OwingConsumers == {c \in Consumers : pc[c] \in {"pop_unlock", "pop_notify"}}

(* No wakeup is lost although notify_one() runs after the unlock           *)
(* (packet_queue.cpp:16-17): while a consumer sleeps, every queued frame   *)
(* has an awake consumer or a pending notification to account for it.      *)
NoLostFrameWakeup ==
    not_empty_ # {} =>
        Len(queue_) <= Cardinality(AwakeConsumers) + Cardinality(OwingProducers)

(* The same for room (packet_queue.cpp:28-29): while a producer sleeps on  *)
(* an open queue, every free place has an awake producer or a pending      *)
(* notification to account for it.                                         *)
NoLostRoomWakeup ==
    not_full_ # {} /\ ~closed_ =>
        MaxSize <= Len(queue_) + Cardinality(AwakeProducers) + Cardinality(OwingConsumers)

(* "Wakes up any thread blocked in push()/pop()" (packet_queue.h:55): once *)
(* the queue is closed a thread sleeps only as long as close() has not yet *)
(* reached the notify_all() that is going to wake it.                      *)
CloseWakesSleepers ==
    closed_ =>
        /\ not_empty_ # {} => pc[Closer] \in {"close_unlock", "notify_not_empty"}
        /\ not_full_ # {} =>
                pc[Closer] \in {"close_unlock", "notify_not_empty", "notify_not_full"}

(* When pop() has returned false (packet_queue.cpp:23-25), the queue is    *)
(* closed and every frame it ever accepted has been handed out.            *)
EndMeansDrained ==
    (\E c \in Consumers : pc[c] = "done") => closed_ /\ popped = pushed

(* "A call landing right at shutdown must not deadlock" (packet_queue.h:   *)
(* 45-47), nor may a producer blocked by a full queue: push() returns.     *)
PushReturns == \A p \in Producers : pc[p] = "push_lock" ~> pc[p] = "idle"

(* close() ends the consumers: each one drains what is left, gets false    *)
(* from pop() and leaves its loop (packet_queue.h:50-52).                  *)
CloseEndsConsumers == closed_ ~> \A c \in Consumers : pc[c] = "done"

(* PacketQueue implements the channel of BoundedChannel: the operations    *)
(* take effect at PushFrame, PopFrame, PopFalse and CloseSet.              *)
Channel == INSTANCE BoundedChannel WITH
    Receivers <- Consumers,
    Capacity <- MaxSize,
    items <- queue_,
    isClosed <- closed_,
    sent <- pushed,
    received <- popped,
    finished <- {c \in Consumers : pc[c] = "done"}

ImplementsChannel == Channel!Spec
=============================================================================
