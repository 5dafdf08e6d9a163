--------------------------- MODULE BoundedChannel ---------------------------
(***************************************************************************)
(* What PacketQueue (src/cpp/packet_queue.h) promises its users, free of   *)
(* locks and condition variables: a bounded FIFO channel whose operations  *)
(* are atomic and that can be closed once.                                 *)
(***************************************************************************)
EXTENDS Naturals, Sequences

CONSTANTS
    Frames,      \* the values that may be sent
    Receivers,   \* the threads that receive
    Capacity     \* the most items the channel ever holds

VARIABLES
    items,       \* accepted and not yet received, oldest first
    isClosed,
    sent,        \* history: every accepted frame, in order of acceptance
    received,    \* history: every received frame, in order of reception
    finished     \* receivers that were told the stream has ended

vars == <<items, isClosed, sent, received, finished>>

Init ==
    /\ items = <<>>
    /\ isClosed = FALSE
    /\ sent = <<>>
    /\ received = <<>>
    /\ finished = {}

(* Fault: a full channel accepts one more. *)
SendUnbounded(f) ==
    /\ ~isClosed
    /\ items' = Append(items, f)
    /\ sent' = Append(sent, f)
    /\ UNCHANGED <<isClosed, received, finished>>

(* push(): accepted only while the channel is open and has room. *)
Send(f) ==
    /\ ~isClosed
    /\ Len(items) < Capacity
    /\ items' = Append(items, f)
    /\ sent' = Append(sent, f)
    /\ UNCHANGED <<isClosed, received, finished>>

(* pop() returning true: the oldest item, whether or not the channel is closed. *)
Receive ==
    /\ items # <<>>
    /\ received' = Append(received, Head(items))
    /\ items' = Tail(items)
    /\ UNCHANGED <<isClosed, sent, finished>>

(* pop() returning false: only once the channel is closed and drained. *)
EndOfStream(r) ==
    /\ isClosed
    /\ items = <<>>
    /\ finished' = finished \cup {r}
    /\ UNCHANGED <<items, isClosed, sent, received>>

Close ==
    /\ isClosed' = TRUE
    /\ UNCHANGED <<items, sent, received, finished>>

Next ==
    \/ \E f \in Frames : Send(f)
    \/ Receive
    \/ \E r \in Receivers : EndOfStream(r)
    \/ Close

Spec == Init /\ [][Next]_vars
=============================================================================
