---------------------------- MODULE RawSocketRing ----------------------------
(***************************************************************************)
(* raw_socket_recv() (src/c/raw_socket.c) reading the TPACKET_V3 ring that *)
(* the kernel fills.  The ring's blocks change hands through block_status: *)
(* the kernel fills the block it is at and retires it to the reader; the   *)
(* reader drains its current block and gives it back.  The two sides share *)
(* no lock, so every access of the reader to shared memory is a step.      *)
(*                                                                         *)
(* A frame is its number in the order in which the kernel put frames into  *)
(* the ring.  The frames of a block lie back to back in that order, so a   *)
(* block is its status, the number of its first frame and num_pkts.  The   *)
(* kernel's side (Kernel...) is outside the repository; it is modelled     *)
(* from what raw_socket.c relies on.  Plain accesses to block_status are   *)
(* taken to be ordered, as on x86-64.                                      *)
(***************************************************************************)
EXTENDS Naturals, Sequences

CONSTANTS
    BlockNr,     \* block_nr
    BlockFrames, \* how many frames fit into one block
    MaxArrivals  \* bound: frames that arrive

ASSUME RingAssumption ==
    /\ BlockNr \in Nat \ {0, 1}
    /\ BlockFrames \in Nat \ {0}
    /\ MaxArrivals \in Nat

Blocks == 0 .. (BlockNr - 1)

VARIABLES
    block_status,    \* per block: its owner
    num_pkts,        \* per block: how many frames it holds
    first_pkt,       \* per block: its first frame
    kernel_block,    \* the block the kernel fills, or waits for when frozen
    frozen,          \* the kernel found kernel_block still owned by the reader
    arrived,         \* frames that reached the socket
    accepted,        \* frames the kernel put into the ring
    cur_block, cur_pkt_idx, cur_pkt_offset, cur_num_pkts,  \* the reader's cursor
    stop_requested,
    pc,              \* control point of the thread that calls raw_socket_recv
    delivered        \* history: frames handed to the caller, in order

ringVars == <<block_status, num_pkts, first_pkt>>
kernelVars == <<kernel_block, frozen, arrived, accepted>>
cursorVars == <<cur_block, cur_pkt_idx, cur_pkt_offset, cur_num_pkts>>
vars == <<ringVars, kernelVars, cursorVars, stop_requested, pc, delivered>>

NextBlock(b) == (b + 1) % BlockNr

Init ==
    /\ block_status = [b \in Blocks |-> "kernel"]
    /\ num_pkts = [b \in Blocks |-> 0]
    /\ first_pkt = [b \in Blocks |-> 1]
    /\ kernel_block = 0
    /\ frozen = FALSE
    /\ arrived = 0
    /\ accepted = 0
    /\ cur_block = 0
    /\ cur_pkt_idx = 0
    /\ cur_pkt_offset = 0
    /\ cur_num_pkts = 0
    /\ stop_requested = FALSE
    /\ pc = "caller"
    /\ delivered = <<>>

-----------------------------------------------------------------------------
(* The kernel *)

(* Block b is opened for filling, with n frames already in it. *)
Open(b, n) ==
    /\ num_pkts' = [num_pkts EXCEPT ![b] = n]
    /\ first_pkt' = [first_pkt EXCEPT ![b] = accepted + 1]
    /\ accepted' = accepted + n
    /\ frozen' = FALSE

(* The block being filled is retired to the reader and the next one is     *)
(* opened with n frames in it, unless the reader still owns that one: then *)
(* the kernel freezes, and a frame that needed the block is dropped.       *)
RetireAndOpenNext(n) ==
    LET next == NextBlock(kernel_block)
    IN  /\ ~frozen
        /\ block_status' = [block_status EXCEPT ![kernel_block] = "user"]
        /\ kernel_block' = next
        /\ \/ /\ block_status[next] = "kernel"
              /\ Open(next, n)
           \/ /\ block_status[next] = "user"
              /\ frozen' = TRUE
              /\ UNCHANGED <<num_pkts, first_pkt, accepted>>

(* A frame goes into the block being filled. *)
KernelFill ==
    /\ arrived < MaxArrivals
    /\ ~frozen
    /\ num_pkts[kernel_block] < BlockFrames
    /\ num_pkts' = [num_pkts EXCEPT ![kernel_block] = @ + 1]
    /\ arrived' = arrived + 1
    /\ accepted' = accepted + 1
    /\ UNCHANGED <<block_status, first_pkt, kernel_block, frozen, cursorVars, stop_requested, pc,
                   delivered>>

(* A frame arrives and the block being filled has no room for it. *)
KernelFillNext ==
    /\ arrived < MaxArrivals
    /\ num_pkts[kernel_block] = BlockFrames
    /\ RetireAndOpenNext(1)
    /\ arrived' = arrived + 1
    /\ UNCHANGED <<cursorVars, stop_requested, pc, delivered>>

(* A frame arrives while the kernel is frozen: it is dropped ... *)
KernelDrop ==
    /\ arrived < MaxArrivals
    /\ frozen
    /\ block_status[kernel_block] = "user"
    /\ arrived' = arrived + 1
    /\ UNCHANGED <<ringVars, kernel_block, frozen, accepted, cursorVars, stop_requested, pc,
                   delivered>>

(* ... unless the reader has given the block back in the meantime. *)
KernelFillThawed ==
    /\ arrived < MaxArrivals
    /\ frozen
    /\ block_status[kernel_block] = "kernel"
    /\ Open(kernel_block, 1)
    /\ arrived' = arrived + 1
    /\ UNCHANGED <<block_status, kernel_block, cursorVars, stop_requested, pc, delivered>>

(* tp_retire_blk_tov expires: the block is retired, full or not, empty or not. *)
KernelRetireOnTimeout ==
    /\ RetireAndOpenNext(0)
    /\ UNCHANGED <<arrived, cursorVars, stop_requested, pc, delivered>>

(* The same timer finds the awaited block given back and opens it. *)
KernelThaw ==
    /\ frozen
    /\ block_status[kernel_block] = "kernel"
    /\ Open(kernel_block, 0)
    /\ UNCHANGED <<block_status, kernel_block, arrived, cursorVars, stop_requested, pc, delivered>>

-----------------------------------------------------------------------------
(* raw_socket_recv() *)

Goto(from, to) == pc = from /\ pc' = to

(* The capture loop calls raw_socket_recv() again. *)
Recv ==
    /\ Goto("caller", "top")
    /\ UNCHANGED <<ringVars, kernelVars, cursorVars, stop_requested, delivered>>

(* Fault: a requested stop is forgotten when frames are waiting. *)
RecvTopFramesFirst ==
    /\ Goto("top", CASE cur_pkt_idx # 0 -> "copy"
                     [] cur_pkt_idx = 0 /\ stop_requested
                            /\ block_status[cur_block] = "kernel" -> "stopped"
                     [] OTHER -> "check")
    /\ UNCHANGED <<ringVars, kernelVars, cursorVars, stop_requested, delivered>>

(* Top of the loop: a requested stop returns RAW_SOCKET_STOPPED. *)
RecvTop ==
    /\ Goto("top", CASE stop_requested -> "stopped"
                     [] ~stop_requested /\ cur_pkt_idx = 0 -> "check"
                     [] OTHER -> "copy")
    /\ UNCHANGED <<ringVars, kernelVars, cursorVars, stop_requested, delivered>>

(* Fault: the block is read without looking at its status. *)
CheckBlockNever ==
    /\ Goto("check", "open")
    /\ UNCHANGED <<ringVars, kernelVars, cursorVars, stop_requested, delivered>>

CheckBlock ==
    /\ Goto("check", IF block_status[cur_block] = "user" THEN "open" ELSE "poll")
    /\ UNCHANGED <<ringVars, kernelVars, cursorVars, stop_requested, delivered>>

(* poll() returns: an event, its timeout or EINTR; the loop starts over. *)
PollReturns ==
    /\ Goto("poll", "top")
    /\ UNCHANGED <<ringVars, kernelVars, cursorVars, stop_requested, delivered>>

PollFails ==
    /\ Goto("poll", "error")
    /\ UNCHANGED <<ringVars, kernelVars, cursorVars, stop_requested, delivered>>

(* Fault: the number of packets of the previous block is kept. *)
OpenBlockStaleCount ==
    /\ Goto("open", IF num_pkts[cur_block] = 0 THEN "give_back_empty" ELSE "copy")
    /\ cur_num_pkts' = IF cur_num_pkts = 0 THEN num_pkts[cur_block] ELSE cur_num_pkts
    /\ cur_pkt_offset' = 0
    /\ UNCHANGED <<ringVars, kernelVars, cur_block, cur_pkt_idx, stop_requested, delivered>>

OpenBlock ==
    /\ Goto("open", IF num_pkts[cur_block] = 0 THEN "give_back_empty" ELSE "copy")
    /\ cur_num_pkts' = num_pkts[cur_block]
    /\ cur_pkt_offset' = 0
    /\ UNCHANGED <<ringVars, kernelVars, cur_block, cur_pkt_idx, stop_requested, delivered>>

(* Fault: an empty block is given back but the cursor stays on it. *)
GiveBackEmptyInPlace ==
    /\ Goto("give_back_empty", "top")
    /\ block_status' = [block_status EXCEPT ![cur_block] = "kernel"]
    /\ UNCHANGED <<num_pkts, first_pkt, kernelVars, cursorVars, stop_requested, delivered>>

(* Block retired on timeout with no packets at all. *)
GiveBackEmpty ==
    /\ Goto("give_back_empty", "top")
    /\ block_status' = [block_status EXCEPT ![cur_block] = "kernel"]
    /\ cur_block' = NextBlock(cur_block)
    /\ UNCHANGED <<num_pkts, first_pkt, kernelVars, cur_pkt_idx, cur_pkt_offset, cur_num_pkts,
                   stop_requested, delivered>>

CopyFrame ==
    /\ Goto("copy", IF cur_pkt_idx + 1 >= cur_num_pkts THEN "give_back" ELSE "caller")
    /\ delivered' = Append(delivered, first_pkt[cur_block] + cur_pkt_offset)
    /\ cur_pkt_idx' = cur_pkt_idx + 1
    /\ cur_pkt_offset' =
           IF cur_pkt_idx + 1 >= cur_num_pkts THEN cur_pkt_offset ELSE cur_pkt_offset + 1
    /\ UNCHANGED <<ringVars, kernelVars, cur_block, cur_num_pkts, stop_requested>>

(* Fault: the cursor moves on although the block is never given back. *)
GiveBackForgotten ==
    /\ Goto("give_back", "caller")
    /\ cur_block' = NextBlock(cur_block)
    /\ cur_pkt_idx' = 0
    /\ UNCHANGED <<ringVars, kernelVars, cur_pkt_offset, cur_num_pkts, stop_requested, delivered>>

(* Block fully drained. *)
GiveBack ==
    /\ Goto("give_back", "caller")
    /\ block_status' = [block_status EXCEPT ![cur_block] = "kernel"]
    /\ cur_block' = NextBlock(cur_block)
    /\ cur_pkt_idx' = 0
    /\ UNCHANGED <<num_pkts, first_pkt, kernelVars, cur_pkt_offset, cur_num_pkts, stop_requested,
                   delivered>>

(* raw_socket_request_stop(), from a signal handler or another thread. *)
RequestStop ==
    /\ ~stop_requested
    /\ stop_requested' = TRUE
    /\ UNCHANGED <<ringVars, kernelVars, cursorVars, pc, delivered>>

-----------------------------------------------------------------------------
(* The specification *)

Kernel ==
    \/ KernelFill \/ KernelFillNext \/ KernelDrop \/ KernelFillThawed
    \/ KernelRetireOnTimeout \/ KernelThaw

Reader ==
    \/ Recv \/ RecvTop \/ CheckBlock \/ PollReturns \/ PollFails \/ OpenBlock
    \/ GiveBackEmpty \/ CopyFrame \/ GiveBack

(* After RAW_SOCKET_STOPPED or -1 the capture loop does not call again. *)
LoopEnded == pc \in {"stopped", "error"} /\ UNCHANGED vars

Next == Kernel \/ Reader \/ RequestStop \/ LoopEnded

Spec == Init /\ [][Next]_vars

(* The capture thread keeps running (poll() always returns, its timeout at *)
(* the latest) and so does the kernel's retire timer.  Frames need not     *)
(* arrive and a stop need not be requested.                                *)
Fairness ==
    /\ WF_vars(Reader)
    /\ WF_vars(KernelRetireOnTimeout \/ KernelThaw)

FairSpec == Spec /\ Fairness

-----------------------------------------------------------------------------
(* Properties *)

(* Types of the state; a block never holds more frames than fit. *)
TypeOK ==
    /\ block_status \in [Blocks -> {"kernel", "user"}]
    /\ num_pkts \in [Blocks -> 0 .. BlockFrames]
    /\ first_pkt \in [Blocks -> Nat]
    /\ kernel_block \in Blocks
    /\ frozen \in BOOLEAN
    /\ arrived \in 0 .. MaxArrivals
    /\ accepted \in Nat
    /\ cur_block \in Blocks
    /\ cur_pkt_idx \in 0 .. BlockFrames
    /\ cur_pkt_offset \in Nat
    /\ cur_num_pkts \in 0 .. BlockFrames
    /\ stop_requested \in BOOLEAN
    /\ pc \in {"caller", "top", "check", "poll", "open", "give_back_empty", "copy", "give_back",
               "stopped", "error"}
    /\ delivered \in Seq(Nat)

(* The points at which raw_socket_recv() reads or writes its current block. *)
TouchesBlock == pc \in {"open", "give_back_empty", "copy", "give_back"}

(* The reader touches a block only while it owns it (raw_socket.c:250-254), *)
(* also in the middle of a block, when block_status is not looked at again, *)
(* and the kernel writes only to a block it owns.                           *)
ExclusiveOwnership ==
    /\ TouchesBlock \/ cur_pkt_idx > 0 => block_status[cur_block] = "user"
    /\ ~frozen => block_status[kernel_block] = "kernel"

(* Every packet header the reader visits lies inside its block: the cached *)
(* cur_num_pkts is the block's num_pkts and index and offset move together *)
(* (raw_socket.c:272-273, 301-310).                                        *)
CursorInBlock ==
    pc = "copy" =>
        /\ cur_num_pkts = num_pkts[cur_block]
        /\ cur_pkt_offset = cur_pkt_idx
        /\ cur_pkt_offset < num_pkts[cur_block]

(* The n-th frame handed to the caller is the n-th frame the kernel put    *)
(* into the ring: none skipped, repeated or reordered across blocks, when  *)
(* the ring wraps, and around blocks retired empty or half full.           *)
RingFifo == \A n \in DOMAIN delivered : delivered[n] = n

(* A frame is dropped only when "every block in the ring was still full"   *)
(* (raw_socket.h:76-79), that is, owned by the reader.                     *)
DropOnlyWhenRingFull ==
    [][arrived' > arrived /\ accepted' = accepted =>
           \A b \in Blocks : block_status'[b] = "user"]_vars

(* Kernel and reader never wait for each other: when the kernel waits for  *)
(* a block, the reader's current block is ready to be read.                *)
NoStandoff ==
    frozen /\ block_status[kernel_block] = "user" => block_status[cur_block] = "user"

(* A requested stop ends the capture loop, "Ctrl+C reacts just as fast"    *)
(* (raw_socket.c:57-59), even if frames keep coming.                       *)
StopEndsLoop == stop_requested ~> pc \in {"stopped", "error"}

(* Every frame in the ring reaches the caller unless the loop ends first;  *)
(* a half-full block is not held back when traffic stops.                  *)
AcceptedIsDelivered ==
    \A n \in 1 .. MaxArrivals :
        accepted >= n ~> Len(delivered) >= n \/ pc \in {"stopped", "error"}
=============================================================================
