------------------------- MODULE RawSocketRingProofs -------------------------
(***************************************************************************)
(* The safety properties of RawSocketRing for rings of every size.  The    *)
(* argument measures blocks by their distance from the reader's block: the *)
(* blocks the reader owns are exactly the first Window ones, they hold     *)
(* consecutive frames, and the reader's position is the next frame to      *)
(* deliver.                                                                *)
(***************************************************************************)
EXTENDS RawSocketRing, SequenceTheorems, TLAPS

(* How far block b is ahead of the reader's block. *)
Dist(b) == IF b >= cur_block THEN b - cur_block ELSE b - cur_block + BlockNr

(* How many blocks the reader owns. *)
Window ==
    IF frozen /\ block_status[kernel_block] = "user" THEN BlockNr ELSE Dist(kernel_block)

(* The first frame after the last block the reader owns. *)
AfterWindow == IF frozen THEN accepted + 1 ELSE first_pkt[kernel_block]

(* The blocks the reader owns are the Window blocks from its own on; the   *)
(* kernel, when it waits for a block, waits for the reader's.              *)
OwnedIsWindow ==
    /\ \A b \in Blocks : block_status[b] = "user" <=> Dist(b) < Window
    /\ frozen /\ block_status[kernel_block] = "user" => kernel_block = cur_block
    /\ ~frozen => block_status[kernel_block] = "kernel"

(* The frames of consecutive blocks are consecutive. *)
Consecutive ==
    /\ \A b \in Blocks :
           block_status[b] = "user" =>
               first_pkt[b] + num_pkts[b] =
                   IF Dist(b) + 1 < Window THEN first_pkt[NextBlock(b)] ELSE AfterWindow
    /\ ~frozen => first_pkt[kernel_block] + num_pkts[kernel_block] = accepted + 1

(* The cursor is inside a block the reader owns, or at the start of one. *)
CursorOk ==
    /\ TouchesBlock \/ cur_pkt_idx > 0 => block_status[cur_block] = "user"
    /\ pc \in {"check", "poll", "open", "give_back_empty"} => cur_pkt_idx = 0
    /\ pc = "give_back_empty" => num_pkts[cur_block] = 0
    /\ pc = "copy" \/ cur_pkt_idx > 0 => cur_num_pkts = num_pkts[cur_block]
    /\ pc = "give_back" => cur_pkt_idx = num_pkts[cur_block] /\ cur_pkt_idx > 0
    /\ pc = "copy" => cur_pkt_idx < num_pkts[cur_block] /\ cur_pkt_offset = cur_pkt_idx
    /\ pc # "give_back" /\ cur_pkt_idx > 0 =>
           cur_pkt_idx < num_pkts[cur_block] /\ cur_pkt_offset = cur_pkt_idx

(* The cursor stands at the next frame to deliver. *)
Position ==
    Len(delivered) + 1 =
        IF Window > 0 THEN first_pkt[cur_block] + cur_pkt_idx ELSE AfterWindow

IInv == TypeOK /\ OwnedIsWindow /\ Consecutive /\ CursorOk /\ Position /\ RingFifo

-----------------------------------------------------------------------------
(* Facts about the ring's arithmetic *)

(* NextBlock without the modulus, raw_socket.c:279 and 307. *)
LEMMA NextBlockIs ==
    \A b \in Blocks : NextBlock(b) = (IF b = BlockNr - 1 THEN 0 ELSE b + 1) /\ NextBlock(b) \in Blocks
BY RingAssumption DEF NextBlock, Blocks

(* Distances are numbered like the blocks, from the reader's block on. *)
LEMMA DistFacts ==
    ASSUME cur_block \in Blocks, NEW b \in Blocks
    PROVE  /\ Dist(b) \in 0 .. (BlockNr - 1)
           /\ Dist(b) = 0 <=> b = cur_block
           /\ Dist(NextBlock(b)) = (IF Dist(b) = BlockNr - 1 THEN 0 ELSE Dist(b) + 1)
           /\ NextBlock(b) # b
<1>1. BlockNr \in Nat /\ BlockNr >= 2
  BY RingAssumption
<1>2. NextBlock(b) = (IF b = BlockNr - 1 THEN 0 ELSE b + 1)
  BY NextBlockIs
<1>3. cur_block \in Nat /\ cur_block < BlockNr /\ b \in Nat /\ b < BlockNr
  BY <1>1 DEF Blocks
<1> QED
  BY <1>1, <1>2, <1>3 DEF Dist

(* No two blocks are equally far ahead. *)
LEMMA DistInjective ==
    ASSUME cur_block \in Blocks, NEW b \in Blocks, NEW c \in Blocks, Dist(b) = Dist(c)
    PROVE  b = c
BY RingAssumption DEF Dist, Blocks

(* When the reader moves on, every other block comes one nearer. *)
LEMMA DistAdvance ==
    ASSUME cur_block \in Blocks, cur_block' = NextBlock(cur_block), NEW b \in Blocks
    PROVE  Dist(b)' = IF b = cur_block THEN BlockNr - 1 ELSE Dist(b) - 1
<1>1. BlockNr \in Nat /\ BlockNr >= 2
  BY RingAssumption
<1>2. cur_block' = (IF cur_block = BlockNr - 1 THEN 0 ELSE cur_block + 1)
  BY NextBlockIs
<1>3. cur_block \in Nat /\ cur_block < BlockNr /\ b \in Nat /\ b < BlockNr
  BY <1>1 DEF Blocks
<1> QED
  BY <1>1, <1>2, <1>3 DEF Dist

-----------------------------------------------------------------------------
(* Types *)

(* Every step of the ring is one of the kernel's or one of raw_socket_recv()'s. *)
LEMMA NextCases ==
    ASSUME [Next]_vars,
           NEW G,
           KernelFill => G, KernelFillNext => G, KernelDrop => G, KernelFillThawed => G,
           KernelRetireOnTimeout => G, KernelThaw => G,
           Recv => G, RecvTop => G, CheckBlock => G, PollReturns => G, PollFails => G,
           OpenBlock => G, GiveBackEmpty => G, CopyFrame => G, GiveBack => G,
           RequestStop => G, UNCHANGED vars => G
    PROVE  G
BY DEF Next, Kernel, Reader, LoopEnded

(* A block the kernel opens is again a block. *)
LEMMA OpenTypes ==
    ASSUME TypeOK, NEW b \in Blocks, NEW n \in {0, 1}, Open(b, n)
    PROVE  /\ num_pkts' \in [Blocks -> 0 .. BlockFrames]
           /\ first_pkt' \in [Blocks -> Nat]
           /\ accepted' \in Nat
           /\ frozen' \in BOOLEAN
<1>1. n \in 0 .. BlockFrames /\ n \in Nat
  BY RingAssumption
<1>2. accepted + 1 \in Nat /\ accepted + n \in Nat
  BY <1>1 DEF TypeOK
<1> QED
  BY <1>1, <1>2 DEF Open, TypeOK

(* Retiring a block and moving to the next one keeps the types. *)
LEMMA RetireTypes ==
    ASSUME TypeOK, NEW n \in {0, 1}, RetireAndOpenNext(n)
    PROVE  /\ block_status' \in [Blocks -> {"kernel", "user"}]
           /\ kernel_block' \in Blocks
           /\ num_pkts' \in [Blocks -> 0 .. BlockFrames]
           /\ first_pkt' \in [Blocks -> Nat]
           /\ accepted' \in Nat
           /\ frozen' \in BOOLEAN
<1>1. NextBlock(kernel_block) \in Blocks
  BY NextBlockIs DEF TypeOK
<1>2. block_status' \in [Blocks -> {"kernel", "user"}] /\ kernel_block' \in Blocks
  BY <1>1 DEF RetireAndOpenNext, TypeOK
<1>3. CASE Open(NextBlock(kernel_block), n)
  BY <1>1, <1>2, <1>3, OpenTypes
<1>4. CASE frozen' = TRUE /\ UNCHANGED <<num_pkts, first_pkt, accepted>>
  BY <1>2, <1>4 DEF TypeOK
<1> QED
  BY <1>3, <1>4 DEF RetireAndOpenNext

(* Every step of kernel and reader keeps the types. *)
LEMMA TypeStep ==
    ASSUME TypeOK, CursorOk, [Next]_vars
    PROVE  TypeOK'
<1>a. BlockNr \in Nat /\ BlockNr >= 2 /\ BlockFrames \in Nat /\ BlockFrames >= 1 /\ MaxArrivals \in Nat
  BY RingAssumption
<1>b. NextBlock(cur_block) \in Blocks /\ NextBlock(kernel_block) \in Blocks
  BY NextBlockIs DEF TypeOK
<1> USE <1>a, <1>b DEF TypeOK, Goto, ringVars, kernelVars, cursorVars
<1>1. KernelFill => TypeOK'
  BY DEF KernelFill
<1>2. KernelFillNext => TypeOK'
  <2> SUFFICES ASSUME KernelFillNext PROVE TypeOK'
    OBVIOUS
  <2>1. RetireAndOpenNext(1) /\ arrived' = arrived + 1 /\ arrived < MaxArrivals
        /\ UNCHANGED <<cursorVars, stop_requested, pc, delivered>>
    BY DEF KernelFillNext
  <2>2. arrived' \in 0 .. MaxArrivals
    BY <2>1
  <2> QED
    BY <2>1, <2>2, RetireTypes
<1>3. KernelDrop => TypeOK'
  BY DEF KernelDrop
<1>4. KernelFillThawed => TypeOK'
  <2> SUFFICES ASSUME KernelFillThawed PROVE TypeOK'
    OBVIOUS
  <2>1. Open(kernel_block, 1) /\ arrived' = arrived + 1 /\ arrived < MaxArrivals
        /\ UNCHANGED <<block_status, kernel_block, cursorVars, stop_requested, pc, delivered>>
    BY DEF KernelFillThawed
  <2>2. arrived' \in 0 .. MaxArrivals
    BY <2>1
  <2> QED
    BY <2>1, <2>2, OpenTypes
<1>5. KernelRetireOnTimeout => TypeOK'
  BY RetireTypes DEF KernelRetireOnTimeout
<1>6. KernelThaw => TypeOK'
  BY OpenTypes DEF KernelThaw
<1>7. Recv => TypeOK'
  BY DEF Recv
<1>8. RecvTop => TypeOK'
  BY DEF RecvTop
<1>9. CheckBlock => TypeOK'
  BY DEF CheckBlock
<1>10. PollReturns => TypeOK'
  BY DEF PollReturns
<1>11. PollFails => TypeOK'
  BY DEF PollFails
<1>12. OpenBlock => TypeOK'
  BY DEF OpenBlock
<1>13. GiveBackEmpty => TypeOK'
  BY DEF GiveBackEmpty
<1>14. CopyFrame => TypeOK'
  <2> SUFFICES ASSUME CopyFrame PROVE TypeOK'
    OBVIOUS
  <2>1. cur_pkt_idx < num_pkts[cur_block] /\ num_pkts[cur_block] \in 0 .. BlockFrames
    BY DEF CopyFrame, CursorOk
  <2>2. cur_pkt_idx' \in 0 .. BlockFrames
    BY <2>1 DEF CopyFrame
  <2>3. delivered' \in Seq(Nat)
    BY DEF CopyFrame
  <2> QED
    BY <2>2, <2>3 DEF CopyFrame
<1>15. GiveBack => TypeOK'
  BY DEF GiveBack
<1>16. RequestStop => TypeOK'
  BY DEF RequestStop
<1>17. UNCHANGED vars => TypeOK'
  BY DEF vars
<1> QED
  BY ONLY [Next]_vars, NextCases, <1>1, <1>2, <1>3, <1>4, <1>5, <1>6, <1>7, <1>8, <1>9, <1>10,
     <1>11, <1>12, <1>13, <1>14, <1>15, <1>16, <1>17

-----------------------------------------------------------------------------
(* Steps that move the window *)

(* A step that leaves ring, kernel and the reader's block alone. *)
LEMMA QuietStep ==
    ASSUME UNCHANGED <<ringVars, kernel_block, frozen, accepted, cur_block>>
    PROVE  /\ OwnedIsWindow => OwnedIsWindow'
           /\ Consecutive => Consecutive'
           /\ Window' = Window
           /\ AfterWindow' = AfterWindow
BY DEF ringVars, OwnedIsWindow, Consecutive, Window, AfterWindow, Dist

(* The kernel retires its block and opens the next one. *)
LEMMA RetireStep ==
    ASSUME TypeOK, OwnedIsWindow, Consecutive, NEW n \in {0, 1}, RetireAndOpenNext(n),
           UNCHANGED cur_block
    PROVE  /\ OwnedIsWindow' /\ Consecutive'
           /\ Window > 0 => Window' > 0 /\ first_pkt'[cur_block] = first_pkt[cur_block]
           /\ Window = 0 => Window' > 0 /\ first_pkt'[cur_block] = AfterWindow
<1> DEFINE k == kernel_block
           nx == NextBlock(kernel_block)
<1>a. BlockNr \in Nat /\ BlockNr >= 2 /\ cur_block \in Blocks /\ k \in Blocks
  BY RingAssumption DEF TypeOK
<1>b. nx \in Blocks /\ \A b \in Blocks : NextBlock(b) \in Blocks
  BY <1>a, NextBlockIs
<1>c. \A b \in Blocks :
         /\ Dist(b) \in 0 .. (BlockNr - 1)
         /\ Dist(b) = 0 <=> b = cur_block
         /\ Dist(NextBlock(b)) = (IF Dist(b) = BlockNr - 1 THEN 0 ELSE Dist(b) + 1)
         /\ NextBlock(b) # b
  BY <1>a, DistFacts
<1>d. \A b, c \in Blocks : Dist(b) = Dist(c) => b = c
  BY <1>a, DistInjective
<1>e. \A b \in Blocks : Dist(b)' = Dist(b)
  BY DEF Dist
<1>f. ~frozen /\ block_status[k] = "kernel" /\ Window = Dist(k)
  BY DEF RetireAndOpenNext, OwnedIsWindow, Window
<1>g. \A b \in Blocks : block_status[b] = "user" <=> Dist(b) < Dist(k)
  BY <1>f DEF OwnedIsWindow
<1>1. \A b \in Blocks : block_status'[b] = "user" <=> Dist(b) < Dist(k) + 1
  <2>1. ASSUME NEW b \in Blocks PROVE block_status'[b] = "user" <=> b = k \/ block_status[b] = "user"
    BY <1>a DEF RetireAndOpenNext, TypeOK
  <2>2. ASSUME NEW b \in Blocks PROVE Dist(b) < Dist(k) + 1 <=> b = k \/ Dist(b) < Dist(k)
    BY <1>a, <1>c, <1>d
  <2> QED
    BY <2>1, <2>2, <1>g
<1>2. CASE block_status[nx] = "kernel"
  <2>1. frozen' = FALSE /\ kernel_block' = nx /\ num_pkts' = [num_pkts EXCEPT ![nx] = n]
        /\ first_pkt' = [first_pkt EXCEPT ![nx] = accepted + 1] /\ accepted' = accepted + n
    BY <1>2 DEF RetireAndOpenNext, Open
  <2>2. Dist(nx) = Dist(k) + 1
    BY <1>a, <1>b, <1>c, <1>g, <1>2
  <2>3. Window' = Dist(k) + 1
    BY <2>1, <2>2, <1>b, <1>e DEF Window, Dist
  <2>4. AfterWindow' = accepted + 1
    BY <2>1, <1>b DEF AfterWindow, TypeOK
  <2>5. block_status'[nx] = "kernel"
    BY <1>2, <1>a, <1>b, <1>c DEF RetireAndOpenNext, TypeOK
  <2>6. OwnedIsWindow'
    BY <1>1, <1>e, <2>1, <2>3, <2>5 DEF OwnedIsWindow
  <2>7. ASSUME NEW b \in Blocks, block_status'[b] = "user"
        PROVE  first_pkt'[b] + num_pkts'[b] =
                   IF Dist(b) + 1 < Dist(k) + 1 THEN first_pkt'[NextBlock(b)] ELSE accepted + 1
    <3>1. b # nx
      BY <2>5, <2>7
    <3>2. first_pkt'[b] = first_pkt[b] /\ num_pkts'[b] = num_pkts[b]
      BY <2>1, <3>1 DEF TypeOK
    <3>3. CASE b = k
      BY <3>2, <3>3, <1>a, <1>c, <1>f DEF Consecutive
    <3>4. CASE b # k
      <4>1. Dist(b) < Dist(k) /\ block_status[b] = "user"
        BY <1>1, <1>g, <2>7, <3>4, <1>a, <1>c, <1>d
      <4>2. Dist(NextBlock(b)) = Dist(b) + 1 /\ NextBlock(b) # nx
        BY <4>1, <1>a, <1>b, <1>c, <2>2
      <4>3. first_pkt'[NextBlock(b)] = first_pkt[NextBlock(b)]
        BY <2>1, <4>2, <1>b DEF TypeOK
      <4>4. Dist(b) + 1 = Dist(k) => NextBlock(b) = k
        BY <4>2, <1>a, <1>b, <1>d
      <4>5. first_pkt[b] + num_pkts[b] = first_pkt[NextBlock(b)]
        BY <4>1, <4>4, <1>a, <1>c, <1>f DEF Consecutive, AfterWindow
      <4> QED
        BY <3>2, <4>1, <4>3, <4>5, <1>a, <1>c
    <3> QED
      BY <3>3, <3>4
  <2>8. first_pkt'[nx] + num_pkts'[nx] = accepted' + 1
    BY <2>1, <1>b DEF TypeOK
  <2>9. Consecutive'
    <3>1. ASSUME NEW b \in Blocks, block_status'[b] = "user"
          PROVE  first_pkt'[b] + num_pkts'[b] =
                     IF Dist(b)' + 1 < Window' THEN first_pkt'[NextBlock(b)] ELSE AfterWindow'
      BY <2>7, <3>1, <1>e, <2>3, <2>4
    <3> QED
      BY <3>1, <2>8, <2>1 DEF Consecutive, NextBlock
  <2>10. nx # cur_block /\ Window' > 0
    BY <2>2, <2>3, <1>a, <1>b, <1>c
  <2>11. first_pkt'[cur_block] = first_pkt[cur_block]
    BY <2>1, <2>10, <1>a DEF TypeOK
  <2>12. Window = 0 => AfterWindow = first_pkt[cur_block]
    BY <1>a, <1>c, <1>f DEF AfterWindow
  <2> QED
    BY <2>6, <2>9, <2>10, <2>11, <2>12
<1>3. CASE block_status[nx] = "user"
  <2>1. frozen' = TRUE /\ kernel_block' = nx /\ UNCHANGED <<num_pkts, first_pkt, accepted>>
    BY <1>3 DEF RetireAndOpenNext
  <2>2. nx = cur_block /\ Dist(k) = BlockNr - 1
    BY <1>a, <1>b, <1>c, <1>g, <1>3
  <2>3. block_status'[nx] = "user"
    BY <1>1, <1>g, <1>b, <1>a, <1>c, <1>3
  <2>4. Window' = BlockNr /\ AfterWindow' = accepted + 1
    BY <2>1, <2>3 DEF Window, AfterWindow
  <2>5. OwnedIsWindow'
    <3>1. \A b \in Blocks : block_status'[b] = "user" <=> Dist(b)' < Window'
      BY <1>1, <1>e, <2>2, <2>4, <1>a
    <3> QED
      BY <3>1, <2>1, <2>2 DEF OwnedIsWindow
  <2>6. ASSUME NEW b \in Blocks
        PROVE  first_pkt[b] + num_pkts[b] =
                   IF Dist(b) + 1 < BlockNr THEN first_pkt[NextBlock(b)] ELSE accepted + 1
    <3>1. CASE b = k
      BY <3>1, <2>2, <1>a, <1>f DEF Consecutive
    <3>2. CASE b # k
      <4>1. Dist(b) < Dist(k) /\ block_status[b] = "user"
        BY <1>g, <2>2, <3>2, <1>a, <1>c, <1>d
      <4>2. Dist(b) + 1 = Dist(k) => NextBlock(b) = k
        BY <4>1, <1>a, <1>b, <1>c, <1>d
      <4>3. first_pkt[b] + num_pkts[b] = first_pkt[NextBlock(b)]
        BY <4>1, <4>2, <1>a, <1>c, <1>f DEF Consecutive, AfterWindow
      <4> QED
        BY <4>1, <4>3, <2>2, <1>a, <1>c
    <3> QED
      BY <3>1, <3>2
  <2>7. Consecutive'
    BY <2>6, <1>e, <2>1, <2>4 DEF Consecutive, NextBlock
  <2> QED
    BY <2>1, <2>2, <2>4, <2>5, <2>7, <1>a, <1>f
<1> QED
  BY <1>2, <1>3, <1>b DEF TypeOK

(* The kernel opens the block it waited for. *)
LEMMA ThawStep ==
    ASSUME TypeOK, OwnedIsWindow, Consecutive, NEW n \in {0, 1}, frozen,
           block_status[kernel_block] = "kernel", Open(kernel_block, n),
           UNCHANGED <<block_status, kernel_block, cur_block>>
    PROVE  /\ OwnedIsWindow' /\ Consecutive'
           /\ Window' = Window
           /\ Window > 0 => first_pkt'[cur_block] = first_pkt[cur_block]
           /\ AfterWindow' = AfterWindow
<1> DEFINE k == kernel_block
<1>a. BlockNr \in Nat /\ BlockNr >= 2 /\ cur_block \in Blocks /\ k \in Blocks
  BY RingAssumption DEF TypeOK
<1>b. \A b \in Blocks : NextBlock(b) \in Blocks
  BY NextBlockIs
<1>c. \A b \in Blocks :
         /\ Dist(b) \in 0 .. (BlockNr - 1)
         /\ Dist(b) = 0 <=> b = cur_block
         /\ Dist(NextBlock(b)) = (IF Dist(b) = BlockNr - 1 THEN 0 ELSE Dist(b) + 1)
  BY <1>a, DistFacts
<1>d. \A b \in Blocks : Dist(b)' = Dist(b)
  BY DEF Dist
<1>1. frozen' = FALSE /\ num_pkts' = [num_pkts EXCEPT ![k] = n]
      /\ first_pkt' = [first_pkt EXCEPT ![k] = accepted + 1] /\ accepted' = accepted + n
  BY DEF Open
<1>2. Window = Dist(k) /\ Window' = Dist(k)
  BY <1>1 DEF Window, Dist
<1>3. AfterWindow = accepted + 1 /\ AfterWindow' = accepted + 1
  BY <1>1, <1>a DEF AfterWindow, TypeOK
<1>4. OwnedIsWindow'
  BY <1>1, <1>2, <1>d DEF OwnedIsWindow
<1>5. ASSUME NEW b \in Blocks, block_status[b] = "user"
      PROVE  first_pkt'[b] + num_pkts'[b] =
                 IF Dist(b) + 1 < Dist(k) THEN first_pkt'[NextBlock(b)] ELSE accepted + 1
  <2>1. b # k /\ first_pkt'[b] = first_pkt[b] /\ num_pkts'[b] = num_pkts[b]
    BY <1>1, <1>5 DEF TypeOK
  <2>2. first_pkt[b] + num_pkts[b] =
            IF Dist(b) + 1 < Dist(k) THEN first_pkt[NextBlock(b)] ELSE accepted + 1
    BY <1>2, <1>3, <1>5 DEF Consecutive
  <2>3. Dist(b) + 1 < Dist(k) => NextBlock(b) # k
    BY <1>a, <1>c
  <2>4. Dist(b) + 1 < Dist(k) => first_pkt'[NextBlock(b)] = first_pkt[NextBlock(b)]
    BY <2>3, <1>1, <1>b DEF TypeOK
  <2> QED
    BY <2>1, <2>2, <2>4
<1>6. first_pkt'[k] + num_pkts'[k] = accepted' + 1
  BY <1>1, <1>a DEF TypeOK
<1>7. Consecutive'
  BY <1>5, <1>6, <1>1, <1>2, <1>3, <1>d DEF Consecutive, NextBlock
<1>8. Window > 0 => first_pkt'[cur_block] = first_pkt[cur_block]
  BY <1>1, <1>2, <1>a, <1>c DEF TypeOK
<1> QED
  BY <1>2, <1>3, <1>4, <1>7, <1>8

(* A frame goes into the block being filled. *)
LEMMA FillStep ==
    ASSUME TypeOK, OwnedIsWindow, Consecutive, KernelFill
    PROVE  OwnedIsWindow' /\ Consecutive' /\ Window' = Window /\ AfterWindow' = AfterWindow
<1> DEFINE k == kernel_block
<1>1. ~frozen /\ block_status[k] = "kernel" /\ k \in Blocks
      /\ num_pkts' = [num_pkts EXCEPT ![k] = @ + 1] /\ accepted' = accepted + 1
      /\ UNCHANGED <<block_status, first_pkt, kernel_block, frozen, cur_block>>
  BY DEF KernelFill, OwnedIsWindow, TypeOK, cursorVars
<1>2. (\A b \in Blocks : Dist(b)' = Dist(b)) /\ Window' = Window /\ AfterWindow' = AfterWindow
  BY <1>1 DEF Window, Dist, AfterWindow
<1>3. OwnedIsWindow'
  BY <1>1, <1>2 DEF OwnedIsWindow
<1>4. \A b \in Blocks : block_status[b] = "user" => num_pkts'[b] = num_pkts[b]
  BY <1>1 DEF TypeOK
<1>5. first_pkt[k] + num_pkts'[k] = accepted' + 1
  <2>1. num_pkts'[k] = num_pkts[k] + 1 /\ num_pkts[k] \in Nat /\ first_pkt[k] \in Nat /\ accepted \in Nat
    BY <1>1, RingAssumption DEF TypeOK
  <2>2. first_pkt[k] + num_pkts[k] = accepted + 1
    BY <1>1 DEF Consecutive
  <2> QED
    BY <1>1, <2>1, <2>2
<1>6. Consecutive'
  BY <1>1, <1>2, <1>4, <1>5 DEF Consecutive, NextBlock
<1> QED
  BY <1>2, <1>3, <1>6

(* The reader gives its block back and moves on to the next one. *)
LEMMA ReleaseStep ==
    ASSUME TypeOK, OwnedIsWindow, Consecutive, block_status[cur_block] = "user",
           block_status' = [block_status EXCEPT ![cur_block] = "kernel"],
           cur_block' = NextBlock(cur_block),
           UNCHANGED <<num_pkts, first_pkt, kernel_block, frozen, accepted>>
    PROVE  /\ OwnedIsWindow' /\ Consecutive'
           /\ first_pkt[cur_block] + num_pkts[cur_block] =
                  IF Window' > 0 THEN first_pkt'[cur_block'] ELSE AfterWindow'
<1> DEFINE k == kernel_block
<1>a. BlockNr \in Nat /\ BlockNr >= 2 /\ cur_block \in Blocks /\ k \in Blocks
  BY RingAssumption DEF TypeOK
<1>b. \A b \in Blocks : NextBlock(b) \in Blocks
  BY NextBlockIs
<1>c. \A b \in Blocks :
         /\ Dist(b) \in 0 .. (BlockNr - 1)
         /\ Dist(b) = 0 <=> b = cur_block
         /\ Dist(NextBlock(b)) = (IF Dist(b) = BlockNr - 1 THEN 0 ELSE Dist(b) + 1)
  BY <1>a, DistFacts
<1>d. \A b \in Blocks : Dist(b)' = IF b = cur_block THEN BlockNr - 1 ELSE Dist(b) - 1
  BY <1>a, DistAdvance
<1>e. block_status'[cur_block] = "kernel"
      /\ \A b \in Blocks : b # cur_block => block_status'[b] = block_status[b]
  BY <1>a DEF TypeOK
<1>f. \A b \in Blocks : block_status[b] = "user" <=> Dist(b) < Window
  BY DEF OwnedIsWindow
<1>1. Window \in 1 .. BlockNr
  BY <1>a, <1>c, <1>f DEF Window
<1>2. block_status'[k] = "kernel" \/ ~frozen
  <2>1. block_status[k] \in {"kernel", "user"}
    BY <1>a DEF TypeOK
  <2> QED
    BY <1>e, <1>a, <2>1 DEF OwnedIsWindow
<1>3. Window' = Dist(k)'
  BY <1>2 DEF Window, Dist
<1>4. Window' = Window - 1
  <2>1. CASE frozen /\ block_status[k] = "user"
    BY <2>1, <1>3, <1>d, <1>a DEF OwnedIsWindow, Window
  <2>2. CASE ~ (frozen /\ block_status[k] = "user")
    <3>1. Window = Dist(k)
      BY <2>2 DEF Window
    <3> QED
      BY <3>1, <1>1, <1>3, <1>d, <1>c, <1>a
  <2> QED
    BY <2>1, <2>2
<1>5. OwnedIsWindow'
  <2>1. ASSUME NEW b \in Blocks PROVE block_status'[b] = "user" <=> Dist(b)' < Window'
    <3>1. CASE b = cur_block
      BY <3>1, <1>e, <1>d, <1>4, <1>1, <1>a
    <3>2. CASE b # cur_block
      BY <3>2, <1>e, <1>d, <1>f, <1>4, <1>1, <1>a, <1>c
    <3> QED
      BY <3>1, <3>2
  <2>2. ~frozen => block_status'[k] = "kernel"
    BY <1>e, <1>a DEF OwnedIsWindow
  <2>3. frozen => block_status'[k] = "kernel"
    BY <1>2
  <2> QED
    BY <2>1, <2>2, <2>3 DEF OwnedIsWindow
<1>6. AfterWindow' = AfterWindow
  BY DEF AfterWindow
<1>7. ASSUME NEW b \in Blocks, block_status'[b] = "user"
      PROVE  first_pkt[b] + num_pkts[b] =
                 IF Dist(b)' + 1 < Window' THEN first_pkt[NextBlock(b)] ELSE AfterWindow'
  <2>1. b # cur_block /\ block_status[b] = "user"
    BY <1>7, <1>e
  <2>2. Dist(b)' + 1 < Window' <=> Dist(b) + 1 < Window
    BY <2>1, <1>d, <1>4, <1>1, <1>c, <1>a
  <2> QED
    BY <2>1, <2>2, <1>6 DEF Consecutive
<1>8. Consecutive'
  BY <1>7 DEF Consecutive, NextBlock
<1>9. first_pkt[cur_block] + num_pkts[cur_block] =
          IF 1 < Window THEN first_pkt[NextBlock(cur_block)] ELSE AfterWindow
  <2>1. Dist(cur_block) = 0
    BY <1>a, <1>c
  <2> QED
    BY <2>1, <1>a DEF Consecutive
<1> QED
  BY <1>1, <1>4, <1>5, <1>6, <1>8, <1>9

-----------------------------------------------------------------------------
(* The inductive invariant *)

(* The ring as raw_socket_open() sets it up satisfies the invariant. *)
LEMMA InitIInv == Init => IInv
<1> SUFFICES ASSUME Init PROVE IInv
  OBVIOUS
<1>a. BlockNr \in Nat /\ BlockNr >= 2 /\ BlockFrames \in Nat /\ MaxArrivals \in Nat /\ 0 \in Blocks
  BY RingAssumption DEF Blocks
<1>1. TypeOK
  BY <1>a DEF Init, TypeOK
<1>2. Window = 0 /\ AfterWindow = 1
  BY <1>a DEF Init, Window, Dist, AfterWindow
<1>3. \A b \in Blocks : Dist(b) \in Nat
  BY <1>1, <1>a, DistFacts DEF TypeOK
<1>4. OwnedIsWindow /\ Consecutive
  BY <1>2, <1>3, <1>a DEF Init, OwnedIsWindow, Consecutive
<1>5. CursorOk /\ Position /\ RingFifo
  BY <1>2, <1>a DEF Init, CursorOk, TouchesBlock, Position, RingFifo
<1> QED
  BY <1>1, <1>4, <1>5 DEF IInv

(* A step of the kernel leaves the cursor alone, and the reader's block too *)
(* once the reader is in it.                                                *)
LEMMA KernelKeepsCursor ==
    ASSUME TypeOK, CursorOk, UNCHANGED <<cursorVars, pc>>,
           block_status[cur_block] = "user" =>
               block_status'[cur_block] = "user" /\ num_pkts'[cur_block] = num_pkts[cur_block]
    PROVE  CursorOk'
BY DEF CursorOk, TouchesBlock, cursorVars

(* Every step of the kernel keeps the invariant. *)
LEMMA KernelStep ==
    ASSUME IInv, Kernel
    PROVE  OwnedIsWindow' /\ Consecutive' /\ CursorOk' /\ Position' /\ RingFifo'
<1> USE DEF IInv
<1>a. UNCHANGED <<cursorVars, pc, delivered>> /\ UNCHANGED cur_block /\ UNCHANGED cur_pkt_idx
  BY DEF Kernel, KernelFill, KernelFillNext, KernelDrop, KernelFillThawed, KernelRetireOnTimeout,
         KernelThaw, cursorVars
<1>b. RingFifo'
  BY <1>a DEF RingFifo
<1>c. BlockNr \in Nat /\ cur_block \in Blocks /\ kernel_block \in Blocks
      /\ NextBlock(kernel_block) \in Blocks /\ Dist(cur_block) = 0
  BY RingAssumption, DistFacts, NextBlockIs DEF TypeOK
<1>d. Window \in Nat /\ (Window > 0 <=> block_status[cur_block] = "user")
  <2>1. Window \in Nat
    BY <1>c, DistFacts DEF Window, TypeOK
  <2> QED
    BY <1>c, <2>1 DEF OwnedIsWindow
<1>e. Window = 0 => cur_pkt_idx = 0
  BY <1>c, <1>d DEF CursorOk, TypeOK
<1>1. CASE KernelFill
  <2>1. OwnedIsWindow' /\ Consecutive' /\ Window' = Window /\ AfterWindow' = AfterWindow
    BY <1>1, FillStep
  <2>2. ~frozen /\ block_status[kernel_block] = "kernel" /\ UNCHANGED <<block_status, first_pkt>>
        /\ num_pkts' = [num_pkts EXCEPT ![kernel_block] = @ + 1]
    BY <1>1 DEF KernelFill, OwnedIsWindow
  <2>3. CursorOk'
    <3>1. block_status[cur_block] = "user" =>
              block_status'[cur_block] = "user" /\ num_pkts'[cur_block] = num_pkts[cur_block]
      BY <2>2, <1>c DEF TypeOK
    <3> QED
      BY <3>1, <1>a, KernelKeepsCursor
  <2>4. Position'
    BY <2>1, <2>2, <1>a DEF Position
  <2> QED
    BY <2>1, <2>3, <2>4, <1>b
<1>2. ASSUME NEW n \in {0, 1}, RetireAndOpenNext(n)
      PROVE  OwnedIsWindow' /\ Consecutive' /\ CursorOk' /\ Position'
  <2>1. OwnedIsWindow' /\ Consecutive'
        /\ (Window > 0 => Window' > 0 /\ first_pkt'[cur_block] = first_pkt[cur_block])
        /\ (Window = 0 => Window' > 0 /\ first_pkt'[cur_block] = AfterWindow)
    BY <1>2, <1>a, RetireStep
  <2>2. CursorOk'
    <3>1. block_status[cur_block] = "user" =>
              block_status'[cur_block] = "user" /\ num_pkts'[cur_block] = num_pkts[cur_block]
      BY <1>2, <1>c DEF RetireAndOpenNext, Open, TypeOK
    <3> QED
      BY <3>1, <1>a, KernelKeepsCursor
  <2>3. Position'
    <3>1. CASE Window > 0
      BY <3>1, <2>1, <1>a DEF Position
    <3>2. CASE Window = 0
      <4>1. Len(delivered) + 1 = AfterWindow /\ AfterWindow \in Nat
        BY <3>2 DEF Position, AfterWindow, TypeOK
      <4> QED
        BY <3>2, <4>1, <2>1, <1>a, <1>e DEF Position
    <3> QED
      BY <3>1, <3>2, <1>d
  <2> QED
    BY <2>1, <2>2, <2>3
<1>3. ASSUME NEW n \in {0, 1}, frozen, block_status[kernel_block] = "kernel", Open(kernel_block, n),
             UNCHANGED <<block_status, kernel_block>>
      PROVE  OwnedIsWindow' /\ Consecutive' /\ CursorOk' /\ Position'
  <2>1. OwnedIsWindow' /\ Consecutive' /\ Window' = Window /\ AfterWindow' = AfterWindow
        /\ (Window > 0 => first_pkt'[cur_block] = first_pkt[cur_block])
    BY <1>3, <1>a, ThawStep
  <2>2. CursorOk'
    <3>1. block_status[cur_block] = "user" =>
              block_status'[cur_block] = "user" /\ num_pkts'[cur_block] = num_pkts[cur_block]
      BY <1>3, <1>c DEF Open, TypeOK
    <3> QED
      BY <3>1, <1>a, KernelKeepsCursor
  <2>3. Position'
    BY <2>1, <1>a DEF Position
  <2> QED
    BY <2>1, <2>2, <2>3
<1>4. CASE KernelDrop
  <2>1. UNCHANGED <<ringVars, kernel_block, frozen, accepted, cur_block>>
    BY <1>4, <1>a DEF KernelDrop
  <2>2. OwnedIsWindow' /\ Consecutive' /\ Window' = Window /\ AfterWindow' = AfterWindow
    BY <2>1, QuietStep
  <2>3. CursorOk'
    BY <2>1, <1>a, KernelKeepsCursor DEF ringVars
  <2>4. Position'
    BY <2>1, <2>2, <1>a DEF Position, ringVars
  <2> QED
    BY <2>2, <2>3, <2>4, <1>b
<1>5. CASE KernelFillNext \/ KernelRetireOnTimeout
  BY <1>5, <1>2, <1>b DEF KernelFillNext, KernelRetireOnTimeout
<1>6. CASE KernelFillThawed \/ KernelThaw
  BY <1>6, <1>3, <1>b DEF KernelFillThawed, KernelThaw
<1> QED
  BY <1>1, <1>4, <1>5, <1>6 DEF Kernel

(* A step of raw_socket_recv() that neither delivers nor gives a block back. *)
LEMMA QuietReaderStep ==
    ASSUME IInv,
           Recv \/ RecvTop \/ CheckBlock \/ PollReturns \/ PollFails \/ OpenBlock \/ RequestStop
    PROVE  OwnedIsWindow' /\ Consecutive' /\ CursorOk' /\ Position' /\ RingFifo'
<1> USE DEF IInv
<1>1. UNCHANGED <<ringVars, kernelVars, cur_block, cur_pkt_idx, delivered>>
  BY DEF Recv, RecvTop, CheckBlock, PollReturns, PollFails, OpenBlock, RequestStop, cursorVars
<1>2. OwnedIsWindow' /\ Consecutive' /\ Window' = Window /\ AfterWindow' = AfterWindow
  BY <1>1, QuietStep DEF kernelVars
<1>3. Position' /\ RingFifo'
  BY <1>1, <1>2 DEF Position, RingFifo, ringVars
<1>4. CursorOk'
  <2> USE DEF CursorOk, TouchesBlock, ringVars, cursorVars, Goto
  <2>0. cur_block \in Blocks /\ cur_pkt_idx \in Nat /\ num_pkts[cur_block] \in Nat
        /\ block_status[cur_block] \in {"kernel", "user"}
    BY RingAssumption DEF TypeOK
  <2>1. CASE Recv
    BY <2>1, <2>0 DEF Recv
  <2>2. CASE RecvTop
    BY <2>2, <2>0 DEF RecvTop
  <2>3. CASE CheckBlock
    BY <2>3, <2>0 DEF CheckBlock
  <2>4. CASE PollReturns
    BY <2>4, <2>0 DEF PollReturns
  <2>5. CASE PollFails
    BY <2>5, <2>0 DEF PollFails
  <2>6. CASE OpenBlock
    BY <2>6, <2>0 DEF OpenBlock
  <2>7. CASE RequestStop
    BY <2>7, <2>0 DEF RequestStop
  <2> QED
    BY <2>1, <2>2, <2>3, <2>4, <2>5, <2>6, <2>7
<1> QED
  BY <1>2, <1>3, <1>4

(* Copying a frame out of the current block (raw_socket.c:284-312) keeps the invariant. *)
LEMMA CopyStep ==
    ASSUME IInv, CopyFrame
    PROVE  OwnedIsWindow' /\ Consecutive' /\ CursorOk' /\ Position' /\ RingFifo'
<1> USE DEF IInv
<1>1. UNCHANGED <<ringVars, kernelVars, cur_block>>
  BY DEF CopyFrame
<1>2. OwnedIsWindow' /\ Consecutive' /\ Window' = Window /\ AfterWindow' = AfterWindow
  BY <1>1, QuietStep DEF kernelVars
<1>3. /\ cur_block \in Blocks /\ cur_pkt_idx \in Nat /\ num_pkts[cur_block] \in Nat
      /\ first_pkt[cur_block] \in Nat /\ delivered \in Seq(Nat)
      /\ block_status[cur_block] = "user" /\ cur_num_pkts = num_pkts[cur_block]
      /\ cur_pkt_offset = cur_pkt_idx /\ cur_pkt_idx < num_pkts[cur_block]
  BY RingAssumption DEF CopyFrame, CursorOk, TouchesBlock, TypeOK, Goto
<1>4. Window > 0
  <2>1. Dist(cur_block) = 0
    BY <1>3, DistFacts
  <2> QED
    BY <1>3, <2>1 DEF OwnedIsWindow
<1>5. Len(delivered) + 1 = first_pkt[cur_block] + cur_pkt_idx
  BY <1>4 DEF Position
<1>6. /\ Len(delivered') = Len(delivered) + 1
      /\ delivered'[Len(delivered) + 1] = Len(delivered) + 1
      /\ \A n \in DOMAIN delivered : delivered'[n] = delivered[n]
  BY <1>3, <1>5 DEF CopyFrame
<1>7. Position'
  <2>1. cur_pkt_idx' = cur_pkt_idx + 1
    BY DEF CopyFrame
  <2>2. first_pkt'[cur_block'] = first_pkt[cur_block] /\ Window' > 0
    BY <1>1, <1>2, <1>4 DEF ringVars
  <2>3. Len(delivered) \in Nat
    BY <1>3
  <2>4. Len(delivered') + 1 = first_pkt'[cur_block'] + cur_pkt_idx'
    BY <2>1, <2>2, <2>3, <1>3, <1>5, <1>6
  <2> QED
    BY <2>2, <2>4 DEF Position
<1>8. RingFifo'
  <2>1. delivered' \in Seq(Nat)
    BY <1>3 DEF CopyFrame
  <2>2. \A n \in DOMAIN delivered' : n \in DOMAIN delivered \/ n = Len(delivered) + 1
    <3>1. Len(delivered) \in Nat /\ DOMAIN delivered = 1 .. Len(delivered)
          /\ DOMAIN delivered' = 1 .. (Len(delivered) + 1)
      BY <2>1, <1>3, <1>6
    <3> QED
      BY <3>1
  <2> QED
    BY <2>2, <1>6 DEF RingFifo
<1>9. CursorOk'
  BY <1>1, <1>3 DEF CursorOk, TouchesBlock, CopyFrame, Goto, ringVars
<1> QED
  BY <1>2, <1>7, <1>8, <1>9

(* Giving a block back to the kernel (raw_socket.c:275-281, 305-306) keeps the invariant. *)
LEMMA GiveBackStep ==
    ASSUME IInv, GiveBack \/ GiveBackEmpty
    PROVE  OwnedIsWindow' /\ Consecutive' /\ CursorOk' /\ Position' /\ RingFifo'
<1> USE DEF IInv
<1>1. /\ block_status[cur_block] = "user" /\ cur_pkt_idx = num_pkts[cur_block]
      /\ pc' \in {"caller", "top"} /\ cur_pkt_idx' = 0
  BY DEF GiveBack, GiveBackEmpty, CursorOk, TouchesBlock, Goto
<1>2. /\ block_status' = [block_status EXCEPT ![cur_block] = "kernel"]
      /\ cur_block' = NextBlock(cur_block)
      /\ UNCHANGED <<num_pkts, first_pkt, kernel_block, frozen, accepted, delivered>>
  BY DEF GiveBack, GiveBackEmpty, kernelVars
<1>3. /\ OwnedIsWindow' /\ Consecutive'
      /\ first_pkt[cur_block] + num_pkts[cur_block] =
             IF Window' > 0 THEN first_pkt'[cur_block'] ELSE AfterWindow'
  BY <1>1, <1>2, ReleaseStep
<1>4. Window > 0
  <2>1. cur_block \in Blocks /\ Dist(cur_block) = 0
    BY DistFacts DEF TypeOK
  <2> QED
    BY <1>1, <2>1 DEF OwnedIsWindow
<1>5. first_pkt' \in [Blocks -> Nat] /\ cur_block' \in Blocks
  BY <1>2, NextBlockIs DEF TypeOK
<1>6. Position'
  BY <1>1, <1>2, <1>3, <1>4, <1>5 DEF Position
<1>7. CursorOk' /\ RingFifo'
  BY <1>1, <1>2 DEF CursorOk, TouchesBlock, RingFifo
<1> QED
  BY <1>3, <1>6, <1>7

(* The inductive invariant holds of every reachable state. *)
THEOREM InductiveInvariant == Spec => []IInv
<1>1. Init => IInv
  BY InitIInv
<1>2. IInv /\ [Next]_vars => IInv'
  <2> SUFFICES ASSUME IInv, [Next]_vars PROVE IInv'
    OBVIOUS
  <2>1. TypeOK'
    BY TypeStep DEF IInv
  <2>2. CASE Kernel
    BY <2>1, <2>2, KernelStep DEF IInv
  <2>3. CASE Reader \/ RequestStop
    BY <2>1, <2>3, QuietReaderStep, CopyStep, GiveBackStep DEF Reader, IInv
  <2>4. CASE UNCHANGED vars
    <3>1. UNCHANGED <<ringVars, kernelVars, cursorVars, pc, delivered>>
      BY <2>4 DEF vars
    <3>2. OwnedIsWindow' /\ Consecutive' /\ Window' = Window /\ AfterWindow' = AfterWindow
      BY <3>1, QuietStep DEF IInv, kernelVars, cursorVars
    <3>3. CursorOk' /\ Position' /\ RingFifo'
      BY <3>1, <3>2 DEF IInv, CursorOk, TouchesBlock, Position, RingFifo, ringVars, cursorVars
    <3> QED
      BY <2>1, <3>2, <3>3 DEF IInv
  <2> QED
    BY <2>2, <2>3, <2>4 DEF Next, LoopEnded
<1> QED
  BY <1>1, <1>2, PTL DEF Spec

(* TypeOK: blocks, counters and cursor of raw_socket.c stay in range. *)
THEOREM TypeCorrect == Spec => []TypeOK
BY InductiveInvariant, PTL DEF IInv

(* ExclusiveOwnership: reader and kernel never touch each other's blocks. *)
THEOREM OwnershipCorrect == Spec => []ExclusiveOwnership
<1>1. IInv => ExclusiveOwnership
  BY DEF IInv, OwnedIsWindow, CursorOk, ExclusiveOwnership
<1> QED
  BY <1>1, InductiveInvariant, PTL

(* CursorInBlock: every packet header that is read lies inside its block. *)
THEOREM CursorCorrect == Spec => []CursorInBlock
<1>1. IInv => CursorInBlock
  BY DEF IInv, CursorOk, CursorInBlock
<1> QED
  BY <1>1, InductiveInvariant, PTL

(* RingFifo: frames come out of raw_socket_recv() in the kernel's order,   *)
(* each of them once.                                                      *)
THEOREM FifoCorrect == Spec => []RingFifo
<1>1. IInv => RingFifo
  BY DEF IInv
<1> QED
  BY <1>1, InductiveInvariant, PTL

(* NoStandoff: reader and kernel never wait for each other. *)
THEOREM NoStandoffCorrect == Spec => []NoStandoff
<1>1. IInv => NoStandoff
  BY DEF IInv, OwnedIsWindow, NoStandoff
<1> QED
  BY <1>1, InductiveInvariant, PTL

(* DropOnlyWhenRingFull: a frame is lost only while the reader owns every  *)
(* block of the ring, raw_socket.h:76-79.                                  *)
THEOREM DropCorrect == Spec => DropOnlyWhenRingFull
<1> DEFINE Dropped == arrived' > arrived /\ accepted' = accepted
           AllUser == \A b \in Blocks : block_status'[b] = "user"
           FullWhenWaiting ==
               frozen /\ block_status[kernel_block] = "user" =>
                   \A b \in Blocks : block_status[b] = "user"
<1>0. IInv => FullWhenWaiting
  <2> SUFFICES ASSUME IInv, frozen, block_status[kernel_block] = "user", NEW b \in Blocks
               PROVE  block_status[b] = "user"
    OBVIOUS
  <2>1. Window = BlockNr
    BY DEF Window
  <2>2. Dist(b) < BlockNr
    BY DistFacts, RingAssumption DEF IInv, TypeOK
  <2> QED
    BY <2>1, <2>2 DEF IInv, OwnedIsWindow
<1>1. IInv /\ FullWhenWaiting' /\ [Next]_vars => [Dropped => AllUser]_vars
  <2> SUFFICES ASSUME IInv, FullWhenWaiting', Next, Dropped PROVE AllUser
    OBVIOUS
  <2>1. accepted \in Nat /\ arrived \in Nat
    BY RingAssumption DEF IInv, TypeOK
  <2>2. frozen' /\ block_status'[kernel_block'] = "user"
    <3>1. CASE KernelFillNext
      <4>1. ~ Open(NextBlock(kernel_block), 1)
        BY <2>1 DEF Open
      <4>2. frozen' /\ block_status[NextBlock(kernel_block)] = "user"
            /\ kernel_block' = NextBlock(kernel_block)
            /\ block_status' = [block_status EXCEPT ![kernel_block] = "user"]
        BY <3>1, <4>1 DEF KernelFillNext, RetireAndOpenNext
      <4>3. NextBlock(kernel_block) \in Blocks
        BY NextBlockIs DEF IInv, TypeOK
      <4> QED
        BY <4>2, <4>3 DEF IInv, TypeOK
    <3>2. CASE KernelDrop
      BY <3>2 DEF KernelDrop, ringVars
    <3>3. CASE KernelFill \/ KernelFillThawed
      BY <3>3, <2>1 DEF KernelFill, KernelFillThawed, Open
    <3>4. CASE KernelRetireOnTimeout \/ KernelThaw \/ Reader \/ RequestStop \/ LoopEnded
      <4>1. arrived' = arrived
        BY <3>4 DEF KernelRetireOnTimeout, KernelThaw, Reader, Recv, RecvTop, CheckBlock, PollReturns,
           PollFails, OpenBlock, GiveBackEmpty, CopyFrame, GiveBack, RequestStop, LoopEnded,
           kernelVars, vars
      <4> QED
        BY <4>1, <2>1
    <3> QED
      BY <3>1, <3>2, <3>3, <3>4 DEF Next, Kernel
  <2> QED
    BY <2>2
<1>2. (Spec => []IInv) /\ (Spec => [][Next]_vars)
  BY InductiveInvariant, PTL DEF Spec
<1> QED
  BY <1>0, <1>1, <1>2, PTL DEF DropOnlyWhenRingFull
=============================================================================
