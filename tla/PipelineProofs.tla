---------------------------- MODULE PipelineProofs ----------------------------
(***************************************************************************)
(* The safety properties of Pipeline, for any size of the queue and any    *)
(* number of frames.  The program is shown to implement CaptureBackend and *)
(* BoundedChannel, so what is proved of the backend holds inside the       *)
(* program; the invariant below adds where each frame is on its way from   *)
(* the capture thread to the printed line.                                 *)
(***************************************************************************)
EXTENDS Pipeline, TLAPS

BackendProofs == INSTANCE CaptureBackendProofs WITH OtherThreads <- {"main"}, MaxRuns <- 1

-----------------------------------------------------------------------------
(* The program implements the backend and the queue *)

(* The two instances of CaptureBackend mean the same: its steps here ... *)
LEMMA SameSteps ==
    /\ Backend!RunCall => BackendProofs!RunCall
    /\ Backend!RunStep => BackendProofs!RunStep
    /\ Backend!Recv => BackendProofs!Recv
    /\ Backend!Callback => BackendProofs!Callback
    /\ Backend!SigintKills => BackendProofs!SigintKills
    /\ Backend!SigintHandled => BackendProofs!SigintHandled
    /\ Backend!LoadActive("main") => BackendProofs!LoadActive("main")
    /\ Backend!StoreStop("main") => BackendProofs!StoreStop("main")
<1> USE DEF
        Backend!inputVars, BackendProofs!inputVars, Backend!promiscVars,
               BackendProofs!promiscVars, Backend!signalVars, BackendProofs!signalVars,
               Backend!stopVars, BackendProofs!stopVars, Backend!frameVars,
               BackendProofs!frameVars, Backend!statsVars, BackendProofs!statsVars,
               Backend!Goto, BackendProofs!Goto, Backend!NULL, BackendProofs!NULL
<1>1. Backend!RunCall => BackendProofs!RunCall
  BY DEF Backend!RunCall, BackendProofs!RunCall
<1>2. Backend!RunStep => BackendProofs!RunStep
  BY DEF Backend!RunStep, BackendProofs!RunStep, Backend!OpenCall, BackendProofs!OpenCall,
         Backend!GiveUp, BackendProofs!GiveUp, Backend!CompileFilter,
         BackendProofs!CompileFilter, Backend!OpenSocket, BackendProofs!OpenSocket,
         Backend!BindDevice, BackendProofs!BindDevice, Backend!GetFlags, BackendProofs!GetFlags,
         Backend!SetPromisc, BackendProofs!SetPromisc, Backend!SetVersion,
         BackendProofs!SetVersion, Backend!SetRing, BackendProofs!SetRing, Backend!MapRing,
         BackendProofs!MapRing, Backend!AllocContext, BackendProofs!AllocContext,
         Backend!OpenFailed, BackendProofs!OpenFailed, Backend!AttachFilter,
         BackendProofs!AttachFilter, Backend!OpenFile, BackendProofs!OpenFile,
         Backend!WriteHeader, BackendProofs!WriteHeader, Backend!InstallHandler,
         BackendProofs!InstallHandler, Backend!SetActive, BackendProofs!SetActive,
         Backend!RecvStopped, BackendProofs!RecvStopped, Backend!WriteRecord,
         BackendProofs!WriteRecord, Backend!RestoreHandler, BackendProofs!RestoreHandler,
         Backend!ClearActive, BackendProofs!ClearActive, Backend!CloseFile,
         BackendProofs!CloseFile, Backend!ReadStats, BackendProofs!ReadStats,
         Backend!ClearPromisc, BackendProofs!ClearPromisc, Backend!ReleaseContext,
         BackendProofs!ReleaseContext
<1>3. Backend!Recv => BackendProofs!Recv
  BY DEF Backend!Recv, BackendProofs!Recv, Backend!RecvFrame, BackendProofs!RecvFrame,
         Backend!RecvFails, BackendProofs!RecvFails
<1>4. Backend!Callback => BackendProofs!Callback
  BY DEF Backend!Callback, BackendProofs!Callback
<1>5. Backend!SigintKills => BackendProofs!SigintKills
  BY DEF Backend!SigintKills, BackendProofs!SigintKills
<1>6. Backend!SigintHandled => BackendProofs!SigintHandled
  BY DEF Backend!SigintHandled, BackendProofs!SigintHandled
<1>7. Backend!LoadActive("main") => BackendProofs!LoadActive("main")
  BY DEF Backend!LoadActive, BackendProofs!LoadActive
<1>8. Backend!StoreStop("main") => BackendProofs!StoreStop("main")
  BY DEF Backend!StoreStop, BackendProofs!StoreStop, Backend!ContextLive,
         BackendProofs!ContextLive
<1> QED  BY <1>1, <1>2, <1>3, <1>4, <1>5, <1>6, <1>7, <1>8

(* ... and its properties. *)
LEMMA SameProperties ==
    /\ BackendProofs!TypeOK => Backend!TypeOK
    /\ Backend!Init => BackendProofs!Init
<1>1. BackendProofs!TypeOK => Backend!TypeOK
  BY DEF Backend!TypeOK, BackendProofs!TypeOK, Backend!Points, BackendProofs!Points,
         Backend!Resources, BackendProofs!Resources, Backend!Calls, BackendProofs!Calls,
         Backend!Contexts, BackendProofs!Contexts, Backend!NULL, BackendProofs!NULL
<1>2. Backend!Init => BackendProofs!Init
  BY DEF Backend!Init, BackendProofs!Init, Backend!NULL, BackendProofs!NULL
<1> QED  BY <1>1, <1>2

(* Every step of the program is a step of the backend or leaves it alone. *)
LEMMA BackendStep ==
    ASSUME [Next]_vars
    PROVE  [BackendProofs!Next]_(BackendProofs!vars)
<1> USE SameSteps DEF BackendProofs!Next, BackendProofs!Signals
<1>1. UNCHANGED backendVars => UNCHANGED BackendProofs!vars
  BY DEF backendVars, BackendProofs!vars, BackendProofs!inputVars, BackendProofs!promiscVars,
         BackendProofs!signalVars, BackendProofs!stopVars, BackendProofs!frameVars,
         BackendProofs!statsVars
<1>2. CASE MainStep
  BY <1>1, <1>2 DEF MainStep, SetupSteps, ParseArgs, ListDevices, ChooseDevice, CompileDisplayFilter,
         SetupStep, Pop, PrintPacket, PopReturnsFalse, JoinAndExit
<1>3. CASE CaptureThread
  BY <1>1, <1>3 DEF CaptureThread, CaptureStarts, CaptureStep, queue_push_callback, CloseQueue
<1>4. CASE CaptureReceives
  BY <1>4 DEF CaptureReceives
<1>5. CASE CtrlC
  BY <1>5 DEF CtrlC
<1>6. CASE HandlerStores
  BY <1>6 DEF HandlerStores
<1>7. CASE Gone \/ UNCHANGED vars
  BY <1>1, <1>7 DEF Gone, vars
<1> QED  BY <1>2, <1>3, <1>4, <1>5, <1>6, <1>7 DEF Next

(* Run by the program, with a callback that blocks on a full queue and     *)
(* Ctrl+C on either thread, the backend behaves as CaptureBackend allows.  *)
THEOREM ImplementsBackend == Spec => BackendProofs!Spec
<1>1. Init => BackendProofs!Init
  BY SameProperties DEF Init
<1>2. [Next]_vars => [BackendProofs!Next]_(BackendProofs!vars)
  BY BackendStep
<1> QED  BY <1>1, <1>2, PTL DEF Spec, BackendProofs!Spec

(* What CaptureBackendProofs assumes of the constants holds here. *)
LEMMA BackendAssumed == 1 \in Nat /\ MaxFrames \in Nat
BY PipelineAssumption

(* So the backend's invariant holds in the program. *)
LEMMA BackendInvariant == Spec => []BackendProofs!IInv
BY BackendAssumed, ImplementsBackend, BackendProofs!InductiveInvariant, PTL

-----------------------------------------------------------------------------
(* Where the frames are *)

Types ==
    /\ queue_ \in Seq(1 .. MaxFrames)
    /\ popped \in Seq(1 .. MaxFrames)
    /\ Len(queue_) <= MaxSize
    /\ closed_ \in BOOLEAN
    /\ main_pc \in Setup \cup {"pop", "print", "join", "exit"}
    /\ count \in Nat
    /\ printed \in Seq(Nat \X Nat)
    /\ exit_code \in {0, 1}

(* The frames handed on are numbered as they came: first those popped,     *)
(* then those in the queue.  The counter of the printer is the number of   *)
(* the last frame it was given.                                            *)
FramesInv ==
    /\ Len(popped) + Len(queue_) = called
    /\ \A i \in 1 .. Len(popped) : popped[i] = i
    /\ \A i \in 1 .. Len(queue_) : queue_[i] = Len(popped) + i
    /\ Len(popped) = IF main_pc = "print" THEN count + 1 ELSE count
    /\ \A i \in 1 .. Len(printed) : printed[i][1] = printed[i][2] /\ printed[i][2] <= count

(* How far the two threads are relative to each other. *)
ThreadsInv ==
    /\ pc = "idle" => run = 0 /\ called = 0
    /\ pc \notin {"idle", "killed"} => run = 1
    /\ main_pc \in Setup => run = 0
    /\ closed_ => pc \in {"returned", "killed"}
    /\ main_pc = "join" => closed_ /\ queue_ = <<>>
    /\ main_pc = "exit" =>
           \/ run = 0 /\ exit_code = 1
           \/ /\ pc = "returned" /\ closed_ /\ queue_ = <<>>
              /\ exit_code = IF result = 0 THEN 0 ELSE 1

FlowInv == Types /\ FramesInv /\ ThreadsInv

(* Of the backend's steps, only the callback changes the number of frames  *)
(* handed on, only entering run_impl() starts a run, and a backend that    *)
(* has returned does nothing more.                                         *)
LEMMA BackendSteady ==
    ASSUME Backend!RunStep \/ Backend!Recv
    PROVE  /\ called' = called /\ run' = run
           /\ pc \notin {"idle", "killed", "returned"}
           /\ pc' \notin {"idle", "killed"}
<1> USE DEF Backend!Goto, Backend!inputVars, Backend!frameVars
<1>1. CASE Backend!Recv
  BY <1>1 DEF Backend!Recv, Backend!RecvFrame, Backend!RecvFails
<1>2. CASE Backend!RunStep
  BY <1>2 DEF Backend!RunStep, Backend!OpenCall, Backend!GiveUp,
         Backend!CompileFilter, Backend!OpenSocket, Backend!BindDevice, Backend!GetFlags,
         Backend!SetPromisc, Backend!SetVersion, Backend!SetRing, Backend!MapRing,
         Backend!AllocContext, Backend!OpenFailed, Backend!AttachFilter,
         Backend!OpenFile, Backend!WriteHeader, Backend!InstallHandler,
         Backend!SetActive, Backend!RecvStopped, Backend!WriteRecord,
         Backend!RestoreHandler, Backend!ClearActive, Backend!CloseFile,
         Backend!ReadStats, Backend!ClearPromisc, Backend!ReleaseContext
<1> QED  BY <1>1, <1>2

(* A signal changes no count; it may end the process. *)
LEMMA SignalsSteady ==
    ASSUME \/ Backend!SigintKills \/ Backend!SigintHandled
           \/ Backend!LoadActive("main") \/ Backend!StoreStop("main")
    PROVE  /\ called' = called /\ run' = run /\ result' = result
           /\ pc' = pc \/ pc' = "killed"
BY DEF Backend!SigintKills, Backend!SigintHandled, Backend!LoadActive, Backend!StoreStop,
       Backend!inputVars, Backend!frameVars

(* A step that leaves queue and main thread alone moves no frame. *)
LEMMA FramesSteady ==
    ASSUME Types, FramesInv, UNCHANGED <<queueVars, mainVars, called>>
    PROVE  Types' /\ FramesInv'
<1>1. /\ queue_' = queue_ /\ closed_' = closed_ /\ popped' = popped /\ main_pc' = main_pc
      /\ count' = count /\ printed' = printed /\ exit_code' = exit_code /\ called' = called
  BY DEF queueVars, mainVars
<1>2. Types'
  BY <1>1, Zenon DEF Types
<1>3. FramesInv'
  BY <1>1, Zenon DEF FramesInv
<1> QED  BY <1>2, <1>3

(* No step of either thread, and no Ctrl+C, loses, repeats or renumbers a   *)
(* frame.                                                                  *)
LEMMA FlowStep ==
    ASSUME FlowInv, BackendProofs!IInv, [Next]_vars
    PROVE  FlowInv'
<1> USE PipelineAssumption DEF FlowInv, Types, FramesInv, ThreadsInv, Setup, queueVars, mainVars
<1>1. CASE SetupSteps
  <2>1. UNCHANGED <<pc, run, called, result, queueVars, count, printed>> /\ MainRuns
    BY <1>1 DEF SetupSteps, ParseArgs, ListDevices, ChooseDevice, CompileDisplayFilter, SetupStep,
            backendVars
  <2>2. /\ main_pc \in Setup
        /\ \/ main_pc' \in Setup \cup {"pop"} /\ exit_code' = exit_code
           \/ main_pc' = "exit" /\ exit_code' = 1
    BY <1>1 DEF SetupSteps, ParseArgs, ListDevices, ChooseDevice, CompileDisplayFilter, SetupStep
  <2> QED  BY <2>1, <2>2
<1>2. CASE Pop
  <2>1. /\ queue_ # <<>> /\ popped' = Append(popped, Head(queue_)) /\ queue_' = Tail(queue_)
        /\ UNCHANGED <<pc, run, called, result, closed_, count, printed, exit_code>>
        /\ main_pc = "pop" /\ main_pc' = "print"
    BY <1>2 DEF Pop, Queue!Receive, backendVars
  <2>2. Types'
    BY <2>1
  <2>3. FramesInv'
    <3>1. /\ Len(queue_') = Len(queue_) - 1 /\ Len(popped') = Len(popped) + 1
          /\ Head(queue_) = queue_[1] /\ Len(queue_) \in Nat \ {0} /\ Len(popped) \in Nat
      BY <2>1
    <3>2. \A i \in 1 .. Len(queue_') : queue_'[i] = queue_[i + 1]
      BY <2>1, <3>1
    <3>3. \A i \in 1 .. Len(popped') : popped'[i] = IF i = Len(popped) + 1 THEN queue_[1] ELSE popped[i]
      BY <2>1, <3>1
    <3>4. /\ Len(popped) + Len(queue_) = called
          /\ \A i \in 1 .. Len(popped) : popped[i] = i
          /\ \A i \in 1 .. Len(queue_) : queue_[i] = Len(popped) + i
          /\ Len(popped) = count
          /\ \A i \in 1 .. Len(printed) : printed[i][1] = printed[i][2] /\ printed[i][2] <= count
      BY <2>1
    <3> HIDE DEF FlowInv, Types, FramesInv, ThreadsInv
    <3>5. \A i \in 1 .. Len(queue_') : queue_'[i] = Len(popped') + i
      BY <3>1, <3>2, <3>4
    <3>6. queue_[1] = Len(popped) + 1
      BY <3>1, <3>4
    <3>7. \A i \in 1 .. Len(popped') : popped'[i] = i
      BY <3>1, <3>3, <3>4, <3>6
    <3>8. called' = called /\ count' = count /\ printed' = printed
      BY <2>1
    <3>9. Len(popped') + Len(queue_') = called' /\ Len(popped') = count' + 1
      BY <3>1, <3>4, <3>8
    <3> QED  BY <2>1, <3>4, <3>5, <3>7, <3>8, <3>9 DEF FramesInv
  <2>4. ThreadsInv'
    BY <2>1
  <2> QED  BY <2>2, <2>3, <2>4
<1>3. CASE PrintPacket
  <2>1. /\ main_pc = "print" /\ main_pc' = "pop" /\ count' = count + 1
        /\ UNCHANGED <<pc, run, called, result, queueVars, exit_code>>
    BY <1>3 DEF PrintPacket, backendVars
  <2>2. popped[Len(popped)] = count + 1 /\ count + 1 \in Nat
    BY <2>1
  <2>3. \/ printed' = Append(printed, <<count + 1, count + 1>>)
        \/ printed' = printed
    BY <1>3, <2>2 DEF PrintPacket
  <2>4. /\ printed' \in Seq(Nat \X Nat)
        /\ (\A i \in 1 .. Len(printed) : printed[i][1] = printed[i][2] /\ printed[i][2] <= count)'
    <3>0. printed \in Seq(Nat \X Nat)
      OBVIOUS
    <3> DEFINE line == <<count + 1, count + 1>>
    <3>1. line \in Nat \X Nat /\ line[1] = line[2] /\ line[2] = count'
      BY <2>1, <2>2
    <3>2. \A i \in 1 .. Len(printed) : printed[i][1] = printed[i][2] /\ printed[i][2] <= count'
      <4> SUFFICES ASSUME NEW i \in 1 .. Len(printed)
                   PROVE  printed[i][1] = printed[i][2] /\ printed[i][2] <= count'
        OBVIOUS
      <4>1. printed[i] \in Nat \X Nat
        OBVIOUS
      <4>2. printed[i][1] = printed[i][2] /\ printed[i][2] <= count /\ count \in Nat
        OBVIOUS
      <4>3. printed[i][2] \in Nat /\ count' = count + 1
        BY <2>1, <4>1
      <4> HIDE DEF FlowInv, Types, FramesInv, ThreadsInv
      <4> QED  BY <4>2, <4>3
    <3> HIDE DEF line, FlowInv, Types, FramesInv, ThreadsInv
    <3>3. CASE printed' = Append(printed, line)
      <4>1. /\ printed' \in Seq(Nat \X Nat) /\ Len(printed') = Len(printed) + 1 /\ Len(printed) \in Nat
            /\ \A i \in 1 .. Len(printed') : printed'[i] = IF i = Len(printed) + 1 THEN line ELSE printed[i]
        BY <3>0, <3>1, <3>3
      <4>2. \A i \in 1 .. Len(printed') : i # Len(printed) + 1 => i \in 1 .. Len(printed)
        BY <4>1
      <4>3. count' <= count'
        BY <2>1, <2>2
      <4> QED  BY <3>1, <3>2, <4>1, <4>2, <4>3, Zenon
    <3>4. CASE printed' = printed
      BY <3>0, <3>2, <3>4, Zenon
    <3> QED  BY <2>3, <3>3, <3>4 DEF line
  <2>5. Types'
    <3>1. /\ queue_' = queue_ /\ popped' = popped /\ closed_' = closed_ /\ exit_code' = exit_code
          /\ count' \in Nat
      BY <2>1, <2>2
    <3> QED  BY <2>1, <2>4, <3>1, Zenon
  <2>6. FramesInv'
    BY <2>1, <2>4
  <2>7. ThreadsInv'
    BY <2>1
  <2> QED  BY <2>5, <2>6, <2>7
<1>4. CASE PopReturnsFalse
  BY <1>4 DEF PopReturnsFalse, Queue!EndOfStream, backendVars
<1>5. CASE JoinAndExit
  BY <1>5 DEF JoinAndExit, MainRuns, Alive, backendVars
<1>6. CASE CaptureStarts
  BY <1>6 DEF CaptureStarts, Alive, Backend!RunCall
<1>7. CASE CaptureStep \/ CaptureReceives
  <2>1. UNCHANGED <<queueVars, mainVars, called, run>>
    BY <1>7, BackendSteady DEF CaptureStep, CaptureReceives
  <2>2. /\ pc \notin {"idle", "killed", "returned"} /\ pc' \notin {"idle", "killed"}
        /\ main_pc # "exit"
    BY <1>7, BackendSteady DEF CaptureStep, CaptureReceives, Alive
  <2>3. ThreadsInv'
    BY <2>1, <2>2
  <2> QED  BY <2>1, <2>3, FramesSteady
<1>8. CASE queue_push_callback
  <2>1. /\ pc = "callback" /\ pc' = "recv" /\ called' = received
        /\ UNCHANGED <<run, result, main_pc, count, printed, exit_code, closed_, popped>>
        /\ queue_' = Append(queue_, received) /\ Len(queue_) < MaxSize
    BY <1>8 DEF queue_push_callback, Backend!Callback, Backend!Goto, Backend!inputVars, Queue!Send
  <2>2. called + 1 = received /\ received \in 1 .. MaxFrames
    BY <2>1 DEF BackendProofs!IInv, BackendProofs!OutcomeInv, BackendProofs!TypeOK
  <2>3. Types'
    BY <2>1, <2>2
  <2>4. FramesInv'
    <3>1. Len(queue_') = Len(queue_) + 1 /\ Len(queue_) \in Nat /\ Len(popped) \in Nat
      BY <2>1
    <3>2. \A i \in 1 .. Len(queue_') : queue_'[i] = IF i = Len(queue_) + 1 THEN received ELSE queue_[i]
      BY <2>1, <3>1
    <3>3. /\ Len(popped) + Len(queue_) = called
          /\ \A i \in 1 .. Len(popped) : popped[i] = i
          /\ \A i \in 1 .. Len(queue_) : queue_[i] = Len(popped) + i
      OBVIOUS
    <3>4. /\ Len(popped) = IF main_pc = "print" THEN count + 1 ELSE count
          /\ \A i \in 1 .. Len(printed) : printed[i][1] = printed[i][2] /\ printed[i][2] <= count
      OBVIOUS
    <3> HIDE DEF FlowInv, Types, FramesInv, ThreadsInv
    <3>5. popped' = popped /\ Len(popped') + Len(queue_') = called'
      BY <2>1, <2>2, <3>1, <3>3
    <3>6. received = Len(popped) + (Len(queue_) + 1)
      BY <2>2, <3>1, <3>3
    <3>7. \A i \in 1 .. Len(queue_') : queue_'[i] = Len(popped) + i
      <4> SUFFICES ASSUME NEW i \in 1 .. Len(queue_') PROVE queue_'[i] = Len(popped) + i
        OBVIOUS
      <4>1. CASE i = Len(queue_) + 1
        <5>1. queue_'[i] = received
          BY <3>2, <4>1
        <5> QED  BY <3>6, <4>1, <5>1
      <4>2. CASE i # Len(queue_) + 1
        <5>1. i \in 1 .. Len(queue_)
          BY <3>1, <4>2
        <5>2. queue_'[i] = queue_[i]
          BY <3>2, <4>2
        <5> QED  BY <3>3, <5>1, <5>2
      <4> QED  BY <4>1, <4>2
    <3> QED  BY <2>1, <3>3, <3>4, <3>5, <3>7 DEF FramesInv
  <2>5. ThreadsInv'
    BY <2>1, <2>2
  <2> QED  BY <2>3, <2>4, <2>5
<1>9. CASE CloseQueue
  BY <1>9 DEF CloseQueue, Queue!Close, backendVars
<1>10. CASE CtrlC \/ HandlerStores
  <2>1. UNCHANGED <<queueVars, mainVars, called, run, result>>
    BY <1>10, SignalsSteady DEF CtrlC, HandlerStores
  <2>2. (pc' = pc \/ pc' = "killed") /\ main_pc # "exit"
    BY <1>10, SignalsSteady DEF CtrlC, HandlerStores, Alive
  <2>3. ThreadsInv'
    BY <2>1, <2>2
  <2> QED  BY <2>1, <2>3, FramesSteady
<1>11. CASE Gone \/ UNCHANGED vars
  <2>1. UNCHANGED <<queueVars, mainVars, called, run, result, pc>>
    BY <1>11 DEF Gone, vars, backendVars
  <2>2. ThreadsInv'
    BY <2>1
  <2> QED  BY <2>1, <2>2, FramesSteady
<1> QED
  BY <1>1, <1>2, <1>3, <1>4, <1>5, <1>6, <1>7, <1>8, <1>9, <1>10, <1>11 DEF Next, MainStep, CaptureThread

(* Every frame handed on by the capture thread is where FlowInv says. *)
THEOREM FlowInvariant == Spec => [](FlowInv /\ BackendProofs!IInv)
<1>1. Init => FlowInv
  <2> SUFFICES ASSUME Init PROVE FlowInv
    OBVIOUS
  <2> USE PipelineAssumption DEF Init, Backend!Init, Queue!Init
  <2>1. closed_ \in BOOLEAN
    BY Zenon
  <2>2. Types
    BY <2>1 DEF Types, Setup
  <2>3. FramesInv
    BY DEF FramesInv
  <2>4. ThreadsInv
    BY DEF ThreadsInv
  <2> QED  BY <2>2, <2>3, <2>4 DEF FlowInv
<1>2. FlowInv /\ BackendProofs!IInv /\ [Next]_vars => FlowInv'
  BY FlowStep
<1> QED  BY <1>1, <1>2, BackendInvariant, PTL DEF Spec

-----------------------------------------------------------------------------
(* The theorems *)

(* In the program the queue is used as the channel it is: a frame is only  *)
(* pushed while it is open and has room, and it is closed once.            *)
THEOREM ImplementsQueue == Spec => Queue!Spec
<1>1. Init => Queue!Init
  BY DEF Init
<1>2. FlowInv /\ BackendProofs!IInv /\ [Next]_vars => [Queue!Next]_(Queue!vars)
  <2> SUFFICES ASSUME FlowInv, BackendProofs!IInv, [Next]_vars
               PROVE  [Queue!Next]_(Queue!vars)
    OBVIOUS
  <2>1. UNCHANGED queueVars => UNCHANGED Queue!vars
    BY DEF queueVars, Queue!vars
  <2>2. CASE MainStep
    BY <2>1, <2>2 DEF MainStep, SetupSteps, ParseArgs, ListDevices, ChooseDevice,
           CompileDisplayFilter, SetupStep, Pop, PrintPacket, PopReturnsFalse, JoinAndExit, Queue!Next
  <2>3. CASE queue_push_callback
    <3>1. received \in 1 .. MaxFrames
      BY <2>3, PipelineAssumption DEF queue_push_callback, Backend!Callback, Backend!Goto,
             BackendProofs!IInv, BackendProofs!OutcomeInv, BackendProofs!TypeOK
    <3> QED  BY <2>3, <3>1 DEF queue_push_callback, Queue!Next
  <2>4. CASE CloseQueue
    BY <2>4 DEF CloseQueue, Queue!Next
  <2>5. CASE CaptureStarts \/ CaptureStep \/ CaptureReceives \/ CtrlC \/ HandlerStores
    BY <2>1, <2>5 DEF CaptureStarts, CaptureStep, CaptureReceives, CtrlC, HandlerStores
  <2>6. CASE Gone \/ UNCHANGED vars
    BY <2>1, <2>6 DEF Gone, vars
  <2> QED  BY <2>2, <2>3, <2>4, <2>5, <2>6 DEF Next, CaptureThread
<1> QED  BY <1>1, <1>2, FlowInvariant, PTL DEF Spec, Queue!Spec

(* The state of the program keeps its type and the queue its bound. *)
THEOREM TypeCorrect == Spec => []TypeOK
<1>1. FlowInv /\ BackendProofs!IInv => TypeOK
  <2> SUFFICES ASSUME FlowInv, BackendProofs!IInv PROVE TypeOK
    OBVIOUS
  <2>1. Backend!TypeOK
    BY SameProperties DEF BackendProofs!IInv
  <2>2. count \in 0 .. MaxFrames
    BY PipelineAssumption DEF FlowInv, Types, FramesInv, BackendProofs!IInv, BackendProofs!TypeOK
  <2> QED  BY <2>1, <2>2, Zenon DEF FlowInv, Types, TypeOK
<1> QED  BY <1>1, FlowInvariant, PTL

(* A printed packet has the number of its record in the file, which was    *)
(* written before, whatever the display filter hides.                      *)
THEOREM NumbersCorrect == Spec => []NumbersMatchFile
<1>1. FlowInv /\ BackendProofs!IInv => NumbersMatchFile
  <2> SUFFICES ASSUME FlowInv, BackendProofs!IInv, NEW i \in DOMAIN printed
               PROVE  printed[i][1] = printed[i][2] /\ (saving => printed[i][2] <= written)
    BY DEF NumbersMatchFile
  <2>1. i \in 1 .. Len(printed) /\ printed[i] \in Nat \X Nat
    BY DEF FlowInv, Types
  <2>2. printed[i][1] = printed[i][2] /\ printed[i][2] <= count /\ printed[i][2] \in Nat
    BY <2>1 DEF FlowInv, FramesInv
  <2>3. count <= called /\ count \in Nat /\ called \in Nat
    BY DEF FlowInv, Types, FramesInv
  <2>4. (saving => called <= written) /\ written \in Int
    BY DEF BackendProofs!IInv, BackendProofs!OutcomeInv, BackendProofs!TypeOK
  <2> QED  BY <2>2, <2>3, <2>4
<1> QED  BY <1>1, FlowInvariant, PTL

(* When main() returns after a capture, the capture thread has ended and   *)
(* every frame it handed on was printed or hidden.                         *)
THEOREM DrainedCorrect == Spec => []ExitMeansDrained
<1>1. FlowInv => ExitMeansDrained
  BY DEF FlowInv, Types, FramesInv, ThreadsInv, ExitMeansDrained
<1> QED  BY <1>1, FlowInvariant, PTL

(* Exit code 0 means that the capture succeeded and the file holds exactly *)
(* the frames the printer was given.                                       *)
THEOREM ExitCodeCorrect == Spec => []ExitCodeHonest
<1>1. FlowInv /\ BackendProofs!IInv => ExitCodeHonest
  <2> SUFFICES ASSUME FlowInv, BackendProofs!IInv, main_pc = "exit", exit_code = 0
               PROVE  /\ pc = "returned" /\ result = 0
                      /\ saving => pcap = "saved" /\ written = count
    BY DEF ExitCodeHonest
  <2>1. pc = "returned" /\ queue_ = <<>> /\ result = 0
    BY DEF FlowInv, ThreadsInv
  <2>2. count = called
    BY <2>1 DEF FlowInv, Types, FramesInv
  <2>3. called = received /\ (saving => written = received /\ pcap = "saved")
    BY <2>1 DEF BackendProofs!IInv, BackendProofs!OutcomeInv
  <2> QED  BY <2>1, <2>2, <2>3
<1> QED  BY <1>1, FlowInvariant, PTL
=============================================================================
