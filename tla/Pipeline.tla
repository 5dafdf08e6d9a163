------------------------------- MODULE Pipeline -------------------------------
(***************************************************************************)
(* The program (src/main.cpp): setup on the main thread, then the capture  *)
(* thread running the backend of CaptureBackend with queue_push_callback,  *)
(* and the main thread popping frames off the queue and printing them      *)
(* until the capture thread has closed it.                                 *)
(*                                                                         *)
(* The queue is taken at its abstract specification, BoundedChannel, which *)
(* PacketQueue implements.  The backend's Callback step and the channel's  *)
(* Send happen together: while the queue is full, the callback blocks.     *)
(* A frame is its number in the order of reception.                        *)
(***************************************************************************)
EXTENDS Integers, Sequences

CONSTANTS
    MaxSize,     \* max_size_ of the queue
    MaxFrames    \* bound: frames received

ASSUME PipelineAssumption == MaxSize \in Nat /\ MaxFrames \in Nat

VARIABLES
    \* the backend, on the capture thread
    pc, run, bpf_filter, saving, held, promisc, promisc_set_by_us, handler,
    previous_sigint_handler, before, failed, g_active_ctx, stop_requested, stopper, pcap,
    received, written, called, result, g_last_stats_valid, g_last_stats,
    \* the queue
    queue_, closed_, pushed, popped, finished,
    \* the main thread
    main_pc,
    count,       \* PacketPrinterContext::count
    printed,     \* the lines printed: packet number and frame
    exit_code

Backend == INSTANCE CaptureBackend WITH OtherThreads <- {"main"}, MaxRuns <- 1

Queue == INSTANCE BoundedChannel WITH
    Frames <- 1 .. MaxFrames,
    Receivers <- {"main"},
    Capacity <- MaxSize,
    items <- queue_,
    isClosed <- closed_,
    sent <- pushed,
    received <- popped

backendVars ==
    <<pc, run, bpf_filter, saving, held, promisc, promisc_set_by_us, handler,
      previous_sigint_handler, before, failed, g_active_ctx, stop_requested, stopper, pcap,
      received, written, called, result, g_last_stats_valid, g_last_stats>>
queueVars == <<queue_, closed_, pushed, popped, finished>>
mainVars == <<main_pc, count, printed, exit_code>>
vars == <<backendVars, queueVars, mainVars>>

Init ==
    /\ Backend!Init
    /\ Queue!Init
    /\ main_pc = "args"
    /\ count = 0
    /\ printed = <<>>
    /\ exit_code = 0

Setup == {"args", "devices", "choose", "filter"}

(* The process exists, and the main thread is not inside the signal handler. *)
Alive == pc # "killed" /\ main_pc # "exit"
MainRuns == Alive /\ stopper["main"] = Backend!NULL

-----------------------------------------------------------------------------
(* The main thread *)

(* Arguments, device list, interactive choice, display filter: each of them *)
(* may end the program before anything was started.                         *)
SetupStep(from, to) ==
    /\ MainRuns
    /\ main_pc = from
    /\ \/ main_pc' = to /\ UNCHANGED exit_code
       \/ main_pc' = "exit" /\ exit_code' = 1
    /\ UNCHANGED <<backendVars, queueVars, count, printed>>

ParseArgs == SetupStep("args", "devices")
ListDevices == SetupStep("devices", "choose")
ChooseDevice == SetupStep("choose", "filter")
CompileDisplayFilter == SetupStep("filter", "pop")

Pop ==
    /\ MainRuns
    /\ main_pc = "pop"
    /\ main_pc' = "print"
    /\ Queue!Receive
    /\ UNCHANGED <<backendVars, count, printed, exit_code>>

(* Fault: only the packets that are shown are counted. *)
PrintCountingShown ==
    /\ MainRuns
    /\ main_pc = "print"
    /\ main_pc' = "pop"
    /\ \/ count' = count + 1 /\ printed' = Append(printed, <<count + 1, popped[Len(popped)]>>)
       \/ UNCHANGED <<count, printed>>
    /\ UNCHANGED <<backendVars, queueVars, exit_code>>

(* packet_printer_callback(): every frame is counted; the display filter    *)
(* decides whether it is shown.                                             *)
PrintPacket ==
    /\ MainRuns
    /\ main_pc = "print"
    /\ main_pc' = "pop"
    /\ count' = count + 1
    /\ \/ printed' = Append(printed, <<count + 1, popped[Len(popped)]>>)
       \/ UNCHANGED printed
    /\ UNCHANGED <<backendVars, queueVars, exit_code>>

PopReturnsFalse ==
    /\ MainRuns
    /\ main_pc = "pop"
    /\ main_pc' = "join"
    /\ Queue!EndOfStream("main")
    /\ UNCHANGED <<backendVars, count, printed, exit_code>>

(* Fault: the result of the capture thread is not looked at. *)
JoinAlwaysZero ==
    /\ MainRuns
    /\ main_pc = "join"
    /\ closed_
    /\ main_pc' = "exit"
    /\ exit_code' = 0
    /\ UNCHANGED <<backendVars, queueVars, count, printed>>

(* join(), statistics, dispfilter_free(); main() returns. *)
JoinAndExit ==
    /\ MainRuns
    /\ main_pc = "join"
    /\ closed_
    /\ main_pc' = "exit"
    /\ exit_code' = IF result = 0 THEN 0 ELSE 1
    /\ UNCHANGED <<backendVars, queueVars, count, printed>>

-----------------------------------------------------------------------------
(* The capture thread *)

CaptureStarts ==
    /\ Alive
    /\ main_pc \notin Setup
    /\ Backend!RunCall
    /\ UNCHANGED <<queueVars, mainVars>>

CaptureStep ==
    /\ Alive
    /\ Backend!RunStep
    /\ UNCHANGED <<queueVars, mainVars>>

CaptureReceives ==
    /\ Alive
    /\ Backend!Recv
    /\ UNCHANGED <<queueVars, mainVars>>

(* Fault: the callback gives up on a full queue. *)
QueuePushOrDrop ==
    /\ Alive
    /\ Backend!Callback
    /\ \/ Queue!Send(received)
       \/ Len(queue_) = MaxSize /\ UNCHANGED queueVars
    /\ UNCHANGED mainVars

queue_push_callback ==
    /\ Alive
    /\ Backend!Callback
    /\ Queue!Send(received)
    /\ UNCHANGED mainVars

(* Fault: the queue is closed only after a capture that went well. *)
CloseQueueOnSuccess ==
    /\ Alive
    /\ pc = "returned"
    /\ result = 0
    /\ ~closed_
    /\ Queue!Close
    /\ UNCHANGED <<backendVars, mainVars>>

(* After capture_backend_run() the thread closes the queue and ends. *)
CloseQueue ==
    /\ Alive
    /\ pc = "returned"
    /\ ~closed_
    /\ Queue!Close
    /\ UNCHANGED <<backendVars, mainVars>>

-----------------------------------------------------------------------------
(* Ctrl+C, delivered to either thread *)

CtrlC ==
    /\ Alive
    /\ Backend!SigintKills \/ Backend!SigintHandled \/ Backend!LoadActive("main")
    /\ UNCHANGED <<queueVars, mainVars>>

HandlerStores ==
    /\ Alive
    /\ Backend!StoreStop("main")
    /\ UNCHANGED <<queueVars, mainVars>>

-----------------------------------------------------------------------------
(* The specification *)

SetupSteps == ParseArgs \/ ListDevices \/ ChooseDevice \/ CompileDisplayFilter
MainStep == SetupSteps \/ Pop \/ PrintPacket \/ PopReturnsFalse \/ JoinAndExit
CaptureThread == CaptureStarts \/ CaptureStep \/ queue_push_callback \/ CloseQueue

Gone == ~Alive /\ UNCHANGED vars

Next == MainStep \/ CaptureThread \/ CaptureReceives \/ CtrlC \/ HandlerStores \/ Gone

Spec == Init /\ [][Next]_vars

(* Both threads keep running, the main thread also between one Ctrl+C and  *)
(* the next, and a handler that was entered completes; no frame has to     *)
(* arrive and nobody has to press Ctrl+C.                                  *)
FairSpec ==
    /\ Spec
    /\ SF_vars(MainStep)
    /\ WF_vars(CaptureThread)
    /\ WF_vars(HandlerStores)

-----------------------------------------------------------------------------
(* Properties *)

(* Types of the state; the queue never exceeds its bound. *)
TypeOK ==
    /\ Backend!TypeOK
    /\ queue_ \in Seq(1 .. MaxFrames)
    /\ Len(queue_) <= MaxSize
    /\ closed_ \in BOOLEAN
    /\ main_pc \in Setup \cup {"pop", "print", "join", "exit"}
    /\ count \in 0 .. MaxFrames
    /\ exit_code \in {0, 1}

(* The number in front of a printed packet is the position of its record   *)
(* in the .pcap file, whatever the display filter hides (packet_printer.h: *)
(* 24-30), and the record is written before the line is printed.           *)
NumbersMatchFile ==
    \A i \in DOMAIN printed :
        /\ printed[i][1] = printed[i][2]
        /\ saving => printed[i][2] <= written

(* When main() returns after a capture, the capture thread has ended and   *)
(* every frame it handed on was printed or hidden, none left in the queue, *)
(* although the last ones may arrive after Ctrl+C (main.cpp:132-138).      *)
ExitMeansDrained ==
    main_pc = "exit" /\ run = 1 => pc = "returned" /\ closed_ /\ queue_ = <<>> /\ count = called

(* The program exits with 0 only if the capture succeeded; then the .pcap  *)
(* file, if asked for, is on disk and holds exactly the frames the printer *)
(* was given (main.cpp:162-165).                                           *)
ExitCodeHonest ==
    main_pc = "exit" /\ exit_code = 0 =>
        /\ pc = "returned" /\ result = 0
        /\ saving => pcap = "saved" /\ written = count

(* Ctrl+C, once it found the capture, ends the program, even with the      *)
(* capture thread blocked on a full queue.                                 *)
CtrlCEndsProgram == stop_requested /\ g_active_ctx # Backend!NULL ~> ~Alive

(* However the capture ends, the program does: the queue is closed on      *)
(* every path (main.cpp:126-130) and the main thread leaves its loop.      *)
CaptureEndEndsProgram == pc = "returned" ~> ~Alive
=============================================================================
