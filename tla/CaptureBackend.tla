---------------------------- MODULE CaptureBackend ----------------------------
(***************************************************************************)
(* The Linux capture backend (src/c/capture_backend_linux.c): run_impl()   *)
(* with the raw_socket_open() and raw_socket_close() it calls              *)
(* (src/c/raw_socket.c), the SIGINT handler, request_stop_impl() and the   *)
(* statistics of the last run.                                             *)
(*                                                                         *)
(* One thread calls run_impl(), again and again; every system call of it   *)
(* is a step and may fail.  SIGINT can arrive between any two steps, on    *)
(* that thread or on another one.  On another thread the handler runs      *)
(* concurrently with run_impl(), as capture_backend_request_stop() does.   *)
(* raw_socket_recv() is taken at its contract, which RawSocketRing models: *)
(* a frame, an error, or RAW_SOCKET_STOPPED once a stop was requested.     *)
(***************************************************************************)
EXTENDS Integers

CONSTANTS
    OtherThreads,  \* threads besides the one in run_impl()
    MaxRuns,       \* bound: calls of run_impl()
    MaxFrames      \* bound: frames received per run

ASSUME BackendAssumption == MaxRuns \in Nat /\ MaxFrames \in Nat

NULL == 0
Contexts == 1 .. MaxRuns   \* the context of the n-th run is n

VARIABLES
    pc,                       \* control point of run_impl()
    run,                      \* number of the current, or last, run
    bpf_filter,               \* empty, rejected by capfilter_compile(), or compiled
    saving,                   \* pcap_output_path is not empty
    held,                     \* what this run acquired and has not released
    promisc,                  \* IFF_PROMISC of the interface
    promisc_set_by_us,
    handler,                  \* disposition of SIGINT
    previous_sigint_handler,
    before,                   \* history: promisc and handler when the run began
    failed,                   \* history: the calls that failed in this run
    g_active_ctx,
    stop_requested,           \* of the current context
    stopper,                  \* per other thread: the context it is about to stop, or NULL
    pcap,                     \* the output file: "none", "open", "saved", "damaged"
    received, written, called, \* frames received, written to it, given to the callback
    result,                   \* what run_impl() returns
    g_last_stats_valid,
    g_last_stats              \* the run whose counters g_last_stats holds

inputVars == <<run, bpf_filter, saving, before>>
promiscVars == <<promisc, promisc_set_by_us>>
signalVars == <<handler, previous_sigint_handler, g_active_ctx>>
stopVars == <<stop_requested, stopper>>
frameVars == <<received, written, called>>
statsVars == <<g_last_stats_valid, g_last_stats>>
vars == <<pc, inputVars, held, promiscVars, signalVars, failed, stopVars, pcap, frameVars,
          result, statsVars>>

Init ==
    /\ pc = "idle"
    /\ run = 0
    /\ bpf_filter = "none"
    /\ saving = FALSE
    /\ held = {}
    /\ promisc \in BOOLEAN
    /\ promisc_set_by_us = FALSE
    /\ handler \in {"SIG_DFL", "SIG_IGN"}
    /\ previous_sigint_handler = handler
    /\ before = [promisc |-> promisc, handler |-> handler]
    /\ failed = {}
    /\ g_active_ctx = NULL
    /\ stop_requested = FALSE
    /\ stopper = [t \in OtherThreads |-> NULL]
    /\ pcap = "none"
    /\ received = 0
    /\ written = 0
    /\ called = 0
    /\ result = 0
    /\ g_last_stats_valid = FALSE
    /\ g_last_stats = 0

Goto(from, to) == pc = from /\ pc' = to

-----------------------------------------------------------------------------
(* Entering run_impl() and compiling the capture filter *)

RunCall ==
    /\ pc \in {"idle", "returned"}
    /\ run < MaxRuns
    /\ run' = run + 1
    /\ bpf_filter' \in {"none", "bad", "prog"}
    /\ saving' \in BOOLEAN
    /\ before' = [promisc |-> promisc, handler |-> handler]
    /\ failed' = {}
    /\ pcap' = "none"
    /\ received' = 0
    /\ written' = 0
    /\ called' = 0
    /\ result' = 0
    /\ pc' = "compile"
    /\ UNCHANGED <<held, promiscVars, signalVars, stopVars, statsVars>>

(* capfilter_compile(), unless the expression is empty; what it accepts     *)
(* always becomes a program.                                                *)
CompileFilter ==
    /\ Goto("compile", IF bpf_filter = "bad" THEN "returned" ELSE "socket")
    /\ held' = IF bpf_filter = "prog" THEN {"prog"} ELSE {}
    /\ result' = IF bpf_filter = "bad" THEN -1 ELSE 0
    /\ failed' = IF bpf_filter = "bad" THEN {"compile"} ELSE {}
    /\ UNCHANGED <<inputVars, promiscVars, signalVars, stopVars, pcap, frameVars, statsVars>>

-----------------------------------------------------------------------------
(* raw_socket_open() *)

(* Fault: the mapping is forgotten when the allocation after it fails. *)
OpenCallKeepingRing(from, to, resources) ==
    /\ \/ /\ Goto(from, to)
          /\ held' = held \cup resources
          /\ UNCHANGED failed
       \/ /\ Goto(from, "open_failed")
          /\ held' = held \ {"fd"}
          /\ failed' = failed \cup {"open"}
    /\ UNCHANGED <<inputVars, signalVars, pcap, frameVars, result, statsVars>>

(* A call of raw_socket_open() that acquires some resources, or fails: then *)
(* whatever was acquired is released and NULL is returned.                  *)
OpenCall(from, to, resources) ==
    /\ \/ /\ Goto(from, to)
          /\ held' = held \cup resources
          /\ UNCHANGED failed
       \/ /\ Goto(from, "open_failed")
          /\ held' = held \ {"fd", "ring"}
          /\ failed' = failed \cup {"open"}
    /\ UNCHANGED <<inputVars, signalVars, pcap, frameVars, result, statsVars>>

OpenSocket == OpenCall("socket", "bind", {"fd"}) /\ UNCHANGED <<promiscVars, stopVars>>

BindDevice == OpenCall("bind", "get_flags", {}) /\ UNCHANGED <<promiscVars, stopVars>>

GetFlags ==
    /\ OpenCall("get_flags", "set_promisc", {})
    /\ promisc_set_by_us' = FALSE
    /\ UNCHANGED <<promisc, stopVars>>

(* Promiscuous mode is turned on unless it is on; a failure is only reported. *)
SetPromisc ==
    /\ Goto("set_promisc", "set_version")
    /\ \/ /\ ~promisc
          /\ promisc' = TRUE
          /\ promisc_set_by_us' = TRUE
       \/ UNCHANGED promiscVars
    /\ UNCHANGED <<inputVars, held, signalVars, failed, stopVars, pcap, frameVars, result, statsVars>>

SetVersion == OpenCall("set_version", "set_ring", {}) /\ UNCHANGED <<promiscVars, stopVars>>

SetRing == OpenCall("set_ring", "map_ring", {}) /\ UNCHANGED <<promiscVars, stopVars>>

MapRing == OpenCall("map_ring", "alloc", {"ring"}) /\ UNCHANGED <<promiscVars, stopVars>>

AllocContext ==
    /\ OpenCall("alloc", "attach", {"ctx"})
    /\ stop_requested' = (pc' # "attach" /\ stop_requested)
    /\ UNCHANGED <<promiscVars, stopper>>

OpenFailed ==
    /\ Goto("open_failed", "returned")
    /\ held' = held \ {"prog"}
    /\ result' = -1
    /\ UNCHANGED <<inputVars, promiscVars, signalVars, failed, stopVars, pcap, frameVars, statsVars>>

-----------------------------------------------------------------------------
(* Filter and output file *)

(* A call that ends the run when it fails: run_impl() frees what it holds  *)
(* apart from the context, and closes that.                                *)
GiveUp(from, call) ==
    /\ Goto(from, "clear_promisc")
    /\ failed' = failed \cup {call}
    /\ result' = -1
    /\ held' = held \ {"prog", "file"}

(* SO_ATTACH_FILTER, if there is a program; it is freed either way. *)
AttachFilter ==
    /\ \/ /\ Goto("attach", "fopen")
          /\ held' = held \ {"prog"}
          /\ UNCHANGED <<failed, result>>
       \/ /\ "prog" \in held
          /\ GiveUp("attach", "attach")
    /\ UNCHANGED <<inputVars, promiscVars, signalVars, stopVars, pcap, frameVars, statsVars>>

OpenFile ==
    /\ \/ /\ ~saving
          /\ Goto("fopen", "signal")
          /\ UNCHANGED <<held, failed, result, pcap>>
       \/ /\ saving
          /\ Goto("fopen", "header")
          /\ held' = held \cup {"file"}
          /\ pcap' = "open"
          /\ UNCHANGED <<failed, result>>
       \/ /\ saving
          /\ GiveUp("fopen", "fopen")
          /\ UNCHANGED pcap
    /\ UNCHANGED <<inputVars, promiscVars, signalVars, stopVars, frameVars, statsVars>>

WriteHeader ==
    /\ \/ /\ Goto("header", "signal")
          /\ UNCHANGED <<held, failed, result, pcap>>
       \/ /\ GiveUp("header", "fwrite")
          /\ pcap' = "damaged"
    /\ UNCHANGED <<inputVars, promiscVars, signalVars, stopVars, frameVars, statsVars>>

-----------------------------------------------------------------------------
(* The SIGINT handler and the capture loop *)

InstallHandler ==
    /\ Goto("signal", "set_active")
    /\ \/ /\ previous_sigint_handler' = handler
          /\ handler' = "on_sigint"
          /\ UNCHANGED failed
       \/ /\ previous_sigint_handler' = "SIG_DFL"
          /\ failed' = failed \cup {"signal"}
          /\ UNCHANGED handler
    /\ UNCHANGED <<inputVars, held, promiscVars, g_active_ctx, stopVars, pcap, frameVars, result,
                   statsVars>>

SetActive ==
    /\ Goto("set_active", "recv")
    /\ g_active_ctx' = run
    /\ UNCHANGED <<inputVars, held, promiscVars, handler, previous_sigint_handler, failed, stopVars,
                   pcap, frameVars, result, statsVars>>

(* Fault: the loop continues where it should break. *)
RecvStoppedContinues ==
    /\ stop_requested
    /\ Goto("recv", "recv")
    /\ UNCHANGED <<inputVars, held, promiscVars, signalVars, failed, stopVars, pcap, frameVars,
                   result, statsVars>>

RecvStopped ==
    /\ stop_requested
    /\ Goto("recv", "restore")
    /\ UNCHANGED <<inputVars, held, promiscVars, signalVars, failed, stopVars, pcap, frameVars,
                   result, statsVars>>

RecvFails ==
    /\ ~stop_requested
    /\ Goto("recv", "restore")
    /\ result' = -1
    /\ failed' = failed \cup {"recv"}
    /\ UNCHANGED <<inputVars, held, promiscVars, signalVars, stopVars, pcap, frameVars, statsVars>>

(* Fault: the frame is handed on without being written first. *)
RecvFrameUnwritten ==
    /\ ~stop_requested
    /\ received < MaxFrames
    /\ Goto("recv", "callback")
    /\ received' = received + 1
    /\ UNCHANGED <<inputVars, held, promiscVars, signalVars, failed, stopVars, pcap, written, called,
                   result, statsVars>>

RecvFrame ==
    /\ ~stop_requested
    /\ received < MaxFrames
    /\ Goto("recv", "write")
    /\ received' = received + 1
    /\ UNCHANGED <<inputVars, held, promiscVars, signalVars, failed, stopVars, pcap, written, called,
                   result, statsVars>>

WriteRecord ==
    /\ \/ /\ Goto("write", "callback")
          /\ written' = IF saving THEN received ELSE written
          /\ UNCHANGED <<pcap, failed, result>>
       \/ /\ saving
          /\ Goto("write", "restore")
          /\ pcap' = "damaged"
          /\ failed' = failed \cup {"fwrite"}
          /\ result' = -1
          /\ UNCHANGED written
    /\ UNCHANGED <<inputVars, held, promiscVars, signalVars, stopVars, received, called, statsVars>>

(* The callback returns. *)
Callback ==
    /\ Goto("callback", "recv")
    /\ called' = received
    /\ UNCHANGED <<inputVars, held, promiscVars, signalVars, failed, stopVars, pcap, received,
                   written, result, statsVars>>

-----------------------------------------------------------------------------
(* Leaving run_impl() *)

(* Fault: the default action is restored whatever was there before. *)
RestoreDefault ==
    /\ Goto("restore", "clear_active")
    /\ handler' = "SIG_DFL"
    /\ UNCHANGED <<inputVars, held, promiscVars, previous_sigint_handler, g_active_ctx, failed,
                   stopVars, pcap, frameVars, result, statsVars>>

RestoreHandler ==
    /\ Goto("restore", "clear_active")
    /\ \/ /\ handler' = previous_sigint_handler
          /\ UNCHANGED failed
       \/ /\ failed' = failed \cup {"signal"}
          /\ UNCHANGED handler
    /\ UNCHANGED <<inputVars, held, promiscVars, previous_sigint_handler, g_active_ctx, stopVars, pcap,
                   frameVars, result, statsVars>>

(* Fault: g_active_ctx keeps pointing to the context that is closed next. *)
KeepActive ==
    /\ Goto("clear_active", "fclose")
    /\ UNCHANGED <<inputVars, held, promiscVars, signalVars, failed, stopVars, pcap, frameVars,
                   result, statsVars>>

ClearActive ==
    /\ Goto("clear_active", "fclose")
    /\ g_active_ctx' = NULL
    /\ UNCHANGED <<inputVars, held, promiscVars, handler, previous_sigint_handler, failed, stopVars,
                   pcap, frameVars, result, statsVars>>

(* Fault: the result of fclose() is not looked at. *)
CloseFileIgnoringErrors ==
    /\ Goto("fclose", "stats")
    /\ held' = held \ {"file"}
    /\ pcap' \in (CASE pcap = "open" -> {"saved", "damaged"}
                     [] OTHER -> {pcap})
    /\ UNCHANGED <<inputVars, promiscVars, signalVars, failed, stopVars, frameVars, result, statsVars>>

(* Only fclose() brings the buffered records to disk, or fails to. *)
CloseFile ==
    /\ Goto("fclose", "stats")
    /\ held' = held \ {"file"}
    /\ \/ /\ pcap' = IF pcap = "open" THEN "saved" ELSE pcap
          /\ UNCHANGED <<failed, result>>
       \/ /\ "file" \in held
          /\ pcap' = "damaged"
          /\ failed' = failed \cup {"fclose"}
          /\ result' = -1
    /\ UNCHANGED <<inputVars, promiscVars, signalVars, stopVars, frameVars, statsVars>>

ReadStats ==
    /\ Goto("stats", "clear_promisc")
    /\ \/ /\ g_last_stats_valid' = TRUE
          /\ g_last_stats' = run
          /\ UNCHANGED failed
       \/ /\ g_last_stats_valid' = FALSE
          /\ failed' = failed \cup {"stats"}
          /\ UNCHANGED g_last_stats
    /\ UNCHANGED <<inputVars, held, promiscVars, signalVars, stopVars, pcap, frameVars, result>>

(* Fault: promiscuous mode is turned off whoever turned it on. *)
ClearPromiscAlways ==
    /\ Goto("clear_promisc", "release")
    /\ promisc' = FALSE
    /\ UNCHANGED <<inputVars, held, promisc_set_by_us, signalVars, failed, stopVars, pcap, frameVars,
                   result, statsVars>>

(* raw_socket_close() turns promiscuous mode off if raw_socket_open() turned *)
(* it on; failures of the two ioctls are only reported.                      *)
ClearPromisc ==
    /\ Goto("clear_promisc", "release")
    /\ \/ /\ promisc' = (promisc /\ ~promisc_set_by_us)
          /\ UNCHANGED failed
       \/ /\ promisc_set_by_us
          /\ failed' = failed \cup {"clear_promisc"}
          /\ UNCHANGED promisc
    /\ UNCHANGED <<inputVars, held, promisc_set_by_us, signalVars, stopVars, pcap, frameVars, result,
                   statsVars>>

(* munmap(), close(), free(); run_impl() returns. *)
ReleaseContext ==
    /\ Goto("release", "returned")
    /\ held' = held \ {"ring", "fd", "ctx"}
    /\ UNCHANGED <<inputVars, promiscVars, signalVars, failed, stopVars, pcap, frameVars, result,
                   statsVars>>

(* get_last_stats_impl(): the run whose counters it reports, -1 if none. *)
LastStats == IF g_last_stats_valid THEN g_last_stats ELSE -1

-----------------------------------------------------------------------------
(* SIGINT and request_stop_impl() *)

ContextLive(c) == c = run /\ "ctx" \in held

(* SIGINT while nothing is installed: the default action ends the process. *)
(* The kernel takes back memory, socket and ring; the interface's flags    *)
(* stay as they are and the buffered part of the file is lost.             *)
SigintKills ==
    /\ handler = "SIG_DFL"
    /\ pc # "killed"
    /\ pc' = "killed"
    /\ held' = {}
    /\ pcap' = IF "file" \in held THEN "damaged" ELSE pcap
    /\ UNCHANGED <<inputVars, promiscVars, signalVars, failed, stopVars, frameVars, result, statsVars>>

(* SIGINT on the thread in run_impl(): on_sigint() runs between two of its  *)
(* steps.                                                                   *)
SigintHandled ==
    /\ handler = "on_sigint"
    /\ pc # "killed"
    /\ g_active_ctx # NULL
    /\ stop_requested' = TRUE
    /\ UNCHANGED <<pc, inputVars, held, promiscVars, signalVars, failed, stopper, pcap, frameVars,
                   result, statsVars>>

(* SIGINT, or a call of capture_backend_request_stop(), on another thread: *)
(* g_active_ctx is read ...                                                *)
LoadActive(t) ==
    /\ pc # "killed"
    /\ stopper[t] = NULL
    /\ stopper' = [stopper EXCEPT ![t] = g_active_ctx]
    /\ UNCHANGED <<pc, inputVars, held, promiscVars, signalVars, failed, stop_requested, pcap,
                   frameVars, result, statsVars>>

(* ... and the stop is stored in that context.  If the context is gone, the *)
(* store is lost, or hits the context that took its place in memory.        *)
StoreStop(t) ==
    /\ pc # "killed"
    /\ stopper[t] # NULL
    /\ stopper' = [stopper EXCEPT ![t] = NULL]
    /\ \/ /\ "ctx" \in held
          /\ stop_requested' = TRUE
       \/ /\ ~ContextLive(stopper[t])
          /\ UNCHANGED stop_requested
    /\ UNCHANGED <<pc, inputVars, held, promiscVars, signalVars, failed, pcap, frameVars, result,
                   statsVars>>

-----------------------------------------------------------------------------
(* The specification *)

(* Steps of run_impl() that wait for nothing from outside. *)
RunStep ==
    \/ CompileFilter \/ OpenSocket \/ BindDevice \/ GetFlags \/ SetPromisc \/ SetVersion
    \/ SetRing \/ MapRing \/ AllocContext \/ OpenFailed
    \/ AttachFilter \/ OpenFile \/ WriteHeader
    \/ InstallHandler \/ SetActive \/ RecvStopped \/ WriteRecord
    \/ RestoreHandler \/ ClearActive \/ CloseFile \/ ReadStats \/ ClearPromisc \/ ReleaseContext

Recv == RecvFrame \/ RecvFails

Signals == SigintKills \/ SigintHandled \/ \E t \in OtherThreads : LoadActive(t) \/ StoreStop(t)

Finished ==
    /\ pc = "killed" \/ (pc = "returned" /\ run = MaxRuns)
    /\ UNCHANGED vars

Next == RunCall \/ RunStep \/ Recv \/ Callback \/ Signals \/ Finished

Spec == Init /\ [][Next]_vars

(* The thread in run_impl() keeps running and its callback returns; no     *)
(* frame has to arrive and no stop has to be requested.                    *)
FairSpec == Spec /\ WF_vars(RunStep) /\ WF_vars(Callback)

-----------------------------------------------------------------------------
(* Properties *)

Points ==
    {"idle", "compile", "socket", "bind", "get_flags", "set_promisc", "set_version", "set_ring",
     "map_ring", "alloc", "open_failed", "attach", "fopen", "header", "signal", "set_active", "recv",
     "write", "callback", "restore", "clear_active", "fclose", "stats", "clear_promisc", "release",
     "returned", "killed"}

Resources == {"prog", "fd", "ring", "ctx", "file"}
Calls == {"compile", "open", "attach", "fopen", "fwrite", "signal", "recv", "fclose", "stats", "clear_promisc"}

(* Types of the state; no more frames are written or handed on than came. *)
TypeOK ==
    /\ pc \in Points
    /\ run \in 0 .. MaxRuns
    /\ bpf_filter \in {"none", "bad", "prog"}
    /\ saving \in BOOLEAN
    /\ held \subseteq Resources
    /\ promisc \in BOOLEAN
    /\ promisc_set_by_us \in BOOLEAN
    /\ {handler, previous_sigint_handler} \subseteq {"SIG_DFL", "SIG_IGN", "on_sigint"}
    /\ before \in [promisc : BOOLEAN, handler : {"SIG_DFL", "SIG_IGN", "on_sigint"}]
    /\ failed \subseteq Calls
    /\ g_active_ctx \in Contexts \cup {NULL}
    /\ stop_requested \in BOOLEAN
    /\ stopper \in [OtherThreads -> Contexts \cup {NULL}]
    /\ pcap \in {"none", "open", "saved", "damaged"}
    /\ received \in 0 .. MaxFrames
    /\ written \in 0 .. received
    /\ called \in 0 .. received
    /\ result \in {0, -1}
    /\ g_last_stats_valid \in BOOLEAN
    /\ g_last_stats \in 0 .. MaxRuns

(* Whichever call fails, run_impl() returns with nothing left over: the    *)
(* filter program, the socket, the ring, the context and the file are      *)
(* released on every path (raw_socket.c:137-217, capture_backend_linux.c:  *)
(* 126-160, 216-240).                                                      *)
ReturnReleasesAll == pc = "returned" => held = {}

(* g_active_ctx never points to a context that does not exist yet or was   *)
(* closed, at any point where a signal may look at it (capture_backend_    *)
(* linux.c:179, 214, 240).                                                 *)
ActiveIsLive == g_active_ctx # NULL /\ pc # "killed" => ContextLive(g_active_ctx)

(* A run that opened its socket leaves the interface as it found it: its   *)
(* own promiscuous mode is cleared, someone else's is kept                 *)
(* (raw_socket.c:166-175, 356-371).                                        *)
PromiscRestored ==
    pc = "returned" /\ failed \cap {"open", "clear_promisc"} = {} => promisc = before.promisc

(* The disposition of SIGINT after the run is the one before it, on every  *)
(* path and over repeated runs (capture_backend_linux.c:171-178, 213).     *)
HandlerRestored == pc = "returned" /\ "signal" \notin failed => handler = before.handler

(* run_impl() returns 0 exactly when no call failed that matters to the    *)
(* caller, and then the file is on disk with every frame handed on         *)
(* (capture_backend_linux.c:186-223).                                      *)
ResultHonest ==
    pc = "returned" =>
        /\ result = 0 <=> failed \subseteq {"signal", "stats", "clear_promisc"}
        /\ result = 0 /\ saving => pcap = "saved" /\ written = called
        /\ result = 0 => called = received

(* "The raw frame lands in the .pcap file even if the parser trips over it *)
(* afterward" (capture_backend_linux.c:205-206).                           *)
WriteBeforeCallback ==
    saving => called <= written /\ (pc = "callback" => written = received)

(* A stop that reached the context of the running capture ends the run,    *)
(* however many frames are waiting.                                        *)
StopEndsRun == stop_requested /\ g_active_ctx # NULL ~> pc \in {"returned", "killed"}

(* "otherwise the interface stays promiscuous after the program exits"     *)
(* (raw_socket.c:357-359): a run that turned promiscuous mode on turns it  *)
(* off again, whatever failed in between.                                  *)
PromiscNeverLeaks ==
    pc = "returned" /\ "clear_promisc" \notin failed => promisc = before.promisc

(* get_last_stats() reports "stats for the run() call that most recently   *)
(* returned" (capture_backend.h:50-53).                                    *)
StatsAreOfLastRun == pc = "returned" => LastStats \in {run, -1}

(* raw_socket_request_stop() may be "called from another thread"           *)
(* (raw_socket.h:89): the context a stop request is about to be stored in  *)
(* has not been closed in the meantime.                                    *)
StopFindsLiveContext ==
    \A t \in OtherThreads : pc # "killed" /\ stopper[t] # NULL => ContextLive(stopper[t])
=============================================================================
