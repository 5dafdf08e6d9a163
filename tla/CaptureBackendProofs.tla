------------------------- MODULE CaptureBackendProofs -------------------------
(***************************************************************************)
(* The safety properties of CaptureBackend, for any number of runs, frames *)
(* and other threads.  The inductive invariant says of every control point *)
(* of run_impl() what is held, what g_active_ctx, the SIGINT disposition   *)
(* and promiscuous mode are, and what has become of the frames received.   *)
(***************************************************************************)
EXTENDS CaptureBackend, TLAPS

(* The control points between two events of a run. *)
Opening == {"bind", "get_flags", "set_promisc", "set_version", "set_ring", "map_ring", "alloc"}
Looping == {"recv", "write", "callback", "restore", "clear_active"}
Capturing == {"signal", "set_active", "fclose"} \cup Looping
Closing == {"stats", "clear_promisc", "release"}
Opened == {"attach", "fopen", "header"} \cup Capturing \cup Closing

(* What is held, resource by resource. *)
HeldInv ==
    /\ "fd" \in held <=> pc \in Opening \cup Opened
    /\ "ring" \in held <=> pc \in {"alloc"} \cup Opened
    /\ "ctx" \in held <=> pc \in Opened
    /\ "file" \in held <=> saving /\ pc \in {"header"} \cup Capturing
    /\ pc = "header" => saving
    /\ "prog" \in held => pc \in {"socket", "open_failed", "attach"} \cup Opening

(* g_active_ctx is set exactly around the capture loop. *)
ActiveInv ==
    pc # "killed" => g_active_ctx = IF pc \in Looping THEN run ELSE NULL

(* The disposition of SIGINT, as far as signal() did not fail. *)
HandlerInv ==
    /\ pc = "compile" => failed = {}
    /\ pc # "killed" /\ "signal" \notin failed =>
           IF pc \in {"set_active", "recv", "write", "callback", "restore"}
           THEN previous_sigint_handler = before.handler
           ELSE handler = before.handler

(* promisc_set_by_us tells whether this run turned promiscuous mode on. *)
PromiscInv ==
    /\ pc \in {"idle", "compile", "socket", "bind", "get_flags", "set_promisc"} => promisc = before.promisc
    /\ pc = "set_promisc" => ~promisc_set_by_us
    /\ pc \in {"set_version", "set_ring", "map_ring", "alloc"} \cup (Opened \ {"release"}) =>
           /\ promisc <=> before.promisc \/ promisc_set_by_us
           /\ ~(before.promisc /\ promisc_set_by_us)
    /\ pc = "open_failed" => "open" \in failed
    /\ pc \in {"release", "returned"} /\ failed \cap {"open", "clear_promisc"} = {} =>
           promisc = before.promisc

Harmless == {"signal", "stats", "clear_promisc"}

(* The result, the file, and the frames written and handed on. *)
OutcomeInv ==
    /\ pc \notin {"open_failed", "killed"} => (result = 0 <=> failed \subseteq Harmless)
    /\ pc = "open_failed" => "open" \in failed
    /\ saving => called <= written
    /\ pc \in Opening \cup {"compile", "socket", "attach", "fopen", "header", "signal", "set_active"} =>
           received = 0 /\ written = 0 /\ called = 0
    /\ pc = "recv" => called = received /\ (saving => written = received)
    /\ pc = "write" => called + 1 = received /\ (saving => written + 1 = received)
    /\ pc = "callback" => called + 1 = received /\ (saving => written = received)
    /\ result = 0 /\ pc \in {"restore", "clear_active", "fclose", "returned"} \cup Closing =>
           called = received /\ (saving => written = received)
    /\ pc = "header" \/ (saving /\ result = 0 /\ pc \in Capturing) => pcap = "open"
    /\ saving /\ result = 0 /\ pc \in Closing \cup {"returned"} => pcap = "saved"

-----------------------------------------------------------------------------
(* The resources and calls, by name. *)
LEMMA Names ==
    /\ "prog" \in Resources /\ "fd" \in Resources /\ "ring" \in Resources
    /\ "ctx" \in Resources /\ "file" \in Resources
    /\ "compile" \in Calls /\ "open" \in Calls /\ "attach" \in Calls /\ "fopen" \in Calls
    /\ "fwrite" \in Calls /\ "signal" \in Calls /\ "recv" \in Calls /\ "fclose" \in Calls
    /\ "stats" \in Calls /\ "clear_promisc" \in Calls
BY DEF Resources, Calls

(* Every step of run_impl(), a signal or a stop request keeps the types. *)
LEMMA TypeStep ==
    ASSUME TypeOK, [Next]_vars
    PROVE  TypeOK'
<1> USE BackendAssumption, Names DEF TypeOK, Points, Contexts, NULL, Goto, inputVars, promiscVars,
            signalVars, stopVars, frameVars, statsVars
<1>1. CASE RunCall
  BY <1>1 DEF RunCall
<1>2. CASE CompileFilter
  BY <1>2 DEF CompileFilter
<1>3. CASE OpenSocket
  BY <1>3 DEF OpenSocket, OpenCall
<1>4. CASE BindDevice
  BY <1>4 DEF BindDevice, OpenCall
<1>5. CASE GetFlags
  <2>1. (promisc \in BOOLEAN /\ promisc_set_by_us \in BOOLEAN)'
    BY Zenon, <1>5 DEF GetFlags, OpenCall
  <2> QED  BY <1>5, <2>1 DEF GetFlags, OpenCall
<1>6. CASE SetPromisc
  <2>1. (promisc \in BOOLEAN /\ promisc_set_by_us \in BOOLEAN)'
    BY Zenon, <1>6 DEF SetPromisc
  <2> QED  BY <1>6, <2>1 DEF SetPromisc
<1>7. CASE SetVersion
  BY <1>7 DEF SetVersion, OpenCall
<1>8. CASE SetRing
  BY <1>8 DEF SetRing, OpenCall
<1>9. CASE MapRing
  BY <1>9 DEF MapRing, OpenCall
<1>10. CASE AllocContext
  BY <1>10 DEF AllocContext, OpenCall
<1>11. CASE OpenFailed
  BY <1>11 DEF OpenFailed
<1>12. CASE AttachFilter
  BY <1>12 DEF AttachFilter, GiveUp
<1>13. CASE OpenFile
  BY <1>13 DEF OpenFile, GiveUp
<1>14. CASE WriteHeader
  BY <1>14 DEF WriteHeader, GiveUp
<1>15. CASE InstallHandler
  BY <1>15 DEF InstallHandler
<1>16. CASE SetActive
  BY <1>16 DEF SetActive
<1>17. CASE RecvStopped
  BY <1>17 DEF RecvStopped
<1>18. CASE WriteRecord
  BY <1>18 DEF WriteRecord
<1>19. CASE RestoreHandler
  BY <1>19 DEF RestoreHandler
<1>20. CASE ClearActive
  BY <1>20 DEF ClearActive
<1>21. CASE CloseFile
  BY <1>21 DEF CloseFile
<1>22. CASE ReadStats
  <2>1. (g_last_stats_valid \in BOOLEAN)'
    BY Zenon, <1>22 DEF ReadStats
  <2> QED  BY <1>22, <2>1 DEF ReadStats
<1>23. CASE ClearPromisc
  <2>1. (promisc \in BOOLEAN /\ promisc_set_by_us \in BOOLEAN)'
    BY Zenon, <1>23 DEF ClearPromisc
  <2> QED  BY <1>23, <2>1 DEF ClearPromisc
<1>24. CASE ReleaseContext
  BY <1>24 DEF ReleaseContext
<1>25. CASE RecvFrame
  BY <1>25 DEF RecvFrame
<1>26. CASE RecvFails
  BY <1>26 DEF RecvFails
<1>27. CASE Callback
  BY <1>27 DEF Callback
<1>28. CASE SigintKills
  BY <1>28 DEF SigintKills
<1>29. CASE SigintHandled
  BY <1>29 DEF SigintHandled
<1>30. ASSUME NEW t \in OtherThreads, LoadActive(t)
      PROVE  TypeOK'
  BY <1>30 DEF LoadActive
<1>31. ASSUME NEW t \in OtherThreads, StoreStop(t)
      PROVE  TypeOK'
  <2>1. (stop_requested \in BOOLEAN)'
    BY Zenon, <1>31 DEF StoreStop
  <2> QED  BY <1>31, <2>1 DEF StoreStop
<1>32. CASE UNCHANGED vars
  BY <1>32 DEF vars
<1> QED
  BY <1>1, <1>2, <1>3, <1>4, <1>5, <1>6, <1>7, <1>8, <1>9, <1>10, <1>11, <1>12, <1>13, <1>14,
     <1>15, <1>16, <1>17, <1>18, <1>19, <1>20, <1>21, <1>22, <1>23, <1>24, <1>25, <1>26, <1>27,
     <1>28, <1>29, <1>30, <1>31, <1>32
  DEF Next, RunStep, Recv, Signals, Finished

(* Every call that acquires or releases a resource moves to the matching   *)
(* control point, on its error path too.                                   *)
LEMMA HeldStep ==
    ASSUME TypeOK, HeldInv, [Next]_vars
    PROVE  HeldInv'
<1> USE DEF TypeOK, HeldInv, Opening, Looping, Capturing, Closing, Opened, Goto, inputVars,
            promiscVars, signalVars, stopVars, frameVars, statsVars
<1>1. CASE RunCall
  BY <1>1 DEF RunCall
<1>2. CASE CompileFilter
  BY <1>2 DEF CompileFilter
<1>3. CASE OpenSocket
  BY <1>3 DEF OpenSocket, OpenCall
<1>4. CASE BindDevice
  BY <1>4 DEF BindDevice, OpenCall
<1>5. CASE GetFlags
  BY <1>5 DEF GetFlags, OpenCall
<1>6. CASE SetPromisc
  BY <1>6 DEF SetPromisc
<1>7. CASE SetVersion
  BY <1>7 DEF SetVersion, OpenCall
<1>8. CASE SetRing
  BY <1>8 DEF SetRing, OpenCall
<1>9. CASE MapRing
  BY <1>9 DEF MapRing, OpenCall
<1>10. CASE AllocContext
  BY <1>10 DEF AllocContext, OpenCall
<1>11. CASE OpenFailed
  BY <1>11 DEF OpenFailed
<1>12. CASE AttachFilter
  BY <1>12 DEF AttachFilter, GiveUp
<1>13. CASE OpenFile
  BY <1>13 DEF OpenFile, GiveUp
<1>14. CASE WriteHeader
  BY <1>14 DEF WriteHeader, GiveUp
<1>15. CASE InstallHandler
  BY <1>15 DEF InstallHandler
<1>16. CASE SetActive
  BY <1>16 DEF SetActive
<1>17. CASE RecvStopped
  BY <1>17 DEF RecvStopped
<1>18. CASE WriteRecord
  BY <1>18 DEF WriteRecord
<1>19. CASE RestoreHandler
  BY <1>19 DEF RestoreHandler
<1>20. CASE ClearActive
  BY <1>20 DEF ClearActive
<1>21. CASE CloseFile
  BY <1>21 DEF CloseFile
<1>22. CASE ReadStats
  BY <1>22 DEF ReadStats
<1>23. CASE ClearPromisc
  BY <1>23 DEF ClearPromisc
<1>24. CASE ReleaseContext
  BY <1>24 DEF ReleaseContext
<1>25. CASE RecvFrame
  BY <1>25 DEF RecvFrame
<1>26. CASE RecvFails
  BY <1>26 DEF RecvFails
<1>27. CASE Callback
  BY <1>27 DEF Callback
<1>28. CASE SigintKills
  BY <1>28 DEF SigintKills
<1>29. CASE SigintHandled
  BY <1>29 DEF SigintHandled
<1>30. ASSUME NEW t \in OtherThreads, LoadActive(t)
      PROVE  HeldInv'
  BY <1>30 DEF LoadActive
<1>31. ASSUME NEW t \in OtherThreads, StoreStop(t)
      PROVE  HeldInv'
  BY <1>31 DEF StoreStop, ContextLive
<1>32. CASE UNCHANGED vars
  BY <1>32 DEF vars
<1> QED
  BY <1>1, <1>2, <1>3, <1>4, <1>5, <1>6, <1>7, <1>8, <1>9, <1>10, <1>11, <1>12, <1>13, <1>14,
     <1>15, <1>16, <1>17, <1>18, <1>19, <1>20, <1>21, <1>22, <1>23, <1>24, <1>25, <1>26, <1>27,
     <1>28, <1>29, <1>30, <1>31, <1>32
  DEF Next, RunStep, Recv, Signals, Finished

(* g_active_ctx is set before the capture loop and cleared after it. *)
LEMMA ActiveStep ==
    ASSUME TypeOK, ActiveInv, [Next]_vars
    PROVE  ActiveInv'
<1> USE DEF ActiveInv, Looping, Goto, inputVars, promiscVars, signalVars, stopVars, frameVars, statsVars
<1>1. CASE RunCall
  BY <1>1 DEF RunCall
<1>2. CASE CompileFilter
  BY <1>2 DEF CompileFilter
<1>3. CASE OpenSocket
  BY <1>3 DEF OpenSocket, OpenCall
<1>4. CASE BindDevice
  BY <1>4 DEF BindDevice, OpenCall
<1>5. CASE GetFlags
  BY <1>5 DEF GetFlags, OpenCall
<1>6. CASE SetPromisc
  BY <1>6 DEF SetPromisc
<1>7. CASE SetVersion
  BY <1>7 DEF SetVersion, OpenCall
<1>8. CASE SetRing
  BY <1>8 DEF SetRing, OpenCall
<1>9. CASE MapRing
  BY <1>9 DEF MapRing, OpenCall
<1>10. CASE AllocContext
  BY <1>10 DEF AllocContext, OpenCall
<1>11. CASE OpenFailed
  BY <1>11 DEF OpenFailed
<1>12. CASE AttachFilter
  BY <1>12 DEF AttachFilter, GiveUp
<1>13. CASE OpenFile
  BY <1>13 DEF OpenFile, GiveUp
<1>14. CASE WriteHeader
  BY <1>14 DEF WriteHeader, GiveUp
<1>15. CASE InstallHandler
  BY <1>15 DEF InstallHandler
<1>16. CASE SetActive
  BY <1>16 DEF SetActive
<1>17. CASE RecvStopped
  BY <1>17 DEF RecvStopped
<1>18. CASE WriteRecord
  BY <1>18 DEF WriteRecord
<1>19. CASE RestoreHandler
  BY <1>19 DEF RestoreHandler
<1>20. CASE ClearActive
  BY <1>20 DEF ClearActive
<1>21. CASE CloseFile
  BY <1>21 DEF CloseFile
<1>22. CASE ReadStats
  BY <1>22 DEF ReadStats
<1>23. CASE ClearPromisc
  BY <1>23 DEF ClearPromisc
<1>24. CASE ReleaseContext
  BY <1>24 DEF ReleaseContext
<1>25. CASE RecvFrame
  BY <1>25 DEF RecvFrame
<1>26. CASE RecvFails
  BY <1>26 DEF RecvFails
<1>27. CASE Callback
  BY <1>27 DEF Callback
<1>28. CASE SigintKills
  BY <1>28 DEF SigintKills
<1>29. CASE SigintHandled
  BY <1>29 DEF SigintHandled
<1>30. ASSUME NEW t \in OtherThreads, LoadActive(t)
      PROVE  ActiveInv'
  BY <1>30 DEF LoadActive
<1>31. ASSUME NEW t \in OtherThreads, StoreStop(t)
      PROVE  ActiveInv'
  BY <1>31 DEF StoreStop, ContextLive
<1>32. CASE UNCHANGED vars
  BY <1>32 DEF vars
<1> QED
  BY <1>1, <1>2, <1>3, <1>4, <1>5, <1>6, <1>7, <1>8, <1>9, <1>10, <1>11, <1>12, <1>13, <1>14,
     <1>15, <1>16, <1>17, <1>18, <1>19, <1>20, <1>21, <1>22, <1>23, <1>24, <1>25, <1>26, <1>27,
     <1>28, <1>29, <1>30, <1>31, <1>32
  DEF Next, RunStep, Recv, Signals, Finished

(* The disposition that signal() returned is the one put back. *)
LEMMA HandlerStep ==
    ASSUME TypeOK, HandlerInv, [Next]_vars
    PROVE  HandlerInv'
<1> USE DEF TypeOK, HandlerInv, Goto, inputVars, promiscVars, signalVars, stopVars, frameVars, statsVars
<1>1. CASE RunCall
  BY <1>1 DEF RunCall
<1>2. CASE CompileFilter
  BY <1>2 DEF CompileFilter
<1>3. CASE OpenSocket
  BY <1>3 DEF OpenSocket, OpenCall
<1>4. CASE BindDevice
  BY <1>4 DEF BindDevice, OpenCall
<1>5. CASE GetFlags
  BY <1>5 DEF GetFlags, OpenCall
<1>6. CASE SetPromisc
  BY <1>6 DEF SetPromisc
<1>7. CASE SetVersion
  BY <1>7 DEF SetVersion, OpenCall
<1>8. CASE SetRing
  BY <1>8 DEF SetRing, OpenCall
<1>9. CASE MapRing
  BY <1>9 DEF MapRing, OpenCall
<1>10. CASE AllocContext
  BY <1>10 DEF AllocContext, OpenCall
<1>11. CASE OpenFailed
  BY <1>11 DEF OpenFailed
<1>12. CASE AttachFilter
  BY <1>12 DEF AttachFilter, GiveUp
<1>13. CASE OpenFile
  BY <1>13 DEF OpenFile, GiveUp
<1>14. CASE WriteHeader
  BY <1>14 DEF WriteHeader, GiveUp
<1>15. CASE InstallHandler
  BY <1>15 DEF InstallHandler
<1>16. CASE SetActive
  BY <1>16 DEF SetActive
<1>17. CASE RecvStopped
  BY <1>17 DEF RecvStopped
<1>18. CASE WriteRecord
  BY <1>18 DEF WriteRecord
<1>19. CASE RestoreHandler
  BY <1>19 DEF RestoreHandler
<1>20. CASE ClearActive
  BY <1>20 DEF ClearActive
<1>21. CASE CloseFile
  BY <1>21 DEF CloseFile
<1>22. CASE ReadStats
  BY <1>22 DEF ReadStats
<1>23. CASE ClearPromisc
  BY <1>23 DEF ClearPromisc
<1>24. CASE ReleaseContext
  BY <1>24 DEF ReleaseContext
<1>25. CASE RecvFrame
  BY <1>25 DEF RecvFrame
<1>26. CASE RecvFails
  BY <1>26 DEF RecvFails
<1>27. CASE Callback
  BY <1>27 DEF Callback
<1>28. CASE SigintKills
  BY <1>28 DEF SigintKills
<1>29. CASE SigintHandled
  BY <1>29 DEF SigintHandled
<1>30. ASSUME NEW t \in OtherThreads, LoadActive(t)
      PROVE  HandlerInv'
  BY <1>30 DEF LoadActive
<1>31. ASSUME NEW t \in OtherThreads, StoreStop(t)
      PROVE  HandlerInv'
  BY <1>31 DEF StoreStop, ContextLive
<1>32. CASE UNCHANGED vars
  BY <1>32 DEF vars
<1> QED
  BY <1>1, <1>2, <1>3, <1>4, <1>5, <1>6, <1>7, <1>8, <1>9, <1>10, <1>11, <1>12, <1>13, <1>14,
     <1>15, <1>16, <1>17, <1>18, <1>19, <1>20, <1>21, <1>22, <1>23, <1>24, <1>25, <1>26, <1>27,
     <1>28, <1>29, <1>30, <1>31, <1>32
  DEF Next, RunStep, Recv, Signals, Finished

(* promisc_set_by_us stays true to the interface until it is closed. *)
LEMMA PromiscStep ==
    ASSUME TypeOK, PromiscInv, [Next]_vars
    PROVE  PromiscInv'
<1> USE DEF TypeOK, PromiscInv, Looping, Capturing, Closing, Opened, Goto, inputVars, promiscVars,
            signalVars, stopVars, frameVars, statsVars
<1>1. CASE RunCall
  BY <1>1 DEF RunCall
<1>2. CASE CompileFilter
  BY <1>2 DEF CompileFilter
<1>3. CASE OpenSocket
  BY <1>3 DEF OpenSocket, OpenCall
<1>4. CASE BindDevice
  BY <1>4 DEF BindDevice, OpenCall
<1>5. CASE GetFlags
  BY <1>5 DEF GetFlags, OpenCall
<1>6. CASE SetPromisc
  BY <1>6 DEF SetPromisc
<1>7. CASE SetVersion
  BY <1>7 DEF SetVersion, OpenCall
<1>8. CASE SetRing
  BY <1>8 DEF SetRing, OpenCall
<1>9. CASE MapRing
  BY <1>9 DEF MapRing, OpenCall
<1>10. CASE AllocContext
  BY <1>10 DEF AllocContext, OpenCall
<1>11. CASE OpenFailed
  BY <1>11 DEF OpenFailed
<1>12. CASE AttachFilter
  BY <1>12 DEF AttachFilter, GiveUp
<1>13. CASE OpenFile
  BY <1>13 DEF OpenFile, GiveUp
<1>14. CASE WriteHeader
  BY <1>14 DEF WriteHeader, GiveUp
<1>15. CASE InstallHandler
  BY <1>15 DEF InstallHandler
<1>16. CASE SetActive
  BY <1>16 DEF SetActive
<1>17. CASE RecvStopped
  BY <1>17 DEF RecvStopped
<1>18. CASE WriteRecord
  BY <1>18 DEF WriteRecord
<1>19. CASE RestoreHandler
  BY <1>19 DEF RestoreHandler
<1>20. CASE ClearActive
  BY <1>20 DEF ClearActive
<1>21. CASE CloseFile
  BY <1>21 DEF CloseFile
<1>22. CASE ReadStats
  BY <1>22 DEF ReadStats
<1>23. CASE ClearPromisc
  BY <1>23 DEF ClearPromisc
<1>24. CASE ReleaseContext
  BY <1>24 DEF ReleaseContext
<1>25. CASE RecvFrame
  BY <1>25 DEF RecvFrame
<1>26. CASE RecvFails
  BY <1>26 DEF RecvFails
<1>27. CASE Callback
  BY <1>27 DEF Callback
<1>28. CASE SigintKills
  BY <1>28 DEF SigintKills
<1>29. CASE SigintHandled
  BY <1>29 DEF SigintHandled
<1>30. ASSUME NEW t \in OtherThreads, LoadActive(t)
      PROVE  PromiscInv'
  BY <1>30 DEF LoadActive
<1>31. ASSUME NEW t \in OtherThreads, StoreStop(t)
      PROVE  PromiscInv'
  BY <1>31 DEF StoreStop, ContextLive
<1>32. CASE UNCHANGED vars
  BY <1>32 DEF vars
<1> QED
  BY <1>1, <1>2, <1>3, <1>4, <1>5, <1>6, <1>7, <1>8, <1>9, <1>10, <1>11, <1>12, <1>13, <1>14,
     <1>15, <1>16, <1>17, <1>18, <1>19, <1>20, <1>21, <1>22, <1>23, <1>24, <1>25, <1>26, <1>27,
     <1>28, <1>29, <1>30, <1>31, <1>32
  DEF Next, RunStep, Recv, Signals, Finished

(* The result and the frame counts follow the calls that failed. *)
LEMMA OutcomeStep ==
    ASSUME TypeOK, HeldInv, OutcomeInv, [Next]_vars
    PROVE  OutcomeInv'
<1> USE DEF TypeOK, HeldInv, OutcomeInv, Opened, Harmless, Opening, Looping, Capturing, Closing,
            Goto, inputVars, promiscVars, signalVars, stopVars, frameVars, statsVars
<1>1. CASE RunCall
  BY <1>1 DEF RunCall
<1>2. CASE CompileFilter
  BY <1>2 DEF CompileFilter
<1>3. CASE OpenSocket
  BY <1>3 DEF OpenSocket, OpenCall
<1>4. CASE BindDevice
  BY <1>4 DEF BindDevice, OpenCall
<1>5. CASE GetFlags
  BY <1>5 DEF GetFlags, OpenCall
<1>6. CASE SetPromisc
  BY <1>6 DEF SetPromisc
<1>7. CASE SetVersion
  BY <1>7 DEF SetVersion, OpenCall
<1>8. CASE SetRing
  BY <1>8 DEF SetRing, OpenCall
<1>9. CASE MapRing
  BY <1>9 DEF MapRing, OpenCall
<1>10. CASE AllocContext
  BY <1>10 DEF AllocContext, OpenCall
<1>11. CASE OpenFailed
  BY <1>11 DEF OpenFailed
<1>12. CASE AttachFilter
  BY <1>12 DEF AttachFilter, GiveUp
<1>13. CASE OpenFile
  BY <1>13 DEF OpenFile, GiveUp
<1>14. CASE WriteHeader
  BY <1>14 DEF WriteHeader, GiveUp
<1>15. CASE InstallHandler
  BY <1>15 DEF InstallHandler
<1>16. CASE SetActive
  BY <1>16 DEF SetActive
<1>17. CASE RecvStopped
  BY <1>17 DEF RecvStopped
<1>18. CASE WriteRecord
  BY <1>18 DEF WriteRecord
<1>19. CASE RestoreHandler
  BY <1>19 DEF RestoreHandler
<1>20. CASE ClearActive
  BY <1>20 DEF ClearActive
<1>21. CASE CloseFile
  BY <1>21 DEF CloseFile
<1>22. CASE ReadStats
  BY <1>22 DEF ReadStats
<1>23. CASE ClearPromisc
  BY <1>23 DEF ClearPromisc
<1>24. CASE ReleaseContext
  BY <1>24 DEF ReleaseContext
<1>25. CASE RecvFrame
  BY <1>25 DEF RecvFrame
<1>26. CASE RecvFails
  BY <1>26 DEF RecvFails
<1>27. CASE Callback
  BY <1>27 DEF Callback
<1>28. CASE SigintKills
  BY <1>28 DEF SigintKills
<1>29. CASE SigintHandled
  BY <1>29 DEF SigintHandled
<1>30. ASSUME NEW t \in OtherThreads, LoadActive(t)
      PROVE  OutcomeInv'
  BY <1>30 DEF LoadActive
<1>31. ASSUME NEW t \in OtherThreads, StoreStop(t)
      PROVE  OutcomeInv'
  BY <1>31 DEF StoreStop, ContextLive
<1>32. CASE UNCHANGED vars
  BY <1>32 DEF vars
<1> QED
  BY <1>1, <1>2, <1>3, <1>4, <1>5, <1>6, <1>7, <1>8, <1>9, <1>10, <1>11, <1>12, <1>13, <1>14,
     <1>15, <1>16, <1>17, <1>18, <1>19, <1>20, <1>21, <1>22, <1>23, <1>24, <1>25, <1>26, <1>27,
     <1>28, <1>29, <1>30, <1>31, <1>32
  DEF Next, RunStep, Recv, Signals, Finished

-----------------------------------------------------------------------------
(* The theorems *)

(* The inductive invariant. *)
IInv == TypeOK /\ HeldInv /\ ActiveInv /\ HandlerInv /\ PromiscInv /\ OutcomeInv

(* At every control point of run_impl() the resources held, g_active_ctx,  *)
(* the SIGINT disposition, promiscuous mode, the result and the frame      *)
(* counts are as the invariants above say, whichever calls failed and      *)
(* whenever signals and stop requests arrived.                             *)
THEOREM InductiveInvariant == Spec => []IInv
<1>1. Init => IInv
  <2> SUFFICES ASSUME Init PROVE IInv
    OBVIOUS
  <2> USE BackendAssumption DEF Init, NULL
  <2>1. TypeOK
    <3>1. before \in [promisc : BOOLEAN, handler : {"SIG_DFL", "SIG_IGN", "on_sigint"}]
      BY Zenon
    <3>2. stopper \in [OtherThreads -> Contexts \cup {NULL}]
      OBVIOUS
    <3>3. promisc \in BOOLEAN /\ saving \in BOOLEAN /\ promisc_set_by_us \in BOOLEAN
      BY Zenon
    <3>4. {handler, previous_sigint_handler} \subseteq {"SIG_DFL", "SIG_IGN", "on_sigint"}
      OBVIOUS
    <3>5. pc \in Points
      BY DEF Points
    <3>6. run \in 0 .. MaxRuns /\ received \in 0 .. MaxFrames /\ g_last_stats \in 0 .. MaxRuns
      OBVIOUS
    <3>7. stop_requested \in BOOLEAN /\ g_last_stats_valid \in BOOLEAN
      BY Zenon
    <3>8. held \subseteq Resources /\ failed \subseteq Calls
      OBVIOUS
    <3>9. g_active_ctx \in Contexts \cup {NULL} /\ written \in 0 .. received /\ called \in 0 .. received
      OBVIOUS
    <3>10. /\ bpf_filter \in {"none", "bad", "prog"} /\ result \in {0, -1}
           /\ pcap \in {"none", "open", "saved", "damaged"}
      OBVIOUS
    <3> HIDE DEF Init
    <3> QED  BY <3>1, <3>2, <3>3, <3>4, <3>5, <3>6, <3>7, <3>8, <3>9, <3>10, Zenon DEF TypeOK
  <2>2. HeldInv
    BY DEF HeldInv, Opening, Looping, Capturing, Closing, Opened
  <2>3. ActiveInv /\ HandlerInv
    BY DEF ActiveInv, HandlerInv, Looping
  <2>4. PromiscInv
    BY DEF PromiscInv, Looping, Capturing, Closing, Opened
  <2>5. OutcomeInv
    BY DEF OutcomeInv, Harmless, Opening, Looping, Capturing, Closing
  <2> QED  BY <2>1, <2>2, <2>3, <2>4, <2>5 DEF IInv
<1>2. IInv /\ [Next]_vars => IInv'
  BY TypeStep, HeldStep, ActiveStep, HandlerStep, PromiscStep, OutcomeStep DEF IInv
<1> QED  BY <1>1, <1>2, PTL DEF Spec

(* The state of the backend keeps its type. *)
THEOREM TypeCorrect == Spec => []TypeOK
<1>1. IInv => TypeOK
  BY DEF IInv
<1> QED  BY <1>1, InductiveInvariant, PTL

(* Whichever call fails, run_impl() returns with the program, the socket,  *)
(* the ring, the context and the file released.                            *)
THEOREM ReleaseCorrect == Spec => []ReturnReleasesAll
<1>1. IInv => ReturnReleasesAll
  BY DEF IInv, TypeOK, HeldInv, ReturnReleasesAll, Resources, Opening, Looping, Capturing, Closing, Opened
<1> QED  BY <1>1, InductiveInvariant, PTL

(* g_active_ctx never points to a context that was closed or is not there  *)
(* yet, wherever a signal may look at it.                                  *)
THEOREM ActiveCorrect == Spec => []ActiveIsLive
<1>1. IInv => ActiveIsLive
  BY DEF IInv, HeldInv, ActiveInv, ActiveIsLive, ContextLive, Looping, Capturing, Opened
<1> QED  BY <1>1, InductiveInvariant, PTL

(* A run that opened its socket leaves promiscuous mode as it found it,    *)
(* over any number of runs.                                                *)
THEOREM PromiscCorrect == Spec => []PromiscRestored
<1>1. IInv => PromiscRestored
  BY DEF IInv, PromiscInv, PromiscRestored
<1> QED  BY <1>1, InductiveInvariant, PTL

(* The SIGINT disposition after a run is the one before it, over any       *)
(* number of runs.                                                         *)
THEOREM HandlerCorrect == Spec => []HandlerRestored
<1>1. IInv => HandlerRestored
  BY DEF IInv, HandlerInv, HandlerRestored
<1> QED  BY <1>1, InductiveInvariant, PTL

(* run_impl() returns 0 exactly if nothing failed that matters, and then   *)
(* every frame handed on is in the file and the file is on disk.           *)
THEOREM ResultCorrect == Spec => []ResultHonest
<1>1. IInv => ResultHonest
  BY DEF IInv, OutcomeInv, ResultHonest, Harmless
<1> QED  BY <1>1, InductiveInvariant, PTL

(* A frame is in the file before the callback gets it. *)
THEOREM WriteCorrect == Spec => []WriteBeforeCallback
<1>1. IInv => WriteBeforeCallback
  BY DEF IInv, OutcomeInv, WriteBeforeCallback
<1> QED  BY <1>1, InductiveInvariant, PTL
=============================================================================
