----------------------------- MODULE SplashProof -----------------------------
(***************************************************************************)
(* Proofs about Splash: its types, the start handshake, and that no thread *)
(* calls into a Tcl/Tk library after it was unloaded; where the Tcl thread *)
(* cannot be created, nothing of this goes wrong before the screen is      *)
(* finalized for the second time.                                          *)
(***************************************************************************)
EXTENDS Splash, TLAPS

-----------------------------------------------------------------------------
(* The inductive invariant: where each thread may be, given the other.     *)

Running == {"notify_start", "loop", "event", "lock_exit"}
Interpreting == Running \cup {"init", "eval"}
Leaving == {"notify_start_again", "finalize_thread", "notify_exit"}
Left == {"returning", "ended"}

AfterLoad == {"start", "create", "lock_start", "unlock_context", "wait_start",
              "waiting_start", "wake_start"}
Finalizing == {"lock_exit", "signal_exit", "post_exit", "wait_exit",
               "waiting_exit", "wake_exit", "join", "tcl_finalize", "unload_tk"}

\* Who holds which mutex, and how long the interpreter lives.
MutexInv ==
    /\ context_mutex = "main" <=> boot \in {"create", "lock_start", "unlock_context"}
    /\ context_mutex = "tcl" <=> thread \in Interpreting
    /\ start_mutex = "main" <=> boot \in {"unlock_context", "wait_start"}
    /\ start_mutex # "tcl"
    /\ exit_mutex = "main" <=> boot \in {"signal_exit", "post_exit", "wait_exit"}
    /\ exit_mutex = "tcl" <=> thread \in Leaving
    /\ interp <=> thread \in Interpreting
    /\ thread_id <=> thread # "absent"

\* The screen is finalized once at the end; or, without a thread, twice after it
\* was set up, the second time with nothing loaded.
RetInv == IF thread = "absent" THEN ret # "wipe" ELSE ret = "wipe"

PassInv ==
    /\ RetInv
    /\ thread # "absent" => dlls = Libraries

\* What is loaded, and whether there is a screen at all.
LoadedInv ==
    /\ splash \/ (dlls = {} /\ (boot = "done" \/ thread = "absent"))
    /\ boot = "load" => (splash /\ thread = "absent" /\ ret = "wipe" /\ dlls = {})
    /\ boot \in AfterLoad => (splash /\ dlls = Libraries /\ dlls_fully_loaded)
    /\ boot \in AfterLoad => ret = "wipe"
    /\ boot \in {"start", "create"} => thread = "absent"
    /\ (boot \in {"extract", "app"} /\ splash) =>
           (dlls = Libraries /\ dlls_fully_loaded /\ thread # "absent")
    /\ boot \in Finalizing => (splash /\ dlls_fully_loaded /\ PassInv)
    /\ boot = "unload_tcl" => (splash /\ dlls \subseteq {"tcl"} /\ RetInv)
    /\ boot \in {"wipe", "done", "free"} => dlls = {}
    /\ boot = "free" => thread = "absent"

\* A call of pyi_splash_finalize, after a setup that failed or at the end.
FinalizeInv ==
    boot = "finalize" =>
        /\ (splash /\ dlls_fully_loaded) => PassInv
        /\ (splash /\ ~dlls_fully_loaded) => (thread = "absent" /\ ret # "finalize")
        /\ ~splash => ret = "wipe"

\* The two handshakes.
HandshakeInv ==
    /\ boot \in {"lock_start", "unlock_context"} => thread = "lock_context"
    /\ boot \in {"wait_start", "waiting_start"} =>
           thread \in {"lock_context", "init", "eval", "notify_start", "lock_exit",
                       "notify_start_again"}
    /\ boot \notin AfterLoad \ {"wake_start"} =>
           thread \notin {"lock_context", "init", "eval"}
    /\ boot = "wake_start" => thread # "absent"
    /\ boot \in {"signal_exit", "post_exit", "wait_exit"} => thread \in Running
    /\ boot = "waiting_exit" => thread \in Running \cup Leaving
    /\ boot \in {"wake_exit", "join", "tcl_finalize", "unload_tk", "unload_tcl",
                 "wipe", "done"} => thread \in {"absent"} \cup Left
    /\ (boot \in {"tcl_finalize", "unload_tk", "unload_tcl", "wipe", "done"} /\ thread_joinable) =>
           thread \in {"absent", "ended"}

\* A process that failed to extract the application has ended.
ControlInv ==
    /\ boot = "failed" => thread \in {"absent", "ended"}
    /\ boot # "failed" => MutexInv /\ LoadedInv /\ FinalizeInv /\ HandshakeInv

Inv == TypeOK /\ ControlInv

-----------------------------------------------------------------------------
(* Types.                                                                  *)

\* The program counters, mutexes and flags.
LEMMA ControlTyping == ASSUME ControlTypes, [Next]_vars PROVE ControlTypes'
<1> USE SplashAssumption DEF mainVars, mutexes, screen, appVars,
        BootPCs, ThreadPCs, Holders, Libraries
<1>1. CASE NoSplash
  <2>1. splash' \in BOOLEAN
    BY <1>1 DEF NoSplash, ControlTypes
  <2>2. QED
    BY <1>1, <2>1 DEF NoSplash, ControlTypes
<1>2. CASE LoadLibraries
  <2>1. dlls_fully_loaded' \in BOOLEAN
    BY <1>2 DEF LoadLibraries, ControlTypes
  <2>2. QED
    BY <1>2, <2>1 DEF LoadLibraries, ControlTypes
<1>3. CASE LockContext
  BY <1>3 DEF LockContext, ControlTypes
<1>4. CASE CreateThread
  BY <1>4 DEF CreateThread, ControlTypes
<1>5. CASE CreateThreadFails
  BY <1>5 DEF CreateThreadFails, ControlTypes
<1>6. CASE LockStart
  BY <1>6 DEF LockStart, ControlTypes
<1>7. CASE UnlockContext
  BY <1>7 DEF UnlockContext, ControlTypes
<1>8. CASE WaitStart
  BY <1>8 DEF WaitStart, ControlTypes
<1>9. CASE Started
  BY <1>9 DEF Started, ControlTypes
<1>10. CASE ExtractEntry
  BY <1>10 DEF ExtractEntry, ControlTypes
<1>11. CASE ExtractionFails
  BY <1>11 DEF ExtractionFails, ControlTypes
<1>12. CASE ExtractionDone
  BY <1>12 DEF ExtractionDone, ControlTypes
<1>13. CASE FinalizePartial
  BY <1>13 DEF FinalizePartial, Return, ControlTypes
<1>14. CASE Finalize
  BY <1>14 DEF Finalize, ControlTypes
<1>15. CASE LockExit
  BY <1>15 DEF LockExit, ControlTypes
<1>16. CASE SignalExit
  BY <1>16 DEF SignalExit, ControlTypes
<1>17. CASE PostExit
  BY <1>17 DEF PostExit, ControlTypes
<1>18. CASE WaitExit
  BY <1>18 DEF WaitExit, ControlTypes
<1>19. CASE ExitNotified
  BY <1>19 DEF ExitNotified, ControlTypes
<1>20. CASE JoinThread
  BY <1>20 DEF JoinThread, ControlTypes
<1>21. CASE TclFinalize
  BY <1>21 DEF TclFinalize, ControlTypes
<1>22. CASE UnloadTk
  BY <1>22 DEF UnloadTk, ControlTypes
<1>23. CASE UnloadTcl
  BY <1>23 DEF UnloadTcl, Return, ControlTypes
<1>24. CASE FreeContext
  <2>1. splash' \in BOOLEAN
    BY <1>24 DEF FreeContext, ControlTypes
  <2>2. QED
    BY <1>24, <2>1 DEF FreeContext, ControlTypes
<1>25. CASE WipeDirectory
  <2>1. splash' \in BOOLEAN
    BY <1>25 DEF WipeDirectory, ControlTypes
  <2>2. QED
    BY <1>25, <2>1 DEF WipeDirectory, ControlTypes
<1>26. CASE TclLockContext
  <2>1. exit_main_loop' \in BOOLEAN
    BY <1>26 DEF TclLockContext, ControlTypes
  <2>2. QED
    BY <1>26, <2>1 DEF TclLockContext, ControlTypes
<1>27. CASE TclInit
  <2>1. windows' \in BOOLEAN
    BY <1>27 DEF TclInit, ControlTypes
  <2>2. QED
    BY <1>27, <2>1 DEF TclInit, ControlTypes
<1>28. CASE EvalScript
  <2>1. ipc' \in BOOLEAN
    BY <1>28 DEF EvalScript, ControlTypes
  <2>2. QED
    BY <1>28, <2>1 DEF EvalScript, ControlTypes
<1>29. CASE NotifyStarted
  BY <1>29 DEF NotifyStarted, NotifyStart, ControlTypes
<1>30. CASE CheckLoop
  BY <1>30 DEF CheckLoop, ControlTypes
<1>31. CASE ServiceEvent
  BY <1>31 DEF ServiceEvent, ControlTypes
<1>32. CASE ServiceChannel
  <2>1. exit_main_loop' \in BOOLEAN
    BY <1>32 DEF ServiceChannel, ControlTypes
  <2>2. QED
    BY <1>32, <2>1 DEF ServiceChannel, ControlTypes
<1>33. CASE TclLockExit
  <2>1. interp' \in BOOLEAN
    BY <1>33 DEF TclLockExit, ControlTypes
  <2>3. windows' \in BOOLEAN
    BY <1>33 DEF TclLockExit, ControlTypes
  <2>2. QED
    BY <1>33, <2>1, <2>3 DEF TclLockExit, ControlTypes
<1>34. CASE NotifyStartAgain
  BY <1>34 DEF NotifyStartAgain, NotifyStart, ControlTypes
<1>35. CASE FinalizeThread
  BY <1>35 DEF FinalizeThread, ControlTypes
<1>36. CASE NotifyExit
  BY <1>36 DEF NotifyExit, ControlTypes
<1>37. CASE ThreadEnds
  BY <1>37 DEF ThreadEnds, ControlTypes
<1>38. CASE AppConnects
  BY <1>38 DEF AppConnects, ControlTypes
<1>39. CASE AppUpdatesText
  BY <1>39 DEF AppUpdatesText, ControlTypes
<1>40. CASE AppCloses
  BY <1>40 DEF AppCloses, ControlTypes
<1>41. CASE AppExits
  BY <1>41 DEF AppExits, ControlTypes
<1>42. CASE UserClosesWindow
  <2>1. windows' \in BOOLEAN
    BY <1>42 DEF UserClosesWindow, ControlTypes
  <2>2. QED
    BY <1>42, <2>1 DEF UserClosesWindow, ControlTypes
<1>43. CASE UNCHANGED vars
  BY <1>43 DEF vars, ControlTypes
<1>44. QED
  BY <1>1, <1>2, <1>3, <1>4, <1>5, <1>6, <1>7, <1>8, <1>9, <1>10, <1>11,
     <1>12, <1>13, <1>14, <1>15, <1>16, <1>17, <1>18, <1>19, <1>20, <1>21,
     <1>22, <1>23, <1>24, <1>25, <1>26, <1>27, <1>28, <1>29, <1>30, <1>31,
     <1>32, <1>33, <1>34, <1>35, <1>36, <1>37, <1>38, <1>39, <1>40, <1>41,
     <1>42, <1>43 DEF Next, Main, TclThread, App, Terminated

\* An event goes to the tail of the queue, or nowhere.
LEMMA QueueTyping ==
    ASSUME NEW event \in 0..MaxText, queue \in Seq(0..MaxText), QueueEvent(event)
    PROVE  queue' \in Seq(0..MaxText)
<1>1. CASE queue' = queue
  BY <1>1
<1>2. CASE queue' = Append(queue, event)
  BY <1>2
<1>3. QED
  BY <1>1, <1>2 DEF QueueEvent

\* The texts on their way.
LEMMA DataTyping == ASSUME DataTypes, [Next]_vars PROVE DataTypes'
<1> USE SplashAssumption DEF DataTypes, MaxText, Garbage, WakeUp, EndOfFile,
        mainVars, screen, appVars
<1>1. CASE ExtractEntry
  <2>1. CASE splash
    BY <1>1, <2>1, QueueTyping DEF ExtractEntry
  <2>2. CASE ~splash
    BY <1>1, <2>2 DEF ExtractEntry
  <2>3. QED
    BY <2>1, <2>2
<1>2. CASE ExtractionDone
  BY <1>2 DEF ExtractionDone
<1>3. CASE PostExit
  BY <1>3, QueueTyping DEF PostExit
<1>4. CASE ServiceEvent
  BY <1>4 DEF ServiceEvent, Deref
<1>5. CASE ServiceChannel
  BY <1>5 DEF ServiceChannel
<1>6. CASE AppUpdatesText
  BY <1>6 DEF AppUpdatesText
<1>7. CASE AppCloses
  BY <1>7 DEF AppCloses
<1>8. CASE AppExits
  <2>1. sock' \in Seq(0..MaxText)
    <3>1. CASE client = "connected"
      BY <1>8, <3>1 DEF AppExits
    <3>2. CASE client # "connected"
      BY <1>8, <3>2 DEF AppExits
    <3>3. QED
      BY <3>1, <3>2
  <2>2. QED
    BY <1>8, <2>1 DEF AppExits
<1>9. ASSUME UNCHANGED <<queue, sock, sent, name_buffer, status_text>>
      PROVE  DataTypes'
  BY <1>9
<1>10. ASSUME \/ NoSplash \/ LoadLibraries \/ LockContext \/ CreateThread \/
                CreateThreadFails \/ LockStart \/ UnlockContext \/ WaitStart
                \/ Started \/ ExtractionFails \/ FinalizePartial \/ Finalize
                \/ LockExit \/ SignalExit \/ WaitExit \/ ExitNotified \/
                JoinThread \/ TclFinalize \/ UnloadTk \/ UnloadTcl \/
                FreeContext \/ WipeDirectory \/ TclLockContext \/ TclInit \/
                EvalScript \/ NotifyStarted \/ CheckLoop \/ TclLockExit \/
                NotifyStartAgain \/ FinalizeThread \/ NotifyExit \/
                ThreadEnds \/ AppConnects \/ UserClosesWindow
             \/ Terminated \/ UNCHANGED vars
      PROVE UNCHANGED <<queue, sock, sent, name_buffer, status_text>>
  BY <1>10 DEF vars, Terminated, NoSplash, LoadLibraries, LockContext,
     CreateThread, CreateThreadFails, LockStart, UnlockContext, WaitStart,
     Started, ExtractionFails, FinalizePartial, Finalize, LockExit,
     SignalExit, WaitExit, ExitNotified, JoinThread, TclFinalize,
     UnloadTk, UnloadTcl, FreeContext, WipeDirectory, TclLockContext,
     TclInit, EvalScript, NotifyStarted, CheckLoop, TclLockExit,
     NotifyStartAgain, FinalizeThread, NotifyExit, ThreadEnds,
     AppConnects, UserClosesWindow
<1>11. QED
  BY <1>1, <1>2, <1>3, <1>4, <1>5, <1>6, <1>7, <1>8, <1>9, <1>10
     DEF Next, Main, TclThread, App

\* TypeOK is inductive by itself.
LEMMA TypingStep == ASSUME TypeOK, [Next]_vars PROVE TypeOK'
BY ControlTyping, DataTyping DEF TypeOK

LEMMA TypingInit == ASSUME Init PROVE TypeOK
<1>1. ControlTypes
  BY DEF Init, ControlTypes, BootPCs, ThreadPCs, Holders, Libraries
<1>2. <<>> \in Seq(0..MaxText)
  OBVIOUS
<1>3. DataTypes
  BY <1>2, SplashAssumption DEF Init, DataTypes, MaxText, Garbage
<1>4. QED
  BY <1>1, <1>3 DEF TypeOK

\* Every variable keeps its type, whatever the entries, the texts and the
\* platform are, and whether or not the thread can be created.
THEOREM TypeCorrect == Spec => []TypeOK
<1>1. Init => TypeOK
  BY TypingInit
<1>2. TypeOK /\ [Next]_vars => TypeOK'
  BY TypingStep
<1>3. QED
  BY <1>1, <1>2, PTL DEF Spec

-----------------------------------------------------------------------------
(* The invariant is inductive.                                             *)

LEMMA InvInit == ASSUME Init PROVE Inv
BY TypingInit DEF Init, Inv, ControlInv, MutexInv, LoadedInv, FinalizeInv, HandshakeInv, Running,
   Interpreting, Leaving, Left, AfterLoad, Finalizing

\* Every step keeps the control invariant.
LEMMA ControlStep == ASSUME Inv, Next PROVE ControlInv'
<1> USE DEF ControlInv, MutexInv, RetInv, PassInv, LoadedInv, FinalizeInv, HandshakeInv, Running, Interpreting,
        Leaving, Left, AfterLoad, Finalizing, Libraries, mainVars, mutexes, screen, appVars
<1>0. /\ thread \in ThreadPCs /\ dlls \in SUBSET Libraries
      /\ ret \in {"finalize", "free", "wipe"}
  BY DEF Inv, ControlInv, TypeOK, ControlTypes
<1>1. CASE NoSplash
  BY <1>1 DEF Inv, NoSplash
<1>2. CASE LoadLibraries
  BY <1>2 DEF Inv, LoadLibraries
<1>3. CASE LockContext
  BY <1>3 DEF Inv, LockContext
<1>4. CASE CreateThread
  BY <1>4 DEF Inv, CreateThread
<1>5. CASE LockStart
  BY <1>5 DEF Inv, LockStart
<1>6. CASE UnlockContext
  BY <1>6 DEF Inv, UnlockContext
<1>7. CASE WaitStart
  BY <1>7 DEF Inv, WaitStart
<1>8. CASE Started
  BY <1>8 DEF Inv, Started
<1>9. CASE ExtractEntry
  BY <1>9 DEF Inv, ExtractEntry, QueueEvent
<1>10. CASE ExtractionFails
  BY <1>10 DEF Inv, ExtractionFails
<1>11. CASE ExtractionDone
  BY <1>11 DEF Inv, ExtractionDone
<1>12. CASE FinalizePartial
  <2>1. CASE splash
    BY <1>12, <2>1, <1>0 DEF Inv, FinalizePartial, Return, ThreadPCs
  <2>2. CASE ~splash
    BY <1>12, <2>2, <1>0 DEF Inv, FinalizePartial, Return, ThreadPCs
  <2>3. QED
    BY <2>1, <2>2
<1>13. CASE Finalize
  BY <1>13 DEF Inv, Finalize
<1>14. CASE LockExit
  BY <1>14, <1>0 DEF Inv, LockExit, ThreadPCs
<1>15. CASE SignalExit
  BY <1>15 DEF Inv, SignalExit
<1>16. CASE PostExit
  BY <1>16 DEF Inv, PostExit, QueueEvent
<1>17. CASE WaitExit
  BY <1>17 DEF Inv, WaitExit
<1>18. CASE ExitNotified
  BY <1>18 DEF Inv, ExitNotified
<1>19. CASE JoinThread
  BY <1>19 DEF Inv, JoinThread
<1>20. CASE TclFinalize
  BY <1>20 DEF Inv, TclFinalize
<1>21. CASE UnloadTk
  BY <1>21, <1>0 DEF Inv, UnloadTk
<1>22. CASE UnloadTcl
  BY <1>22, <1>0 DEF Inv, UnloadTcl, Return
<1>23. CASE FreeContext
  BY <1>23 DEF Inv, FreeContext
<1>24. CASE WipeDirectory
  BY <1>24 DEF Inv, WipeDirectory
<1>25. CASE TclLockContext
  BY <1>25 DEF Inv, TclLockContext
<1>26. CASE TclInit
  BY <1>26 DEF Inv, TclInit
<1>27. CASE EvalScript
  BY <1>27 DEF Inv, EvalScript
<1>28. CASE NotifyStarted
  BY <1>28 DEF Inv, NotifyStarted, NotifyStart
<1>29. CASE CheckLoop
  BY <1>29 DEF Inv, CheckLoop
<1>30. CASE ServiceEvent
  BY <1>30 DEF Inv, ServiceEvent
<1>31. CASE ServiceChannel
  BY <1>31 DEF Inv, ServiceChannel
<1>32. CASE TclLockExit
  BY <1>32 DEF Inv, TclLockExit
<1>33. CASE NotifyStartAgain
  BY <1>33 DEF Inv, NotifyStartAgain, NotifyStart
<1>34. CASE FinalizeThread
  BY <1>34 DEF Inv, FinalizeThread
<1>35. CASE NotifyExit
  BY <1>35 DEF Inv, NotifyExit
<1>36. CASE ThreadEnds
  BY <1>36 DEF Inv, ThreadEnds
<1>37. CASE AppConnects
  BY <1>37 DEF Inv, AppConnects
<1>38. CASE AppUpdatesText
  BY <1>38 DEF Inv, AppUpdatesText
<1>39. CASE AppCloses
  BY <1>39 DEF Inv, AppCloses
<1>40. CASE AppExits
  BY <1>40 DEF Inv, AppExits
<1>41. CASE UserClosesWindow
  BY <1>41 DEF Inv, UserClosesWindow
<1>42. CASE Terminated
  BY <1>42 DEF Inv, Terminated, vars
<1>43. CASE CreateThreadFails
  BY <1>43 DEF Inv, CreateThreadFails
<1>44. QED
  BY <1>1, <1>2, <1>3, <1>4, <1>5, <1>6, <1>7, <1>8, <1>9, <1>10, <1>11,
     <1>12, <1>13, <1>14, <1>15, <1>16, <1>17, <1>18, <1>19, <1>20, <1>21,
     <1>22, <1>23, <1>24, <1>25, <1>26, <1>27, <1>28, <1>29, <1>30, <1>31,
     <1>32, <1>33, <1>34, <1>35, <1>36, <1>37, <1>38, <1>39, <1>40, <1>41,
     <1>42, <1>43 DEF Next, Main, TclThread, App

LEMMA InvStep == ASSUME Inv, [Next]_vars PROVE Inv'
<1>1. TypeOK'
  BY TypingStep DEF Inv
<1>2. CASE Next
  BY <1>1, <1>2, ControlStep DEF Inv
<1>3. CASE UNCHANGED vars
  BY <1>1, <1>3 DEF Inv, ControlInv, vars, mainVars, mutexes, screen, appVars, MutexInv, RetInv, PassInv,
     LoadedInv, FinalizeInv, HandshakeInv
<1>4. QED
  BY <1>2, <1>3

\* The invariant holds in every reachable state.
THEOREM Invariance == Spec => []Inv
<1>1. Init => Inv
  BY InvInit
<1>2. Inv /\ [Next]_vars => Inv'
  BY InvStep
<1>3. QED
  BY <1>1, <1>2, PTL DEF Spec

-----------------------------------------------------------------------------
(* The safety properties, from the invariant.                              *)

\* No thread calls into a library of Tcl or Tk after it was unloaded
\* (pyi_splash_finalize against _splash_init), before the screen is finalized
\* without ever having had a thread.
THEOREM NoUseAfterUnload == Spec => []CallsOnlyLoadedTcl
<1>1. Inv => CallsOnlyLoadedTcl
  BY DEF Inv, ControlInv, TypeOK, ControlTypes, ThreadPCs, BootPCs,
     MutexInv, LoadedInv, FinalizeInv,
     HandshakeInv, Running, Interpreting, Leaving, Left, AfterLoad, Finalizing,
     CallsOnlyLoadedTcl, SetupPCs, NoCallIntoUnloadedTcl, MainTclCalls, RetInv, PassInv
<1>2. QED
  BY <1>1, Invariance, PTL

\* A joinable thread has ended before anything is unloaded.
THEOREM JoinWorks == Spec => []JoinedBeforeUnload
<1>1. Inv => JoinedBeforeUnload
  BY DEF Inv, ControlInv, TypeOK, ControlTypes, ThreadPCs, BootPCs,
     MutexInv, LoadedInv, FinalizeInv,
     HandshakeInv, Running, Interpreting, Leaving, Left, AfterLoad, Finalizing,
     RetInv, PassInv, JoinedBeforeUnload
<1>2. QED
  BY <1>1, Invariance, PTL

\* pyi_splash_start returns after the script was evaluated or given up.
THEOREM StartHandshake == Spec => []StartedAfterScript
<1>1. Inv => StartedAfterScript
  BY DEF Inv, ControlInv, HandshakeInv, AfterLoad, StartedAfterScript
<1>2. QED
  BY <1>1, Invariance, PTL

\* Both libraries are released before the temporary directory is removed.
THEOREM ReleaseWorks == Spec => []ReleasedBeforeWipe
<1>1. Inv => ReleasedBeforeWipe
  BY DEF Inv, ControlInv, LoadedInv, ReleasedBeforeWipe
<1>2. QED
  BY <1>1, Invariance, PTL
=============================================================================
