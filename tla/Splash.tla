------------------------------- MODULE Splash -------------------------------
(***************************************************************************)
(* The splash screen of the bootloader (bootloader/src/pyi_splash.c): the  *)
(* main thread, which starts the screen, extracts the application, waits   *)
(* for it and finalizes the screen, and the Tcl thread, which runs the     *)
(* interpreter.  They share SPLASH_CONTEXT and talk through three mutexes, *)
(* two condition variables and the event queue of the Tcl thread.  The     *)
(* application talks to the Tcl thread over a local TCP connection         *)
(* (PyInstaller/fake-modules/pyi_splash.py).                               *)
(*                                                                         *)
(* One action per critical operation; operations of one thread between     *)
(* which nothing is shared are one step.  Tcl's own primitives (mutexes,   *)
(* conditions, event queue, thread creation and join) are modelled by      *)
(* their documented behaviour.                                             *)
(***************************************************************************)
EXTENDS Integers, Sequences

CONSTANTS
    NumEntries,       \* number of archive entries, each one a text to display
    Dependencies,     \* the entries that are references to another archive
    NumAppTexts,      \* bound: texts the application sends over the connection
    Joinable,         \* values thread_joinable may get on the build's platform
    CreationMayFail   \* whether Tcl_CreateThread may fail

ASSUME SplashAssumption ==
    /\ NumEntries \in Nat /\ NumAppTexts \in Nat
    /\ Dependencies \subseteq 1..NumEntries
    /\ Joinable \subseteq BOOLEAN /\ Joinable # {}
    /\ CreationMayFail \in BOOLEAN

VARIABLES
    boot,             \* where the main thread is
    ret,              \* where pyi_splash_finalize returns to
    thread,           \* where the Tcl thread is
    context_mutex, start_mutex, exit_mutex,   \* their holders
    splash,           \* pyi_ctx->splash is not NULL
    dlls,             \* shared libraries that are loaded
    dlls_fully_loaded, thread_id, thread_joinable, interp, exit_main_loop,
    windows,          \* Tk has a main window
    ipc,              \* _PYI_SPLASH_IPC holds the port of the server
    queue,            \* event queue of the Tcl thread
    sent,             \* texts sent so far, by the bootloader and the application
    name_buffer,      \* multipkg_name, on the stack of the extraction loop
    status_text,      \* the text on the screen
    client,           \* the connection of the application
    sock              \* what the application wrote and Tcl did not read yet

mainVars == <<boot, ret, splash, dlls, dlls_fully_loaded, thread_id,
              thread_joinable, name_buffer>>
mutexes == <<context_mutex, start_mutex, exit_mutex>>
screen == <<interp, exit_main_loop, windows, ipc, status_text>>
appVars == <<client, sock>>
vars == <<mainVars, thread, mutexes, screen, queue, sent, appVars>>

Libraries == {"tcl", "tk"}
Holders == {"free", "main", "tcl"}
MaxText == NumEntries + NumAppTexts
WakeUp == 0           \* the fake event that pyi_splash_finalize posts
EndOfFile == 0        \* the connection was closed by the application
Garbage == MaxText + 1   \* what a dead stack buffer holds

BootPCs == {"load", "start", "create", "lock_start", "unlock_context",
            "wait_start", "waiting_start", "wake_start", "extract", "app",
            "finalize", "lock_exit", "signal_exit", "post_exit", "wait_exit",
            "waiting_exit", "wake_exit", "join", "tcl_finalize", "unload_tk",
            "unload_tcl", "free", "wipe", "done", "failed"}
ThreadPCs == {"absent", "lock_context", "init", "eval", "notify_start", "loop",
              "event", "lock_exit", "notify_start_again", "finalize_thread",
              "notify_exit", "returning", "ended"}

\* Steps of the main thread that call a function of the Tcl library.
MainTclCalls == {"start", "create", "lock_start", "unlock_context", "wait_start",
                 "waiting_start", "wake_start", "lock_exit", "signal_exit",
                 "post_exit", "wait_exit", "waiting_exit", "wake_exit", "join",
                 "tcl_finalize"}

Init ==
    /\ boot = "load" /\ ret = "wipe" /\ thread = "absent"
    /\ context_mutex = "free" /\ start_mutex = "free" /\ exit_mutex = "free"
    /\ splash = TRUE /\ dlls = {} /\ dlls_fully_loaded = FALSE
    /\ thread_id = FALSE /\ thread_joinable = FALSE
    /\ interp = FALSE /\ exit_main_loop = FALSE /\ windows = FALSE
    /\ ipc = FALSE /\ queue = <<>> /\ sent = 0 /\ name_buffer = Garbage
    /\ status_text = 0 /\ client = "off" /\ sock = <<>>

-----------------------------------------------------------------------------
(* Setting the screen up: _pyi_main_setup_splash_screen, pyi_splash_start. *)

\* The archive has no splash screen, or it is suppressed.
NoSplash ==
    /\ boot = "load"
    /\ splash' = FALSE /\ boot' = "extract"
    /\ UNCHANGED <<ret, dlls, dlls_fully_loaded, thread_id, thread_joinable, name_buffer>>
    /\ UNCHANGED <<thread, mutexes, screen, queue, sent, appVars>>

\* Read the resources, extract the requirements, load the libraries and bind
\* their symbols; a failure on the way goes to the cleanup block.
LoadLibraries ==
    /\ boot = "load"
    /\ \/ /\ dlls' = Libraries /\ dlls_fully_loaded' = TRUE
          /\ boot' = "start" /\ ret' = ret
       \/ /\ dlls' \in SUBSET Libraries /\ dlls_fully_loaded' = FALSE
          /\ boot' = "finalize" /\ ret' = "free"
    /\ UNCHANGED <<splash, thread_id, thread_joinable, name_buffer>>
    /\ UNCHANGED <<thread, mutexes, screen, queue, sent, appVars>>

LockContext ==
    /\ boot = "start" /\ context_mutex = "free"
    /\ context_mutex' = "main"
    /\ thread_joinable' \in Joinable
    /\ boot' = "create"
    /\ UNCHANGED <<ret, splash, dlls, dlls_fully_loaded, thread_id, name_buffer>>
    /\ UNCHANGED <<start_mutex, exit_mutex, thread, screen, queue, sent, appVars>>

CreateThread ==
    /\ boot = "create"
    /\ thread' = "lock_context" /\ thread_id' = TRUE
    /\ boot' = "lock_start"
    /\ UNCHANGED <<ret, splash, dlls, dlls_fully_loaded, thread_joinable, name_buffer>>
    /\ UNCHANGED <<mutexes, screen, queue, sent, appVars>>

\* pyi_splash_start finalizes the screen itself and then returns an error, at
\* which _pyi_main_setup_splash_screen finalizes it (again) and frees it.
CreateThreadFails ==
    /\ boot = "create" /\ CreationMayFail
    /\ context_mutex' = "free"
    /\ boot' = "finalize" /\ ret' = "finalize"
    /\ UNCHANGED <<splash, dlls, dlls_fully_loaded, thread_id, thread_joinable, name_buffer>>
    /\ UNCHANGED <<start_mutex, exit_mutex, thread, screen, queue, sent, appVars>>

LockStart ==
    /\ boot = "lock_start" /\ start_mutex = "free"
    /\ start_mutex' = "main" /\ boot' = "unlock_context"
    /\ UNCHANGED <<ret, splash, dlls, dlls_fully_loaded, thread_id, thread_joinable, name_buffer>>
    /\ UNCHANGED <<context_mutex, exit_mutex, thread, screen, queue, sent, appVars>>

UnlockContext ==
    /\ boot = "unlock_context"
    /\ context_mutex' = "free" /\ boot' = "wait_start"
    /\ UNCHANGED <<ret, splash, dlls, dlls_fully_loaded, thread_id, thread_joinable, name_buffer>>
    /\ UNCHANGED <<start_mutex, exit_mutex, thread, screen, queue, sent, appVars>>

\* Mutant: do not wait for the start notification.
WaitStartSkipped ==
    /\ boot = "wait_start"
    /\ start_mutex' = "free" /\ boot' = "extract"
    /\ UNCHANGED <<ret, splash, dlls, dlls_fully_loaded, thread_id, thread_joinable, name_buffer>>
    /\ UNCHANGED <<context_mutex, exit_mutex, thread, screen, queue, sent, appVars>>

\* Tcl_ConditionWait releases the mutex and blocks in one step ...
WaitStart ==
    /\ boot = "wait_start"
    /\ start_mutex' = "free" /\ boot' = "waiting_start"
    /\ UNCHANGED <<ret, splash, dlls, dlls_fully_loaded, thread_id, thread_joinable, name_buffer>>
    /\ UNCHANGED <<context_mutex, exit_mutex, thread, screen, queue, sent, appVars>>

\* ... and, once notified, takes it again, to release it at once.
Started ==
    /\ boot = "wake_start" /\ start_mutex = "free"
    /\ boot' = "extract"
    /\ UNCHANGED <<ret, splash, dlls, dlls_fully_loaded, thread_id, thread_joinable, name_buffer>>
    /\ UNCHANGED <<thread, mutexes, screen, queue, sent, appVars>>

-----------------------------------------------------------------------------
(* While the screen is up: pyi_launch_extract_files_from_archive, and the  *)
(* application itself.                                                     *)

\* Mutant: TCL_QUEUE_HEAD for TCL_QUEUE_TAIL.
QueueEventAtHead(event) ==
    queue' = IF thread \in {"absent", "notify_exit", "returning", "ended"}
             THEN queue ELSE <<event>> \o queue

\* Tcl_ThreadQueueEvent drops an event for a thread that it does not know.
QueueEvent(event) ==
    queue' = IF thread \in {"absent", "notify_exit", "returning", "ended"}
             THEN queue ELSE Append(queue, event)

\* Mutant: the loop does not stop at the end of the table.
ExtractEntryForever ==
    /\ boot = "extract"
    /\ sent' = sent + 1
    /\ IF splash THEN QueueEvent(sent + 1) ELSE UNCHANGED queue
    /\ UNCHANGED <<boot, ret, splash, dlls, dlls_fully_loaded, thread_id,
                   thread_joinable, name_buffer>>
    /\ UNCHANGED <<thread, mutexes, screen, appVars>>

\* The name of a dependency is split into the buffer of the loop, and the
\* text that is sent is a pointer to it.
ExtractEntry ==
    /\ boot = "extract" /\ sent < NumEntries
    /\ name_buffer' = IF sent + 1 \in Dependencies THEN sent + 1 ELSE name_buffer
    /\ sent' = sent + 1
    /\ IF splash THEN QueueEvent(sent + 1) ELSE UNCHANGED queue
    /\ UNCHANGED <<boot, ret, splash, dlls, dlls_fully_loaded, thread_id, thread_joinable>>
    /\ UNCHANGED <<thread, mutexes, screen, appVars>>

\* An entry cannot be extracted: main returns, which ends the process with
\* whatever runs in it.
ExtractionFails ==
    /\ boot = "extract" /\ NumEntries > 0
    /\ boot' = "failed"
    /\ thread' = IF thread = "absent" THEN "absent" ELSE "ended"
    /\ UNCHANGED <<ret, splash, dlls, dlls_fully_loaded, thread_id, thread_joinable, name_buffer>>
    /\ UNCHANGED <<mutexes, screen, queue, sent, appVars>>

ExtractionDone ==
    /\ boot = "extract" /\ sent = NumEntries
    /\ name_buffer' = Garbage /\ boot' = "app"
    /\ UNCHANGED <<ret, splash, dlls, dlls_fully_loaded, thread_id, thread_joinable>>
    /\ UNCHANGED <<thread, mutexes, screen, queue, sent, appVars>>

\* The application imports pyi_splash: it connects if the port is known and
\* the server is alive.
AppConnects ==
    /\ boot = "app" /\ client = "off" /\ ipc /\ interp
    /\ client' = "connected"
    /\ UNCHANGED <<mainVars, thread, mutexes, screen, queue, sent, sock>>

AppUpdatesText ==
    /\ boot = "app" /\ client = "connected" /\ sent < MaxText
    /\ sent' = sent + 1 /\ sock' = Append(sock, sent + 1)
    /\ UNCHANGED <<mainVars, thread, mutexes, screen, queue, client>>

AppCloses ==
    /\ boot = "app" /\ client = "connected"
    /\ client' = "closed" /\ sock' = Append(sock, EndOfFile)
    /\ UNCHANGED <<mainVars, thread, mutexes, screen, queue, sent>>

\* The application ends; its end closes the connection.
AppExits ==
    /\ boot = "app"
    /\ boot' = "finalize" /\ ret' = "wipe"
    /\ client' = "closed"
    /\ sock' = IF client = "connected" THEN Append(sock, EndOfFile) ELSE sock
    /\ UNCHANGED <<splash, dlls, dlls_fully_loaded, thread_id, thread_joinable, name_buffer>>
    /\ UNCHANGED <<thread, mutexes, screen, queue, sent>>

-----------------------------------------------------------------------------
(* pyi_splash_finalize.                                                    *)

Return == /\ boot' = ret
          /\ ret' = IF ret = "finalize" THEN "free" ELSE ret

\* Nothing to finalize, or only libraries that were loaded in vain.
FinalizePartial ==
    /\ boot = "finalize" /\ (splash => ~dlls_fully_loaded)
    /\ dlls' = IF splash THEN {} ELSE dlls
    /\ Return
    /\ UNCHANGED <<splash, dlls_fully_loaded, thread_id, thread_joinable, name_buffer>>
    /\ UNCHANGED <<thread, mutexes, screen, queue, sent, appVars>>

Finalize ==
    /\ boot = "finalize" /\ splash /\ dlls_fully_loaded
    /\ boot' = "lock_exit"
    /\ UNCHANGED <<ret, splash, dlls, dlls_fully_loaded, thread_id, thread_joinable, name_buffer>>
    /\ UNCHANGED <<thread, mutexes, screen, queue, sent, appVars>>

\* With the mutex taken: a live interpreter must be told to stop; otherwise
\* the mutex is released at once.
LockExit ==
    /\ boot = "lock_exit" /\ exit_mutex = "free"
    /\ IF interp THEN exit_mutex' = "main" /\ boot' = "signal_exit"
                 ELSE exit_mutex' = "free" /\ boot' = "join"
    /\ UNCHANGED <<ret, splash, dlls, dlls_fully_loaded, thread_id, thread_joinable, name_buffer>>
    /\ UNCHANGED <<context_mutex, start_mutex, thread, screen, queue, sent, appVars>>

SignalExit ==
    /\ boot = "signal_exit"
    /\ exit_main_loop' = TRUE /\ boot' = "post_exit"
    /\ UNCHANGED <<ret, splash, dlls, dlls_fully_loaded, thread_id, thread_joinable, name_buffer>>
    /\ UNCHANGED <<interp, windows, ipc, status_text, thread, mutexes, queue, sent, appVars>>

\* Mutant: no event is posted to unblock Tcl_DoOneEvent.
PostExitForgotten ==
    /\ boot = "post_exit" /\ boot' = "wait_exit"
    /\ UNCHANGED <<ret, splash, dlls, dlls_fully_loaded, thread_id, thread_joinable, name_buffer>>
    /\ UNCHANGED <<thread, mutexes, screen, queue, sent, appVars>>

PostExit ==
    /\ boot = "post_exit"
    /\ QueueEvent(WakeUp) /\ boot' = "wait_exit"
    /\ UNCHANGED <<ret, splash, dlls, dlls_fully_loaded, thread_id, thread_joinable, name_buffer>>
    /\ UNCHANGED <<thread, mutexes, screen, sent, appVars>>

WaitExit ==
    /\ boot = "wait_exit"
    /\ exit_mutex' = "free" /\ boot' = "waiting_exit"
    /\ UNCHANGED <<ret, splash, dlls, dlls_fully_loaded, thread_id, thread_joinable, name_buffer>>
    /\ UNCHANGED <<context_mutex, start_mutex, thread, screen, queue, sent, appVars>>

ExitNotified ==
    /\ boot = "wake_exit" /\ exit_mutex = "free"
    /\ boot' = "join"
    /\ UNCHANGED <<ret, splash, dlls, dlls_fully_loaded, thread_id, thread_joinable, name_buffer>>
    /\ UNCHANGED <<thread, mutexes, screen, queue, sent, appVars>>

\* Mutant: the thread is not joined.
JoinThreadSkipped ==
    /\ boot = "join" /\ boot' = "tcl_finalize"
    /\ UNCHANGED <<ret, splash, dlls, dlls_fully_loaded, thread_id, thread_joinable, name_buffer>>
    /\ UNCHANGED <<thread, mutexes, screen, queue, sent, appVars>>

JoinThread ==
    /\ boot = "join"
    /\ (thread_joinable /\ thread_id) => thread = "ended"
    /\ boot' = "tcl_finalize"
    /\ UNCHANGED <<ret, splash, dlls, dlls_fully_loaded, thread_id, thread_joinable, name_buffer>>
    /\ UNCHANGED <<thread, mutexes, screen, queue, sent, appVars>>

\* The mutexes are finalized, then Tcl itself.
TclFinalize ==
    /\ boot = "tcl_finalize"
    /\ boot' = "unload_tk"
    /\ UNCHANGED <<ret, splash, dlls, dlls_fully_loaded, thread_id, thread_joinable, name_buffer>>
    /\ UNCHANGED <<thread, mutexes, screen, queue, sent, appVars>>

\* Mutant: Tk is not unloaded.
UnloadTkForgotten ==
    /\ boot = "unload_tk" /\ boot' = "unload_tcl"
    /\ UNCHANGED <<ret, splash, dlls, dlls_fully_loaded, thread_id, thread_joinable, name_buffer>>
    /\ UNCHANGED <<thread, mutexes, screen, queue, sent, appVars>>

UnloadTk ==
    /\ boot = "unload_tk"
    /\ dlls' = dlls \ {"tk"} /\ boot' = "unload_tcl"
    /\ UNCHANGED <<ret, splash, dlls_fully_loaded, thread_id, thread_joinable, name_buffer>>
    /\ UNCHANGED <<thread, mutexes, screen, queue, sent, appVars>>

UnloadTcl ==
    /\ boot = "unload_tcl"
    /\ dlls' = dlls \ {"tcl"} /\ Return
    /\ UNCHANGED <<splash, dlls_fully_loaded, thread_id, thread_joinable, name_buffer>>
    /\ UNCHANGED <<thread, mutexes, screen, queue, sent, appVars>>

\* pyi_splash_context_free after a failed setup: go on without a screen.
FreeContext ==
    /\ boot = "free"
    /\ splash' = FALSE /\ boot' = "extract"
    /\ UNCHANGED <<ret, dlls, dlls_fully_loaded, thread_id, thread_joinable, name_buffer>>
    /\ UNCHANGED <<thread, mutexes, screen, queue, sent, appVars>>

\* After the application: free the context, remove the temporary directory.
WipeDirectory ==
    /\ boot = "wipe"
    /\ splash' = FALSE /\ boot' = "done"
    /\ UNCHANGED <<ret, dlls, dlls_fully_loaded, thread_id, thread_joinable, name_buffer>>
    /\ UNCHANGED <<thread, mutexes, screen, queue, sent, appVars>>

-----------------------------------------------------------------------------
(* The Tcl thread: _splash_init.                                           *)

TclLockContext ==
    /\ thread = "lock_context" /\ context_mutex = "free"
    /\ context_mutex' = "tcl"
    /\ exit_main_loop' = FALSE /\ interp' = TRUE
    /\ thread' = "init"
    /\ UNCHANGED <<mainVars, start_mutex, exit_mutex, windows, ipc, status_text, queue, sent, appVars>>

\* Create the commands, initialize Tcl, then Tk (which opens the window).
TclInit ==
    /\ thread = "init"
    /\ \/ thread' = "eval" /\ windows' = TRUE
       \/ thread' = "lock_exit" /\ UNCHANGED windows
    /\ UNCHANGED <<mainVars, mutexes, interp, exit_main_loop, ipc, status_text, queue, sent, appVars>>

\* The script opens the server and publishes its port first; an error in the
\* script is only logged.
EvalScript ==
    /\ thread = "eval"
    /\ ipc' \in BOOLEAN
    /\ thread' = "notify_start"
    /\ UNCHANGED <<mainVars, mutexes, interp, exit_main_loop, windows, status_text, queue, sent, appVars>>

\* Lock start_mutex, notify start_cond, unlock start_mutex.
NotifyStart ==
    /\ start_mutex = "free"
    /\ boot' = IF boot = "waiting_start" THEN "wake_start" ELSE boot

NotifyStarted ==
    /\ thread = "notify_start" /\ NotifyStart
    /\ thread' = "loop"
    /\ UNCHANGED <<ret, splash, dlls, dlls_fully_loaded, thread_id, thread_joinable, name_buffer>>
    /\ UNCHANGED <<mutexes, screen, queue, sent, appVars>>

CheckLoop ==
    /\ thread = "loop"
    /\ thread' = IF windows /\ ~exit_main_loop THEN "event" ELSE "lock_exit"
    /\ UNCHANGED <<mainVars, mutexes, screen, queue, sent, appVars>>

\* The text is read through the pointer when the event is serviced.
Deref(event) == IF event \in Dependencies THEN name_buffer ELSE event

\* Tcl_DoOneEvent services the queue before it looks at its channels.
ServiceEvent ==
    /\ thread = "event" /\ queue # <<>>
    /\ queue' = Tail(queue)
    /\ status_text' = IF Head(queue) = WakeUp THEN status_text ELSE Deref(Head(queue))
    /\ thread' = "loop"
    /\ UNCHANGED <<mainVars, mutexes, interp, exit_main_loop, windows, ipc, sent, appVars>>

\* _ipc_caller: a line of the application, or the end of its connection,
\* which calls the `exit` command.
ServiceChannel ==
    /\ thread = "event" /\ queue = <<>> /\ sock # <<>>
    /\ sock' = Tail(sock)
    /\ IF Head(sock) = EndOfFile
       THEN exit_main_loop' = TRUE /\ UNCHANGED status_text
       ELSE status_text' = Head(sock) /\ UNCHANGED exit_main_loop
    /\ thread' = "loop"
    /\ UNCHANGED <<mainVars, mutexes, interp, windows, ipc, queue, sent, client>>

UserClosesWindow ==
    /\ thread = "event"
    /\ windows' = FALSE /\ thread' = "loop"
    /\ UNCHANGED <<mainVars, mutexes, interp, exit_main_loop, ipc, status_text, queue, sent, appVars>>

\* Lock exit_mutex, delete the interpreter, unlock context_mutex.
TclLockExit ==
    /\ thread = "lock_exit" /\ exit_mutex = "free"
    /\ exit_mutex' = "tcl" /\ context_mutex' = "free"
    /\ interp' = FALSE /\ windows' = FALSE
    /\ thread' = "notify_start_again"
    /\ UNCHANGED <<mainVars, start_mutex, exit_main_loop, ipc, status_text, queue, sent, appVars>>

NotifyStartAgain ==
    /\ thread = "notify_start_again" /\ NotifyStart
    /\ thread' = "finalize_thread"
    /\ UNCHANGED <<ret, splash, dlls, dlls_fully_loaded, thread_id, thread_joinable, name_buffer>>
    /\ UNCHANGED <<mutexes, screen, queue, sent, appVars>>

\* Mutant: the exit is notified before Tcl_FinalizeThread.
FinalizeThreadLate ==
    /\ thread = "finalize_thread"
    /\ boot' = IF boot = "waiting_exit" THEN "wake_exit" ELSE boot
    /\ exit_mutex' = "free" /\ thread' = "notify_exit"
    /\ UNCHANGED <<ret, splash, dlls, dlls_fully_loaded, thread_id, thread_joinable, name_buffer>>
    /\ UNCHANGED <<context_mutex, start_mutex, screen, queue, sent, appVars>>

FinalizeThread ==
    /\ thread = "finalize_thread"
    /\ thread' = "notify_exit"
    /\ UNCHANGED <<mainVars, mutexes, screen, queue, sent, appVars>>

\* Notify exit_wait, unlock exit_mutex.
NotifyExit ==
    /\ thread = "notify_exit"
    /\ boot' = IF boot = "waiting_exit" THEN "wake_exit" ELSE boot
    /\ exit_mutex' = "free" /\ thread' = "returning"
    /\ UNCHANGED <<ret, splash, dlls, dlls_fully_loaded, thread_id, thread_joinable, name_buffer>>
    /\ UNCHANGED <<context_mutex, start_mutex, screen, queue, sent, appVars>>

\* Back in the library's thread wrapper, and out of it.
ThreadEnds ==
    /\ thread = "returning"
    /\ thread' = "ended"
    /\ UNCHANGED <<mainVars, mutexes, screen, queue, sent, appVars>>

-----------------------------------------------------------------------------
Main ==
    \/ NoSplash \/ LoadLibraries \/ LockContext \/ CreateThread \/ CreateThreadFails
    \/ LockStart \/ UnlockContext \/ WaitStart \/ Started
    \/ ExtractEntry \/ ExtractionFails \/ ExtractionDone
    \/ FinalizePartial \/ Finalize \/ LockExit \/ SignalExit \/ PostExit
    \/ WaitExit \/ ExitNotified \/ JoinThread \/ TclFinalize
    \/ UnloadTk \/ UnloadTcl \/ FreeContext \/ WipeDirectory

TclThread ==
    \/ TclLockContext \/ TclInit \/ EvalScript \/ NotifyStarted \/ CheckLoop
    \/ ServiceEvent \/ ServiceChannel \/ TclLockExit \/ NotifyStartAgain
    \/ FinalizeThread \/ NotifyExit \/ ThreadEnds

App == AppConnects \/ AppUpdatesText \/ AppCloses \/ AppExits

Terminated == boot \in {"done", "failed"} /\ thread \in {"absent", "ended"} /\ UNCHANGED vars

Next == Main \/ TclThread \/ App \/ UserClosesWindow \/ Terminated

\* Both threads are scheduled; the application ends at some time; nobody has
\* to close the window.
Fairness == WF_vars(Main) /\ WF_vars(TclThread) /\ WF_vars(AppExits)

Spec == Init /\ [][Next]_vars
FairSpec == Spec /\ Fairness

-----------------------------------------------------------------------------
ControlTypes ==
    /\ boot \in BootPCs /\ ret \in {"finalize", "free", "wipe"}
    /\ thread \in ThreadPCs
    /\ context_mutex \in Holders /\ start_mutex \in Holders /\ exit_mutex \in Holders
    /\ splash \in BOOLEAN /\ dlls \in SUBSET Libraries
    /\ dlls_fully_loaded \in BOOLEAN /\ thread_id \in BOOLEAN
    /\ thread_joinable \in BOOLEAN
    /\ interp \in BOOLEAN /\ exit_main_loop \in BOOLEAN /\ windows \in BOOLEAN
    /\ ipc \in BOOLEAN
    /\ client \in {"off", "connected", "closed"}

DataTypes ==
    /\ queue \in Seq(0..MaxText) /\ sock \in Seq(0..MaxText)
    /\ sent \in 0..MaxText /\ name_buffer \in 1..Garbage
    /\ status_text \in 0..Garbage

\* Every variable has its type; in particular no more texts are sent than
\* there are entries and updates of the application.
TypeOK == ControlTypes /\ DataTypes

\* The setup includes the cleanup after a failed start.
SetupPCs == {"load", "start", "create", "lock_start", "unlock_context",
             "wait_start", "waiting_start", "wake_start", "free"}

\* No thread calls into a Tcl/Tk library that has been unloaded: the main
\* thread finalizes only what it loaded, and does not unload the libraries
\* before the Tcl thread is past its last call but the return from the
\* library's thread wrapper (pyi_splash_finalize against _splash_init).
NoCallIntoUnloadedTcl ==
    /\ boot \in MainTclCalls => dlls = Libraries
    /\ (boot = "extract" /\ splash) => dlls = Libraries
    /\ thread \notin {"absent", "returning", "ended"} => dlls = Libraries

\* The same, where the thread was created, or nothing was finalized yet.
CallsOnlyLoadedTcl ==
    (thread # "absent" \/ boot \in SetupPCs) => NoCallIntoUnloadedTcl

\* Where the thread can be joined, it has even ended before anything is
\* unloaded: this is what the join in pyi_splash_finalize is for.
JoinedBeforeUnload ==
    (thread_joinable /\ dlls # Libraries) => thread \in {"absent", "ended"}

\* pyi_splash_start returns only when the script was evaluated, so that
\* _PYI_SPLASH_IPC is in the environment that Python copies, or when the
\* thread gave up: no start notification comes too early.
StartedAfterScript ==
    boot \in {"wake_start", "extract", "app"} =>
        thread \notin {"lock_context", "init", "eval"}

\* A text that was sent while the screen is up is displayed, in the order of
\* the sends, whether it came from the extraction loop or from the
\* application, and it is the name of the entry it was sent for.
\* Nothing follows the event that wakes the thread up for its end, or the end of
\* the connection.
Texts(s) == IF s # <<>> /\ s[Len(s)] \in {WakeUp, EndOfFile}
            THEN SubSeq(s, 1, Len(s) - 1) ELSE s
TextsInOrder ==
    (interp /\ splash) =>
        Texts(queue) \o Texts(sock) = [i \in 1..(sent - status_text) |-> status_text + i]

\* The label displays names of entries and texts of the application, and
\* nothing else: the string that an update event points to is intact when the
\* Tcl thread reads it (pyi_splash_update_text is asynchronous).
DisplaysEntryNames == status_text # Garbage

\* The temporary directory is removed only after both libraries, which are
\* files in it, have been released (pyi_main_onefile_parent_cleanup).
ReleasedBeforeWipe == boot \in {"wipe", "done"} => dlls = {}

\* The main thread never blocks for good on the Tcl thread: no lost start or
\* exit notification, no event loop that sleeps through exit_main_loop.
EventuallyDone == <>(boot \in {"done", "failed"})
-----------------------------------------------------------------------------
(* What the screen promises (SplashPromise), and where it is seen here.    *)

phase ==
    IF boot = "done" THEN "over"
    ELSE IF boot = "failed" THEN "failed"
    ELSE IF boot \in SetupPCs \/ (ret # "wipe" /\ boot \notin {"extract", "app"})
         THEN "setup" ELSE "running"

screen_state ==
    IF windows /\ thread # "ended" THEN "up"
    ELSE IF thread \in {"absent", "lock_context", "init"} THEN "none" ELSE "gone"

Promise == INSTANCE SplashPromise WITH screen <- screen_state, shown <- status_text

\* The two threads, with all their locking, do what the promise says: one
\* screen, at most once, that displays the texts in the order in which they
\* are sent, that is gone when the program is over, and that never keeps the
\* program from running.
ImplementsPromise == Promise!Spec
=============================================================================
