------------------------------- MODULE Child -------------------------------
(***************************************************************************)
(* The onefile parent and its child, from the fork to the end of the       *)
(* parent (pyi_utils_create_child of pyi_utils_posix.c, and its caller     *)
(* _pyi_main_onefile_parent), with the signals that either one is sent,    *)
(* and, in a windowed macOS build, the Apple events that the parent takes  *)
(* from its queue and forwards (pyi_apple_events.c).                       *)
(*                                                                         *)
(* A signal is one that by default ends a process and that can be handled. *)
(* signal() has BSD semantics (wscript defines _DEFAULT_SOURCE): a handler *)
(* stays installed and waitpid is restarted.  AESendMessage either         *)
(* succeeds or does not find the process.                                  *)
(***************************************************************************)
EXTENDS Naturals, Sequences

CONSTANTS
    Modes,            \* how the program was built and started, of Mode
    MaxSignals,       \* bound: signals from outside
    MaxEvents         \* bound: Apple events from the system

Mode == [windowed : BOOLEAN,      \* a windowed macOS build
         argv_emulation : BOOLEAN,
         ignore_signals : BOOLEAN,
         autoreap : BOOLEAN]      \* started with SIGCHLD ignored

ASSUME ChildAssumption ==
    Modes \subseteq Mode /\ MaxSignals \in Nat /\ MaxEvents \in Nat

VARIABLES
    mode,
    parent,           \* where the parent is
    handlers,         \* its dispositions: default or handled
    wait_status,      \* what waitpid and so the function have returned
    caught,           \* signals on their way to the parent
    killed_at,        \* where a signal has ended the parent
    child,            \* state of the child
    exit_status,      \* how the child has ended
    hits,             \* how often each signal has reached the child
    signals,          \* signals sent so far, and which of them to a group
    directory,        \* the temporary directory exists
    queue,            \* the parent's Apple events
    pending_event,    \* the deferred event, as a sequence of length 0 or 1
    pyi_argv,         \* events made into arguments of the child
    delivered,        \* events that the child has been sent
    arrived           \* all events (history)

pvars == <<wait_status, killed_at, directory>>
cvars == <<child, exit_status, hits>>
evars == <<queue, pending_event, pyi_argv, delivered, arrived>>
vars == <<mode, parent, handlers, pvars, caught, cvars, signals, evars>>

Statuses == {"none", "zero", "code", "signal", "failed"}
Over == parent \in {"exited", "killed"}
Alive == child \in {"forked", "running"}

Init ==
    /\ mode \in Modes
    /\ parent = (IF mode.windowed THEN "install" ELSE "fork")
    /\ handlers = "default" /\ wait_status = "none" /\ killed_at = "none"
    /\ caught = {} /\ child = "none" /\ exit_status = "none"
    /\ hits = [s \in 1..MaxSignals |-> 0] /\ signals = <<>>
    /\ directory = TRUE
    /\ queue = <<>> /\ pending_event = <<>> /\ pyi_argv = <<>> /\ delivered = <<>>
    /\ arrived = <<>>

-----------------------------------------------------------------------------
(* Signals.                                                                *)

\* The child dies of a signal, or handles it.  Between fork and exec it has no
\* handlers.
ChildGets(s) ==
    \/ /\ Alive /\ child' = "zombie" /\ exit_status' = "signal"
       /\ hits' = [hits EXCEPT ![s] = @ + 1]
    \/ /\ child = "running" /\ UNCHANGED <<child, exit_status>>
       /\ hits' = [hits EXCEPT ![s] = @ + 1]
    \/ ~Alive /\ UNCHANGED cvars

\* kill(2) with the parent's process id.
SignalParent ==
    /\ Len(signals) < MaxSignals /\ ~Over
    /\ signals' = Append(signals, "parent")
    /\ caught' = caught \cup {Len(signals) + 1}
    /\ UNCHANGED <<mode, parent, handlers, pvars, cvars, evars>>

\* A terminal, or a supervisor, signals the process group.
SignalGroup ==
    /\ Len(signals) < MaxSignals /\ ~Over
    /\ signals' = Append(signals, "group")
    /\ caught' = caught \cup {Len(signals) + 1}
    /\ ChildGets(Len(signals) + 1)
    /\ UNCHANGED <<mode, parent, handlers, pvars, evars>>

\* Mutant: pyi-bootloader-ignore-signals has no effect.
HandleAlways(s) ==
    /\ s \in caught /\ handlers = "handled" /\ ~Over
    /\ caught' = caught \ {s}
    /\ ChildGets(s)
    /\ UNCHANGED <<mode, parent, handlers, pvars, signals, evars>>

\* _ignoring_signal_handler or _signal_handler; the child that the latter
\* signals may be gone already.
Handle(s) ==
    /\ s \in caught /\ handlers = "handled" /\ ~Over
    /\ caught' = caught \ {s}
    /\ IF mode.ignore_signals THEN UNCHANGED cvars ELSE ChildGets(s)
    /\ UNCHANGED <<mode, parent, handlers, pvars, signals, evars>>

DieOf(s) ==
    /\ s \in caught /\ handlers = "default" /\ ~Over
    /\ parent' = "killed" /\ killed_at' = parent
    /\ caught' = {}
    /\ UNCHANGED <<mode, handlers, wait_status, directory, cvars, signals, evars>>

-----------------------------------------------------------------------------
(* The child.                                                              *)

\* execvp, and the program gets as far as to receive events.
StartsUp ==
    /\ child = "forked" /\ child' = "running"
    /\ UNCHANGED <<mode, parent, handlers, pvars, caught, exit_status, hits, signals, evars>>

\* The program ends, or execvp fails.
Exits ==
    /\ Alive /\ child' = "zombie"
    /\ exit_status' \in (IF child = "forked" THEN {"code"} ELSE {"zero", "code", "signal"})
    /\ UNCHANGED <<mode, parent, handlers, pvars, caught, hits, signals, evars>>

-----------------------------------------------------------------------------
(* Apple events.                                                           *)

EventArrives ==
    /\ mode.windowed /\ Len(arrived) < MaxEvents /\ ~Over
    /\ \E kind \in {"open", "reopen"} :
         LET event == [kind |-> kind, n |-> Len(arrived) + 1]
         IN queue' = Append(queue, event) /\ arrived' = Append(arrived, event)
    /\ UNCHANGED <<mode, parent, handlers, pvars, caught, cvars, signals,
                   pending_event, pyi_argv, delivered>>

\* generic_forward_apple_event: an event that does not find its process is kept.
Forward(event) ==
    IF child = "running"
    THEN delivered' = Append(delivered, event) /\ UNCHANGED pending_event
    ELSE pending_event' = <<event>> /\ UNCHANGED delivered

rest == <<mode, handlers, pvars, caught, cvars, signals>>

InstallEventHandlers ==
    /\ parent = "install"
    /\ parent' = IF mode.argv_emulation THEN "emulate" ELSE "fork"
    /\ UNCHANGED <<rest, evars>>

InstallFails ==
    /\ parent = "install"
    /\ parent' = "cleanup" /\ wait_status' = "failed"
    /\ UNCHANGED <<mode, handlers, killed_at, directory, caught, cvars, signals, evars>>

\* pyi_apple_process_events before there is a child: what can be opened goes
\* into the arguments, and a request to reopen is not handled.
Emulate ==
    /\ parent = "emulate" /\ queue # <<>>
    /\ queue' = Tail(queue)
    /\ pyi_argv' = IF Head(queue).kind = "open" THEN Append(pyi_argv, Head(queue))
                   ELSE pyi_argv
    /\ UNCHANGED <<rest, parent, pending_event, delivered, arrived>>

EmulateTimeout ==
    /\ parent = "emulate" /\ queue = <<>>
    /\ parent' = "fork"
    /\ UNCHANGED <<rest, evars>>

\* Mutant: the deferred event is not waited for.
PumpOn ==
    /\ parent = "pump" /\ queue # <<>>
    /\ queue' = Tail(queue) /\ Forward(Head(queue))
    /\ parent' = IF Head(queue).kind = "open" THEN "pump" ELSE "activate"
    /\ UNCHANGED <<rest, pyi_argv, arrived>>

\* The same, while the child runs.
Pump ==
    /\ parent = "pump" /\ pending_event = <<>> /\ queue # <<>>
    /\ queue' = Tail(queue) /\ Forward(Head(queue))
    /\ parent' = IF Head(queue).kind = "open" THEN "pump" ELSE "activate"
    /\ UNCHANGED <<rest, pyi_argv, arrived>>

\* A request to reopen is followed by one to activate; if both are deferred,
\* the second takes the place of the first.
Activate ==
    /\ parent = "activate"
    /\ Forward([kind |-> "activate", n |-> 0])
    /\ parent' = "pump"
    /\ UNCHANGED <<rest, queue, pyi_argv, arrived>>

PumpTimeout ==
    /\ parent = "pump" /\ (pending_event # <<>> \/ queue = <<>>)
    /\ parent' = "wait"
    /\ UNCHANGED <<rest, evars>>

\* Mutant: it is sent until it is received.
ResendUntilReceived ==
    /\ parent = "resend"
    /\ IF child = "running"
       THEN /\ delivered' = delivered \o pending_event /\ pending_event' = <<>>
            /\ parent' = "pump"
       ELSE UNCHANGED <<parent, delivered, pending_event>>
    /\ UNCHANGED <<rest, queue, pyi_argv, arrived>>

\* pyi_apple_send_pending_event.
Resend ==
    /\ parent = "resend"
    /\ IF child = "running"
       THEN /\ delivered' = delivered \o pending_event /\ pending_event' = <<>>
            /\ parent' = "pump"
       ELSE parent' = "wait" /\ UNCHANGED <<delivered, pending_event>>
    /\ UNCHANGED <<rest, queue, pyi_argv, arrived>>

-----------------------------------------------------------------------------
(* pyi_utils_create_child.                                                 *)

Fork ==
    /\ parent = "fork"
    /\ parent' = "forked" /\ child' = "forked"
    /\ UNCHANGED <<mode, handlers, pvars, caught, exit_status, hits, signals, evars>>

ForkFails ==
    /\ parent = "fork"
    /\ parent' = "cleanup" /\ wait_status' = "failed"
    /\ UNCHANGED <<mode, handlers, killed_at, directory, caught, cvars, signals, evars>>

InstallHandlers ==
    /\ parent = "forked"
    /\ handlers' = "handled" /\ parent' = "wait"
    /\ UNCHANGED <<mode, pvars, caught, cvars, signals, evars>>

\* Mutant: a pending event is left pending.
PollNeverResends ==
    /\ parent = "wait" /\ mode.windowed /\ Alive
    /\ parent' = "pump"
    /\ UNCHANGED <<rest, evars>>

\* waitpid with WNOHANG: the child is alive.
Poll ==
    /\ parent = "wait" /\ mode.windowed /\ Alive
    /\ parent' = IF pending_event # <<>> THEN "resend" ELSE "pump"
    /\ UNCHANGED <<rest, evars>>

\* Mutants: the pending event is kept; any return of waitpid is taken for the end
\* of the child.
ReapKeepsEvent ==
    /\ parent = "wait" /\ child = "zombie"
    /\ child' = "reaped" /\ wait_status' = IF mode.autoreap THEN "failed" ELSE exit_status
    /\ parent' = "reset"
    /\ UNCHANGED <<mode, handlers, killed_at, directory, caught, exit_status, hits,
                   signals, evars>>

ReapAtOnce ==
    /\ parent = "wait"
    /\ child' = IF Alive THEN child ELSE "reaped"
    /\ wait_status' = IF mode.autoreap \/ Alive THEN "failed" ELSE exit_status
    /\ pending_event' = <<>> /\ parent' = "reset"
    /\ UNCHANGED <<mode, handlers, killed_at, directory, caught, exit_status, hits,
                   signals, queue, pyi_argv, delivered, arrived>>

\* The child has ended.  If the system has already reaped it, waitpid fails.
Reap ==
    /\ parent = "wait" /\ child = "zombie"
    /\ child' = "reaped"
    /\ wait_status' = IF mode.autoreap THEN "failed" ELSE exit_status
    /\ pending_event' = <<>> /\ parent' = "reset"
    /\ UNCHANGED <<mode, handlers, killed_at, directory, caught, exit_status, hits,
                   signals, queue, pyi_argv, delivered, arrived>>

ResetHandlers ==
    /\ parent = "reset"
    /\ handlers' = "default" /\ parent' = "cleanup"
    /\ UNCHANGED <<mode, pvars, caught, cvars, signals, evars>>

-----------------------------------------------------------------------------
(* The end of _pyi_main_onefile_parent.                                    *)

Cleanup ==
    /\ parent = "cleanup"
    /\ directory' = FALSE /\ parent' = "raise"
    /\ UNCHANGED <<mode, handlers, wait_status, killed_at, caught, cvars, signals, evars>>

\* Mutant: the signal is raised before the clean-up.
ReturnEarly ==
    /\ parent = "raise" \/ (parent = "cleanup" /\ wait_status = "signal")
    /\ parent' = "exited"
    /\ UNCHANGED <<mode, handlers, pvars, caught, cvars, signals, evars>>

\* The child's signal is raised again, or its status returned.
Return ==
    /\ parent = "raise"
    /\ parent' = "exited"
    /\ UNCHANGED <<mode, handlers, pvars, caught, cvars, signals, evars>>

\* Both are gone, or the child goes on alone.
Terminated == Over /\ child # "forked" /\ UNCHANGED vars

ParentStep ==
    \/ InstallEventHandlers \/ InstallFails \/ Emulate \/ EmulateTimeout
    \/ Fork \/ ForkFails \/ InstallHandlers
    \/ Poll \/ Resend \/ Pump \/ Activate \/ PumpTimeout
    \/ Reap \/ ResetHandlers \/ Cleanup \/ Return

Next ==
    \/ ParentStep \/ StartsUp \/ Exits
    \/ SignalParent \/ SignalGroup \/ EventArrives
    \/ \E s \in caught : Handle(s) \/ DieOf(s)
    \/ Terminated

\* Both processes are scheduled; the program need not end.
Fairness == WF_vars(ParentStep) /\ WF_vars(StartsUp)

Spec == Init /\ [][Next]_vars
FairSpec == Spec /\ Fairness

-----------------------------------------------------------------------------
Event == [kind : {"open", "reopen", "activate"}, n : 0..MaxEvents]

\* Types; events are deferred only while there is a child.
TypeOK ==
    /\ mode \in Modes
    /\ parent \in {"install", "emulate", "fork", "forked", "wait", "resend", "pump",
                   "activate", "reset", "cleanup", "raise", "exited", "killed"}
    /\ handlers \in {"default", "handled"} /\ wait_status \in Statuses
    /\ caught \subseteq 1..MaxSignals
    /\ killed_at \in {"none", "install", "emulate", "fork", "forked", "cleanup", "raise"}
    /\ child \in {"none", "forked", "running", "zombie", "reaped"}
    /\ exit_status \in Statuses /\ hits \in [1..MaxSignals -> 0..2]
    /\ signals \in Seq({"parent", "group"}) /\ Len(signals) <= MaxSignals
    /\ directory \in BOOLEAN
    /\ queue \in Seq(Event) /\ Len(pending_event) <= 1
    /\ (parent \in {"install", "emulate", "fork", "reset", "cleanup"}) => pending_event = <<>>

Opens(events) == {events[i] : i \in {j \in DOMAIN events : events[j].kind = "open"}}
Ordered(events) ==
    \A i, j \in DOMAIN events :
        (i < j /\ events[i].kind = "open" /\ events[j].kind = "open") => events[i].n < events[j].n

\* All that the child is asked, or will be.
Asked == pyi_argv \o delivered \o pending_event \o queue

\* The program is asked to open every document once and in order, by its
\* arguments or by events, whenever it gets to receive them: none is lost,
\* doubled or overtaken by the deferring of one that came too early
\* (pyi_apple_process_events, pyi_apple_send_pending_event).  n numbers the
\* events as they arrive.
OpensInOrder ==
    parent \in {"emulate", "fork", "forked", "wait", "resend", "pump", "activate"} =>
        Opens(Asked) = Opens(arrived) /\ Ordered(Asked)

\* The temporary directory is there as long as the child is, unless a signal
\* has ended the parent, which then removes nothing (pyi_utils_create_child
\* returns only when the child has been waited for).
ChildHasDirectory == Alive => directory

\* A parent that has ended has removed the directory before, and has ended as
\* its child has, also if that was by a signal (child_signalled), unless a
\* signal has come before the handlers were there, or after they were reset.
EndsLikeChild ==
    /\ parent = "exited" =>
         /\ ~directory /\ ~Alive
         /\ wait_status = IF mode.autoreap \/ child = "none" THEN "failed" ELSE exit_status
    /\ parent = "killed" =>
         \/ child \in {"none", "reaped"} \/ killed_at = "forked"

\* A supervisor that signals both processes signals the child once if the
\* program was built so (--bootloader-ignore-signals in makespec.py:655-662).
SignalledOnce ==
    mode.ignore_signals =>
        \A s \in DOMAIN signals : hits[s] <= IF signals[s] = "group" THEN 1 ELSE 0

\* When the child has ended, so does the parent, whatever events it has to
\* forward, or to give up, before (the loop in pyi_utils_create_child).
EndsAfterChild == []<>(child \in {"zombie", "reaped"} => Over)

\* While the child runs, no event stays with the parent.
EventsReachChild == []<>(Over \/ (queue = <<>> /\ pending_event = <<>>))
=============================================================================
