------------------------------ MODULE Isolated ------------------------------
(***************************************************************************)
(* PyInstaller.isolated: a Python process (_parent.py) has functions       *)
(* called in a child process (_child.py), over two pipes.  The five lines  *)
(* of a command are one message, since nothing is done between them, and   *)
(* so is the line of an answer, which the death of the child may cut off.  *)
(* Calls are numbered over all contexts; an answer carries the number of   *)
(* its call.  What the functions compute is left out, and so is the no-op  *)
(* mode of a parent that itself is an isolated child.                      *)
(***************************************************************************)
EXTENDS Naturals, Sequences

CONSTANTS
    MaxCalls,         \* bound: calls
    MaxContexts,      \* bound: `with` blocks on the same object
    Deaths,           \* when the child may die: "call", "answer", "idle"
    strict_mode       \* the argument of Python()

ASSUME IsolatedAssumption ==
    /\ MaxCalls \in Nat /\ MaxContexts \in Nat
    /\ Deaths \subseteq {"call", "answer", "idle"}
    /\ strict_mode \in BOOLEAN

VARIABLES
    user,             \* where the code that uses Python() is
    raising,          \* the exception on its way out of the block
    handles,          \* the ends of the pipes that the parent has open
    child,            \* the child process
    command,          \* the call that the child works on
    to_child, to_parent,  \* what is in the pipes
    calls,            \* calls made so far
    returned,         \* the last call that returned, and whose answer it got
    contexts          \* blocks entered so far

parentVars == <<user, raising, handles, calls, returned, contexts>>
pipes == <<to_child, to_parent>>
vars == <<parentVars, child, command, pipes>>

Stop == 0                 \* the blank line
SysPath == MaxCalls + 1   \* the first line
Partial == MaxCalls + 1   \* an answer that was cut off

None == "none"
Errors == {None, "RuntimeError", "SubprocessDiedError", "BrokenPipeError",
           "ValueError", "KeyboardInterrupt"}
Alive == {"starting", "ready", "running", "lingering"}
Gone == {"dead", "reaped"}

Init ==
    /\ user = "outside" /\ raising = None /\ handles = {}
    /\ child = "absent" /\ command = 0 /\ to_child = <<>> /\ to_parent = <<>>
    /\ calls = 0 /\ returned = <<0, 0>> /\ contexts = 0

-----------------------------------------------------------------------------
(* The parent.                                                             *)

\* Mutant: the block gets the pipe of the block before.
EnterReusesPipe ==
    /\ user = "outside" /\ handles = {} /\ contexts < MaxContexts
    /\ contexts' = contexts + 1 /\ handles' = {"read", "write"}
    /\ child' = "starting" /\ command' = 0
    /\ to_child' = <<>> /\ UNCHANGED to_parent
    /\ user' = "entering" /\ raising' = None
    /\ UNCHANGED <<calls, returned>>

\* __enter__: two new pipes and a new child.  An object whose last block
\* leaked its handles is not used again.
Enter ==
    /\ user = "outside" /\ handles = {} /\ contexts < MaxContexts
    /\ contexts' = contexts + 1 /\ handles' = {"read", "write"}
    /\ child' = "starting" /\ command' = 0
    /\ to_child' = <<>> /\ to_parent' = <<>>
    /\ user' = "entering" /\ raising' = None
    /\ UNCHANGED <<calls, returned>>

\* Mutant: a write that is retried although it went through.
SendTwice(message) ==
    child \notin Gone /\ to_child' = to_child \o <<message, message>>

\* _send: the write into the pipe of a dead child raises BrokenPipeError.
Send(message) == child \notin Gone /\ to_child' = Append(to_child, message)
CannotSend == child \in Gone

\* __enter__ sends the search path.  If that fails, there is no block yet, and
\* so nothing calls __exit__.
EnterSend ==
    /\ user = "entering" /\ Send(SysPath)
    /\ user' = "inside"
    /\ UNCHANGED <<raising, handles, child, command, to_parent, calls, returned, contexts>>

EnterSendFails ==
    /\ user = "entering" /\ CannotSend
    /\ user' = "outside" /\ raising' = "BrokenPipeError"
    /\ UNCHANGED <<handles, child, command, pipes, calls, returned, contexts>>

Call ==
    /\ user = "inside" /\ raising = None /\ calls < MaxCalls
    /\ Send(calls + 1)
    /\ calls' = calls + 1 /\ user' = "calling"
    /\ UNCHANGED <<raising, handles, child, command, to_parent, returned, contexts>>

CallFails ==
    /\ user = "inside" /\ raising = None /\ calls < MaxCalls
    /\ CannotSend
    /\ calls' = calls + 1 /\ raising' = "BrokenPipeError"
    /\ UNCHANGED <<user, handles, child, command, pipes, returned, contexts>>

\* The answer: a value, or the traceback of an error in the child.
Receive ==
    /\ user = "calling" /\ to_parent # <<>> /\ Head(to_parent) # Partial
    /\ to_parent' = Tail(to_parent)
    /\ returned' = <<calls, Head(to_parent)>>
    /\ user' = "inside" /\ raising' \in {None, "RuntimeError"}
    /\ UNCHANGED <<handles, child, command, to_child, calls, contexts>>

\* A line that was cut off is short for the decoders, which may show in an
\* EOFError, or as a ValueError, which call() does not handle.
ReceivePartial ==
    /\ user = "calling" /\ to_parent # <<>> /\ Head(to_parent) = Partial
    /\ to_parent' = Tail(to_parent)
    /\ user' = "inside"
    /\ \/ child = "dead" /\ child' = "reaped" /\ raising' = "SubprocessDiedError"
       \/ raising' = "ValueError" /\ UNCHANGED child
    /\ UNCHANGED <<handles, command, to_child, calls, returned, contexts>>

\* The end of file: the error reports the exit code, so the child is reaped.
ReceiveEOF ==
    /\ user = "calling" /\ to_parent = <<>> /\ child = "dead"
    /\ child' = "reaped"
    /\ user' = "inside" /\ raising' = "SubprocessDiedError"
    /\ UNCHANGED <<handles, command, pipes, calls, returned, contexts>>

\* Ctrl+C while an answer is awaited; the answer stays in the pipe.
Interrupt ==
    /\ user = "calling"
    /\ user' = "inside" /\ raising' = "KeyboardInterrupt"
    /\ UNCHANGED <<handles, child, command, pipes, calls, returned, contexts>>

\* The block goes on after the error of a function (a SubprocessDiedError is
\* a RuntimeError too), or ends with an error of its own.
Catch ==
    /\ user = "inside" /\ raising \in {"RuntimeError", "SubprocessDiedError"}
    /\ raising' = None
    /\ UNCHANGED <<user, handles, child, command, pipes, calls, returned, contexts>>

\* Mutant: one of the two handles is forgotten.
CloseForgetsOne(exception) ==
    /\ handles' = handles \ {"write"}
    /\ user' = "outside" /\ raising' = exception
    /\ UNCHANGED <<command, pipes, calls, returned, contexts>>

Close(exception) ==
    /\ handles' = {}
    /\ user' = "outside" /\ raising' = exception
    /\ UNCHANGED <<command, pipes, calls, returned, contexts>>

\* __exit__ after the death of the child: there is nobody to talk to.
ExitAfterDeath ==
    /\ user = "inside" /\ raising = "SubprocessDiedError"
    /\ Close(raising) /\ UNCHANGED child

\* __exit__ with another exception, or none: send the blank line ...
ExitSend ==
    /\ user = "inside" /\ raising # "SubprocessDiedError"
    /\ Send(Stop)
    /\ user' = "exiting"
    /\ UNCHANGED <<raising, handles, child, command, to_parent, calls, returned, contexts>>

\* ... which fails, outside any try block, if the child has died.
ExitSendFails ==
    /\ user = "inside" /\ raising # "SubprocessDiedError" /\ CannotSend
    /\ user' = "outside" /\ raising' = "BrokenPipeError"
    /\ UNCHANGED <<handles, child, command, pipes, calls, returned, contexts>>

\* The child exits within five seconds ...
ExitWait ==
    /\ user = "exiting" /\ child = "dead"
    /\ child' = "reaped" /\ Close(raising)

\* Mutant: wait() without a timeout.
ExitTimeoutNever == FALSE /\ UNCHANGED vars

\* ... or it does not, and is killed.
ExitTimeout ==
    /\ user = "exiting" /\ child # "dead"
    /\ child' = "killed" /\ user' = "killing"
    /\ UNCHANGED <<raising, handles, command, pipes, calls, returned, contexts>>

\* In strict mode the error comes after all clean-up.
AfterKill == Close(IF strict_mode THEN "RuntimeError" ELSE raising)

\* The second wait, which may time out as well.
ExitKilled ==
    /\ user = "killing"
    /\ child = "dead" /\ child' = "reaped"
    /\ AfterKill

ExitGivesUp ==
    /\ user = "killing" /\ child = "killed"
    /\ AfterKill /\ UNCHANGED child

\* The process of the parent is killed, and its handles with it.
ParentDies ==
    /\ user \in {"inside", "calling", "exiting"}
    /\ user' = "gone" /\ handles' = {}
    /\ UNCHANGED <<raising, child, command, pipes, calls, returned, contexts>>

-----------------------------------------------------------------------------
(* The child.                                                              *)

ReadPath ==
    /\ child = "starting" /\ to_child # <<>>
    /\ to_child' = Tail(to_child) /\ child' = "ready"
    /\ UNCHANGED <<parentVars, command, to_parent>>

\* run_next_command: the blank line ends the process, at once or when the
\* threads that the functions left behind allow it, which may be never.
ReadStop ==
    /\ child = "ready" /\ to_child # <<>> /\ Head(to_child) = Stop
    /\ to_child' = Tail(to_child)
    /\ child' \in {"dead", "lingering"}
    /\ UNCHANGED <<parentVars, command, to_parent>>

ReadCommand ==
    /\ child = "ready" /\ to_child # <<>> /\ Head(to_child) # Stop
    /\ to_child' = Tail(to_child)
    /\ child' = "running" /\ command' = Head(to_child)
    /\ UNCHANGED <<parentVars, to_parent>>

\* Mutant: an empty read is taken for "nothing to do yet".
ReadEOFIgnored ==
    /\ child \in {"starting", "ready"} /\ to_child = <<>> /\ handles = {}
    /\ UNCHANGED vars

\* The parent is gone: there is no object in the empty line, an error that
\* nothing handles.
ReadEOF ==
    /\ child \in {"starting", "ready"} /\ to_child = <<>> /\ handles = {}
    /\ child' = "dead"
    /\ UNCHANGED <<parentVars, command, pipes>>

\* The function returns or raises; either way its answer is one line.
Answer ==
    /\ child = "running" /\ handles # {}
    /\ to_parent' = Append(to_parent, command) /\ child' = "ready"
    /\ UNCHANGED <<parentVars, command, to_child>>

AnswerFails ==
    /\ child = "running" /\ handles = {}
    /\ child' = "dead"
    /\ UNCHANGED <<parentVars, command, pipes>>

LastThreadEnds ==
    /\ child = "lingering"
    /\ child' = "dead"
    /\ UNCHANGED <<parentVars, command, pipes>>

KillArrives ==
    /\ child = "killed" /\ user = "killing"
    /\ child' = "dead"
    /\ UNCHANGED <<parentVars, command, pipes>>

\* A crash in the function.
DiesInCall ==
    /\ "call" \in Deaths /\ child = "running"
    /\ child' = "dead"
    /\ UNCHANGED <<parentVars, command, pipes>>

\* ... while a long answer is being written.
DiesInAnswer ==
    /\ "answer" \in Deaths /\ child = "running" /\ handles # {}
    /\ child' = "dead" /\ to_parent' = Append(to_parent, Partial)
    /\ UNCHANGED <<parentVars, command, to_child>>

\* ... between two calls: Ctrl+C, which the whole group of processes gets, or
\* a thread that a function left behind.
DiesIdle ==
    /\ "idle" \in Deaths /\ child \in {"starting", "ready"}
    /\ child' = "dead"
    /\ UNCHANGED <<parentVars, command, pipes>>

-----------------------------------------------------------------------------
\* Nothing is left to do, unless the object is used again.
Terminated ==
    /\ user \in {"outside", "gone"}
    /\ \/ user = "gone" \/ contexts = MaxContexts \/ handles # {}
    /\ child \notin Alive \/ child = "lingering"
    /\ UNCHANGED vars

Waiting == \/ EnterSend \/ EnterSendFails
           \/ Receive \/ ReceivePartial \/ ReceiveEOF
           \/ ExitWait \/ ExitTimeout \/ ExitKilled \/ ExitGivesUp
Block == \/ Enter \/ Call \/ CallFails \/ Catch
         \/ ExitAfterDeath \/ ExitSend \/ ExitSendFails
Child == \/ ReadPath \/ ReadStop \/ ReadCommand \/ ReadEOF
         \/ Answer \/ AnswerFails \/ KillArrives

Next ==
    \/ Waiting \/ Block \/ Interrupt \/ ParentDies
    \/ Child \/ LastThreadEnds \/ DiesInCall \/ DiesInAnswer \/ DiesIdle
    \/ Terminated

Spec == Init /\ [][Next]_vars

\* Both processes run, and functions return.  A thread that a function left
\* behind need not end.
FairSpec == Spec /\ WF_vars(Waiting) /\ WF_vars(Child)

-----------------------------------------------------------------------------
\* Types; a block of one call has at most three messages under way.
TypeOK ==
    /\ user \in {"outside", "entering", "inside", "calling", "exiting", "killing", "gone"}
    /\ raising \in Errors
    /\ handles \subseteq {"read", "write"}
    /\ child \in {"absent", "killed"} \cup Alive \cup Gone
    /\ command \in 0..MaxCalls
    /\ to_child \in Seq(0..SysPath) /\ Len(to_child) <= 3
    /\ to_parent \in Seq(1..Partial) /\ Len(to_parent) <= 1
    /\ calls \in 0..MaxCalls
    /\ returned \in (0..MaxCalls) \X (0..MaxCalls)
    /\ contexts \in 0..MaxContexts

\* Every way out of the block closes both handles and leaves no process behind,
\* not even a zombie (_parent.py, __exit__) -- whether it ends well, with an
\* error of a function, with the death of the child in a call, with Ctrl+C or
\* with a child that must be killed, and may not react even to that -- except by
\* a write into the pipe of a child that died unnoticed.
LeavesNothing ==
    user = "outside" /\ raising # "BrokenPipeError"
        => handles = {} /\ child \in {"absent", "reaped", "killed"}

\* call() returns the answer to its own command, whatever interrupted calls,
\* crashes and earlier blocks have left behind.
ResultOfCall == returned[1] = returned[2]

\* A function that returns or crashes the child ends its call, and leaving the
\* block ends, whether or not the child wants to exit.
ParentReturns ==
    user \in {"entering", "calling", "exiting", "killing"}
        ~> user \in {"inside", "outside", "gone"}

\* A child does not outlive its parent, unless its own threads keep it.
OrphanEnds == user = "gone" ~> child \notin {"starting", "ready", "running"}
=============================================================================
