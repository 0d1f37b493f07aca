----------------------------- MODULE IsolatedProof -----------------------------
(***************************************************************************)
(* Proofs about Isolated, for any number of blocks and calls and for every *)
(* way in which the child may die: a call gets the answer to its own       *)
(* command, and a block leaves neither handles nor a process behind.       *)
(***************************************************************************)
EXTENDS Isolated, TLAPS

-----------------------------------------------------------------------------
(* The inductive invariant.                                                *)

\* Types, without the bounds on what is under way.
Types ==
    /\ user \in {"outside", "entering", "inside", "calling", "exiting", "killing", "gone"}
    /\ raising \in Errors
    /\ handles \subseteq {"read", "write"}
    /\ child \in {"absent", "killed"} \cup Alive \cup Gone
    /\ command \in 0..MaxCalls
    /\ to_child \in Seq(0..SysPath) /\ to_parent \in Seq(1..Partial)
    /\ calls \in 0..MaxCalls
    /\ returned \in (0..MaxCalls) \X (0..MaxCalls)
    /\ contexts \in 0..MaxContexts

\* What is in the pipes: the path, one call and the blank line at most, in this
\* order; the call is in the one pipe, or with the child, or in the other.
PipeInv ==
    /\ Len(to_child) <= 3 /\ Len(to_parent) <= 1
    /\ child = "starting" =>
         /\ Len(to_parent) = 0
         /\ \A i \in 1..Len(to_child) : to_child[i] = SysPath <=> i = 1
         /\ Len(to_child) = 3 => to_child[3] = Stop
    /\ child = "ready" =>
         /\ \A i \in 1..Len(to_child) : to_child[i] # SysPath
         /\ Len(to_child) + Len(to_parent) <= 2
         /\ Len(to_child) + Len(to_parent) = 2 => to_child[Len(to_child)] = Stop
    /\ child = "running" =>
         /\ command # 0 /\ Len(to_parent) = 0 /\ Len(to_child) <= 1
         /\ \A i \in 1..Len(to_child) : to_child[i] = Stop

\* Before the blank line was sent.
Early == user \in {"entering", "inside", "calling"}

EarlyInv ==
    Early =>
      /\ child \in {"starting", "ready", "running", "dead", "reaped"}
      /\ \A i \in 1..Len(to_child) : to_child[i] # Stop
      /\ child = "starting" => Len(to_child) <= 2
      /\ child = "ready" => Len(to_child) + Len(to_parent) <= 1
      /\ child = "running" => Len(to_child) = 0

\* Where the one call is, which is the last one.
CallInv ==
    /\ returned[1] = returned[2]
    /\ user = "entering" =>
         /\ child \in {"starting", "dead"} /\ raising = None
         /\ Len(to_child) = 0 /\ Len(to_parent) = 0
    /\ (user = "inside" /\ raising \in {None, "RuntimeError", "SubprocessDiedError"}) =>
         /\ child # "running" /\ Len(to_parent) = 0
         /\ child = "starting" => Len(to_child) = 1
         /\ child = "ready" => Len(to_child) = 0
         /\ raising = "SubprocessDiedError" => child = "reaped"
    /\ user \in {"inside", "calling"} /\ child = "starting" => Len(to_child) # 0
    /\ user = "calling" =>
         /\ \A i \in 1..Len(to_parent) : to_parent[i] \in {calls, Partial}
         /\ child = "running" => command = calls
         /\ child = "starting" => Len(to_child) = 2 /\ to_child[2] = calls
         /\ child = "ready" => \A i \in 1..Len(to_child) : to_child[i] = calls

\* Who has the handles.
HandleInv ==
    /\ user \notin {"outside", "gone"} => handles = {"read", "write"}
    /\ (user = "outside" /\ raising # "BrokenPipeError") =>
         handles = {} /\ child \in {"absent", "reaped", "killed"}

Inv == Types /\ PipeInv /\ EarlyInv /\ CallInv /\ HandleInv

-----------------------------------------------------------------------------
\* The numbers of calls, of the path and of an answer that was cut off.
LEMMA Numbering ==
    /\ MaxCalls \in Nat /\ MaxContexts \in Nat
    /\ SysPath = MaxCalls + 1 /\ Partial = MaxCalls + 1 /\ Stop = 0
BY IsolatedAssumption DEF SysPath, Partial, Stop

\* A pipe with one line at most is empty when this line was read.
LEMMA ReadOne ==
    ASSUME NEW S, NEW pipe \in Seq(S), pipe # <<>>, Len(pipe) <= 1
    PROVE  /\ Len(pipe) = 1 /\ Head(pipe) = pipe[1] /\ pipe[1] \in S
           /\ Tail(pipe) \in Seq(S) /\ Len(Tail(pipe)) = 0
<1>1. Len(pipe) \in Nat /\ Len(pipe) # 0
  OBVIOUS
<1>2. Len(pipe) = 1
  <2>1. ASSUME NEW n \in Nat, n # 0, n <= 1 PROVE n = 1
    BY <2>1
  <2>2. QED
    BY <1>1, <2>1
<1>3. Tail(pipe) \in Seq(S) /\ Len(Tail(pipe)) = Len(pipe) - 1
  OBVIOUS
<1>4. QED
  BY <1>2, <1>3

LEMMA InvInit == Init => Inv
<1> SUFFICES ASSUME Init PROVE Inv
  OBVIOUS
<1>1. Types
  BY Numbering DEF Init, Types, Errors, None
<1>2. PipeInv /\ EarlyInv /\ CallInv /\ HandleInv
  BY DEF Init, PipeInv, EarlyInv, Early, CallInv, HandleInv
<1>3. QED
  BY <1>1, <1>2 DEF Inv

\* The steps of the parent.
ParentActions ==
    \/ Enter \/ EnterSend \/ EnterSendFails \/ Call \/ CallFails
    \/ Receive \/ ReceivePartial \/ ReceiveEOF \/ Interrupt \/ Catch
    \/ ExitAfterDeath \/ ExitSend \/ ExitSendFails \/ ExitWait \/ ExitTimeout
    \/ ExitKilled \/ ExitGivesUp \/ ParentDies

LEMMA ParentStep == ASSUME Inv, ParentActions PROVE Inv'
<1> USE Numbering DEF Inv, Types, PipeInv, EarlyInv, Early, CallInv, HandleInv, Errors,
        None, Alive, Gone, parentVars, pipes
<1>0. Len(to_child) \in Nat /\ Len(to_parent) \in Nat
  BY SMTT(30)
<1>1. CASE Enter
  BY <1>1 DEF Enter
<1>2. CASE EnterSend
  BY <1>0, <1>2 DEF EnterSend, Send
<1>3. CASE EnterSendFails
  BY <1>3 DEF EnterSendFails, CannotSend
<1>4. CASE Call
  BY <1>0, <1>4 DEF Call, Send
<1>5. CASE CallFails
  BY <1>5 DEF CallFails, CannotSend
<1>6. CASE Receive
  <2>1. /\ Len(to_parent) = 1 /\ Head(to_parent) = to_parent[1] /\ to_parent[1] \in 0..MaxCalls
        /\ to_parent' = Tail(to_parent) /\ to_parent' \in Seq(1..Partial) /\ Len(to_parent') = 0
    <3>1. to_parent # <<>> /\ Head(to_parent) # Partial /\ to_parent' = Tail(to_parent)
      BY <1>6 DEF Receive
    <3>2. QED
      BY <3>1, ReadOne
  <2>2. Types'
    BY <1>6, <2>1 DEF Receive
  <2>7. /\ child \in {"ready", "dead", "reaped"} /\ UNCHANGED to_child
        /\ child = "ready" => Len(to_child) = 0
    BY <1>0, <1>6, <2>1 DEF Receive
  <2>9. user' = "inside" /\ child' = child
    BY <1>6 DEF Receive
  <2>11. Early
    BY <1>6 DEF Receive
  <2>10. Len(to_parent') = 0
    BY <2>1
  <2>3. PipeInv'
    BY <1>0, <2>7, <2>9, <2>10
  <2>6. EarlyInv'
    BY <1>0, <2>7, <2>9, <2>10, <2>11
  <2>8. HandleInv'
    BY <1>6 DEF Receive
  <2>4. CallInv'
    BY <1>0, <1>6, <2>1 DEF Receive
  <2>5. QED
    BY <2>2, <2>3, <2>4, <2>6, <2>8
<1>7. CASE ReceivePartial
  <2>1. Len(to_parent) = 1 /\ to_parent' \in Seq(1..Partial) /\ Len(to_parent') = 0
    <3>1. to_parent # <<>> /\ to_parent' = Tail(to_parent)
      BY <1>7 DEF ReceivePartial
    <3>2. QED
      BY <3>1, ReadOne
  <2>2. Types'
    BY <1>7, <2>1 DEF ReceivePartial
  <2>7. /\ child \in {"ready", "dead", "reaped"} /\ UNCHANGED to_child
        /\ child = "ready" => Len(to_child) = 0
    BY <1>0, <1>7, <2>1 DEF ReceivePartial
  <2>9. user' = "inside" /\ (child' = child \/ child' = "reaped")
    BY <1>7 DEF ReceivePartial
  <2>6. PipeInv'
    BY <1>0, <2>1, <2>7, <2>9
  <2>10. Len(to_parent') = 0
    BY <2>1
  <2>11. Early
    BY <1>7 DEF ReceivePartial
  <2>3. EarlyInv'
    BY <1>0, <2>7, <2>9, <2>10, <2>11
  <2>8. HandleInv'
    BY <1>7 DEF ReceivePartial
  <2>4. CallInv'
    BY <1>0, <1>7, <2>1 DEF ReceivePartial
  <2>5. QED
    BY <2>2, <2>3, <2>4, <2>6, <2>8
<1>8. CASE ReceiveEOF
  BY <1>8 DEF ReceiveEOF
<1>9. CASE Interrupt
  BY <1>9 DEF Interrupt
<1>10. CASE Catch
  BY <1>10 DEF Catch
<1>11. CASE ExitAfterDeath
  BY <1>11 DEF ExitAfterDeath, Close
<1>12. CASE ExitSend
  <2>1. /\ to_child' \in Seq(0..SysPath) /\ Len(to_child') = Len(to_child) + 1
        /\ to_child'[Len(to_child) + 1] = Stop
        /\ \A i \in 1..Len(to_child) : to_child'[i] = to_child[i]
    BY <1>0, <1>12 DEF ExitSend, Send
  <2>2. Len(to_child) > 0 \/ child # "starting"
    BY <1>12 DEF ExitSend, Send
  <2>3. Types' /\ EarlyInv' /\ CallInv' /\ HandleInv'
    BY <1>12, <2>1 DEF ExitSend, Send
  <2>4. PipeInv'
    BY <1>0, <1>12, <2>1, <2>2, SMTT(30) DEF ExitSend, Send
  <2>5. QED
    BY <2>3, <2>4
<1>13. CASE ExitSendFails
  BY <1>13 DEF ExitSendFails, CannotSend
<1>14. CASE ExitWait
  BY <1>14 DEF ExitWait, Close
<1>15. CASE ExitTimeout
  BY <1>15 DEF ExitTimeout
<1>16. CASE ExitKilled \/ ExitGivesUp
  BY <1>16 DEF ExitKilled, ExitGivesUp, AfterKill, Close
<1>17. CASE ParentDies
  BY <1>17 DEF ParentDies
<1>18. QED
  BY <1>1, <1>2, <1>3, <1>4, <1>5, <1>6, <1>7, <1>8, <1>9, <1>10, <1>11,
     <1>12, <1>13, <1>14, <1>15, <1>16, <1>17 DEF ParentActions

\* The steps of the child.
ChildActions ==
    \/ ReadPath \/ ReadStop \/ ReadCommand \/ ReadEOF \/ Answer \/ AnswerFails
    \/ LastThreadEnds \/ KillArrives \/ DiesInCall \/ DiesInAnswer \/ DiesIdle

LEMMA ChildStep == ASSUME Inv, ChildActions PROVE Inv'
<1> USE Numbering DEF Inv, Types, PipeInv, EarlyInv, Early, CallInv, HandleInv, Errors,
        None, Alive, Gone, parentVars, pipes
<1>0. Len(to_child) \in Nat /\ Len(to_parent) \in Nat
  BY SMTT(30)
<1>1. CASE ReadPath
  BY <1>0, <1>1, SMTT(30) DEF ReadPath
<1>2. CASE ReadStop
  BY <1>0, <1>2, SMTT(30) DEF ReadStop
<1>3. CASE ReadCommand
  <2>1. /\ Len(to_child) > 0 /\ Head(to_child) = to_child[1]
        /\ to_child' = Tail(to_child) /\ to_child' \in Seq(0..SysPath)
        /\ Len(to_child') = Len(to_child) - 1
        /\ \A i \in 1..Len(to_child') : to_child'[i] = to_child[i + 1]
    BY <1>0, <1>3 DEF ReadCommand
  <2>2. command' = to_child[1] /\ command' \in 1..MaxCalls
    BY <1>0, <1>3, <2>1 DEF ReadCommand
  <2>3. Len(to_parent) = 0
    BY <1>0, <1>3, <2>1 DEF ReadCommand
  <2>4. Types' /\ HandleInv'
    BY <1>3, <2>1, <2>2 DEF ReadCommand
  <2>5. PipeInv'
    BY <1>0, <1>3, <2>1, <2>2, <2>3 DEF ReadCommand
  <2>6. EarlyInv'
    BY <1>0, <1>3, <2>1, <2>2, <2>3 DEF ReadCommand
  <2>7. CallInv'
    BY <1>0, <1>3, <2>1, <2>2, <2>3 DEF ReadCommand
  <2>8. QED
    BY <2>4, <2>5, <2>6, <2>7
<1>4. CASE ReadEOF
  BY <1>4 DEF ReadEOF
<1>5. CASE Answer
  BY <1>0, <1>5 DEF Answer
<1>6. CASE AnswerFails
  BY <1>6 DEF AnswerFails
<1>7. CASE LastThreadEnds
  BY <1>7 DEF LastThreadEnds
<1>8. CASE KillArrives
  BY <1>8 DEF KillArrives
<1>9. CASE DiesInCall
  BY <1>9 DEF DiesInCall
<1>10. CASE DiesInAnswer
  BY <1>0, <1>10 DEF DiesInAnswer
<1>11. CASE DiesIdle
  BY <1>11 DEF DiesIdle
<1>12. QED
  BY <1>1, <1>2, <1>3, <1>4, <1>5, <1>6, <1>7, <1>8, <1>9, <1>10, <1>11
     DEF ChildActions

LEMMA InvStep == ASSUME Inv, [Next]_vars PROVE Inv'
<1>1. CASE ParentActions
  BY <1>1, ParentStep
<1>2. CASE ChildActions
  BY <1>2, ChildStep
<1>3. CASE UNCHANGED vars
  BY <1>3 DEF vars, parentVars, pipes, Inv, Types, PipeInv, EarlyInv, Early, CallInv, HandleInv
<1>4. QED
  BY <1>1, <1>2, <1>3 DEF Next, Waiting, Block, Child, Terminated, ParentActions, ChildActions

-----------------------------------------------------------------------------
(* The theorems.                                                           *)

\* The invariant holds in every reachable state.
THEOREM Invariance == Spec => []Inv
<1>1. Init => Inv
  BY InvInit
<1>2. Inv /\ [Next]_vars => Inv'
  BY InvStep
<1>3. QED
  BY <1>1, <1>2, PTL DEF Spec

\* Types, and that no more than three messages are ever on their way to the
\* child, nor more than one to the parent (Python.call waits for each answer).
THEOREM TypeCorrect == Spec => []TypeOK
<1>1. Inv => TypeOK
  BY DEF Inv, Types, PipeInv, TypeOK
<1>2. QED
  BY <1>1, Invariance, PTL

\* Python.call returns the answer to its own command.
THEOREM AnswersMatch == Spec => []ResultOfCall
<1>1. Inv => ResultOfCall
  BY DEF Inv, CallInv, ResultOfCall
<1>2. QED
  BY <1>1, Invariance, PTL

\* Python.__exit__ leaves neither handles nor a process, unless its write fails.
THEOREM BlocksCleanUp == Spec => []LeavesNothing
<1>1. Inv => LeavesNothing
  BY DEF Inv, HandleInv, LeavesNothing
<1>2. QED
  BY <1>1, Invariance, PTL
=============================================================================
