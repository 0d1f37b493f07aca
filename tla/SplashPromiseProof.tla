-------------------------- MODULE SplashPromiseProof --------------------------
(***************************************************************************)
(* Proofs about Splash, continued: the texts that are on their way to the  *)
(* screen are those that were sent, in order; and the two threads, the     *)
(* event queue and the connection together implement SplashPromise.        *)
(*                                                                         *)
(* Both hold for an archive without references to other archives: the text *)
(* of such a reference is read from a buffer that is reused.               *)
(***************************************************************************)
EXTENDS SplashProof, SequenceTheorems

-----------------------------------------------------------------------------
(* The screen and the Tcl thread.                                          *)

\* The window is open only where the thread's control flow has one, and the
\* event loop runs only while it is open.
WindowInv ==
    boot # "failed" =>
        /\ windows => thread \in {"eval"} \cup Running
        /\ thread = "event" => windows

\* The directory is removed only after the screen was finalized for good.
ReturnInv == boot = "wipe" => ret = "wipe"

LEMMA ReturnStep == ASSUME ReturnInv, [Next]_vars PROVE ReturnInv'
<1> USE DEF ReturnInv, mainVars
<1>1. CASE FinalizePartial \/ UnloadTcl
  BY <1>1 DEF FinalizePartial, UnloadTcl, Return
<1>2. CASE Main /\ ~(FinalizePartial \/ UnloadTcl)
  BY <1>2 DEF Main, NoSplash, LoadLibraries, LockContext, CreateThread, CreateThreadFails,
     LockStart, UnlockContext, WaitStart, Started, ExtractEntry, ExtractionFails,
     ExtractionDone, Finalize, LockExit, SignalExit, PostExit, WaitExit, ExitNotified,
     JoinThread, TclFinalize, UnloadTk, FreeContext, WipeDirectory
<1>3. CASE TclThread
  BY <1>3 DEF TclThread, TclLockContext, TclInit, EvalScript, NotifyStarted, NotifyStart,
     CheckLoop, ServiceEvent, ServiceChannel, TclLockExit, NotifyStartAgain, FinalizeThread,
     NotifyExit, ThreadEnds
<1>4. CASE App \/ UserClosesWindow \/ Terminated \/ UNCHANGED vars
  BY <1>4 DEF App, AppConnects, AppUpdatesText, AppCloses, AppExits, UserClosesWindow,
     Terminated, vars
<1>5. QED
  BY <1>1, <1>2, <1>3, <1>4 DEF Next

LEMMA WindowInit == ASSUME Init PROVE WindowInv
BY DEF Init, WindowInv

LEMMA WindowStep == ASSUME Inv, WindowInv, [Next]_vars PROVE WindowInv'
<1> USE DEF WindowInv, Running, mainVars, mutexes, screen, appVars
<1>1. CASE ExtractionFails
  BY <1>1 DEF ExtractionFails
<1>2. CASE CreateThread
  BY <1>2 DEF CreateThread, Inv, ControlInv, LoadedInv
<1>3. CASE TclLockContext \/ TclInit \/ EvalScript \/ NotifyStarted \/ CheckLoop
           \/ ServiceEvent \/ ServiceChannel \/ TclLockExit \/ NotifyStartAgain
           \/ FinalizeThread \/ NotifyExit \/ ThreadEnds \/ UserClosesWindow
  BY <1>3 DEF TclLockContext, TclInit, EvalScript, NotifyStarted, NotifyStart, CheckLoop,
     ServiceEvent, ServiceChannel, TclLockExit, NotifyStartAgain, FinalizeThread,
     NotifyExit, ThreadEnds, UserClosesWindow
<1>4. ASSUME UNCHANGED <<thread, windows>>, boot = "failed" => boot' = "failed"
      PROVE  WindowInv'
  BY <1>4
<1>5. ASSUME \/ NoSplash \/ LoadLibraries \/ LockContext \/ CreateThreadFails
             \/ LockStart \/ UnlockContext \/ WaitStart \/ Started
             \/ ExtractEntry \/ ExtractionDone
             \/ FinalizePartial \/ Finalize \/ LockExit \/ SignalExit \/ PostExit
             \/ WaitExit \/ ExitNotified \/ JoinThread \/ TclFinalize
             \/ UnloadTk \/ UnloadTcl \/ FreeContext \/ WipeDirectory
             \/ App \/ Terminated \/ UNCHANGED vars
      PROVE  UNCHANGED <<thread, windows>> /\ (boot = "failed" => boot' = "failed")
  BY <1>5 DEF NoSplash, LoadLibraries, LockContext, CreateThreadFails, LockStart,
     UnlockContext, WaitStart, Started, ExtractEntry, ExtractionDone, FinalizePartial,
     Finalize, LockExit, SignalExit, PostExit, WaitExit, ExitNotified, JoinThread,
     TclFinalize, UnloadTk, UnloadTcl, FreeContext, WipeDirectory, App, AppConnects,
     AppUpdatesText, AppCloses, AppExits, Terminated, vars
<1>6. QED
  BY <1>1, <1>2, <1>3, <1>4, <1>5 DEF Next, Main, TclThread

-----------------------------------------------------------------------------
(* The texts on their way.                                                 *)

\* How many texts a queue or a connection holds: what ends it is none.
TextCount(s) == IF s # <<>> /\ s[Len(s)] = 0 THEN Len(s) - 1 ELSE Len(s)

\* Nothing follows what ends a queue or a connection.
EndsOnce(s) == \A i \in 1..Len(s) : s[i] = 0 => i = Len(s)

Unended(s) == \A i \in 1..Len(s) : s[i] # 0

Setup == {"load", "start", "create", "lock_start", "unlock_context", "wait_start",
          "waiting_start", "wake_start"}

\* Texts are numbered in the order in which they are sent.
Numbered ==
    /\ \A i \in 1..TextCount(queue) : queue[i] = status_text + i
    /\ \A i \in 1..TextCount(sock) : sock[i] = status_text + TextCount(queue) + i
    /\ sent = status_text + TextCount(queue) + TextCount(sock)

\* What ends the queue and the connection is the last that is put there; and the
\* application sends only when the extraction is over.
Ended ==
    /\ EndsOnce(queue) /\ EndsOnce(sock)
    /\ boot \notin {"wait_exit", "waiting_exit"} => Unended(queue)
    /\ boot = "extract" => sock = <<>>
    /\ boot \in {"extract", "app"} /\ client # "closed" => Unended(sock)

TextsInv ==
    /\ boot \in Setup => sent = 0 /\ queue = <<>> /\ sock = <<>> /\ status_text = 0
    /\ (interp /\ splash) => Numbered /\ Ended

\* What is appended to texts.
LEMMA AppendText ==
    ASSUME NEW s \in Seq(0..MaxText), NEW e \in 0..MaxText, Unended(s)
    PROVE  /\ EndsOnce(Append(s, e)) /\ TextCount(s) = Len(s)
           /\ TextCount(Append(s, e)) = IF e = 0 THEN Len(s) ELSE Len(s) + 1
           /\ \A i \in 1..Len(s) : Append(s, e)[i] = s[i]
           /\ Append(s, e)[Len(s) + 1] = e
           /\ e # 0 => Unended(Append(s, e))
<1> DEFINE t == Append(s, e)
<1>1. /\ t # <<>> /\ Len(t) = Len(s) + 1 /\ \A i \in 1..Len(s) : t[i] = s[i]
      /\ t[Len(s) + 1] = e /\ Len(s) \in Nat
  BY SplashAssumption, AppendProperties, LenProperties
<1>2. \A i \in 1..Len(t) : i = Len(s) + 1 \/ i \in 1..Len(s)
  BY <1>1
<1>3. s # <<>> => Len(s) \in 1..Len(s)
  BY <1>1, EmptySeq
<1>4. TextCount(s) = Len(s)
  BY <1>3 DEF TextCount, Unended
<1> HIDE DEF t
<1>5. QED
  BY <1>1, <1>2, <1>4 DEF t, EndsOnce, Unended, TextCount

\* What is taken from texts.
LEMMA TailOfTexts ==
    ASSUME NEW s \in Seq(0..MaxText), s # <<>>, EndsOnce(s)
    PROVE  /\ EndsOnce(Tail(s)) /\ Head(s) = s[1]
           /\ Head(s) # 0 => /\ TextCount(s) \in Nat /\ TextCount(s) >= 1
                             /\ TextCount(Tail(s)) = TextCount(s) - 1
                             /\ \A i \in 1..TextCount(Tail(s)) : Tail(s)[i] = s[i + 1]
           /\ Head(s) = 0 => Tail(s) = <<>> /\ TextCount(s) = 0
           /\ Unended(s) => Unended(Tail(s))
<1> DEFINE t == Tail(s)
<1>1. /\ Len(s) \in Nat \ {0} /\ Len(t) = Len(s) - 1 /\ t \in Seq(0..MaxText)
      /\ \A i \in 1..Len(t) : t[i] = s[i + 1]
  BY HeadTailProperties, EmptySeq
<1>2. Head(s) = s[1]
  OBVIOUS
<1> HIDE DEF t
<1>3. t = <<>> <=> Len(s) = 1
  BY <1>1, EmptySeq
<1>4. EndsOnce(t) /\ (Unended(s) => Unended(t))
  BY <1>1 DEF EndsOnce, Unended
<1>5. ASSUME Head(s) = 0 PROVE t = <<>> /\ TextCount(s) = 0
  BY <1>1, <1>2, <1>3, <1>5 DEF EndsOnce, TextCount
<1>6. ASSUME Head(s) # 0
      PROVE  /\ TextCount(s) \in Nat /\ TextCount(s) >= 1
             /\ TextCount(t) = TextCount(s) - 1
             /\ \A i \in 1..TextCount(t) : t[i] = s[i + 1]
  <2>1. CASE Len(s) = 1
    BY <1>1, <1>2, <1>3, <1>6, <2>1 DEF TextCount
  <2>2. CASE Len(s) > 1
    <3>1. t # <<>> /\ t[Len(t)] = s[Len(s)]
      BY <1>1, <1>3, <2>2
    <3>2. QED
      BY <1>1, <2>2, <3>1 DEF TextCount
  <2>3. QED
    BY <1>1, <2>1, <2>2
<1>7. QED
  BY <1>2, <1>4, <1>5, <1>6 DEF t

LEMMA TextsInit == ASSUME Init PROVE TextsInv
BY DEF Init, TextsInv

\* An event goes to the tail of the queue.
LEMMA QueuedText ==
    ASSUME Inv, interp, boot # "failed", NEW event \in 0..MaxText, QueueEvent(event)
    PROVE  queue' = Append(queue, event)
BY DEF QueueEvent, Inv, ControlInv, MutexInv, Interpreting, Running

\* Every step keeps the texts in order.
LEMMA TextsStep ==
    ASSUME Inv, TextsInv, Dependencies = {}, [Next]_vars
    PROVE  TextsInv'
<1> USE SplashAssumption DEF mainVars, mutexes, screen, appVars, WakeUp, EndOfFile
<1> DEFINE Live == interp /\ splash
<1>1. TypeOK /\ queue \in Seq(0..MaxText) /\ sock \in Seq(0..MaxText)
      /\ sent \in 0..MaxText /\ status_text \in Nat
  BY DEF Inv, TypeOK, DataTypes, MaxText, Garbage
<1>2. (Live /\ boot # "failed") => thread \in Interpreting /\ boot \in
         {"extract", "app", "finalize", "signal_exit", "post_exit", "wait_exit", "waiting_exit",
          "lock_exit"} \cup Setup
  BY DEF Inv, ControlInv, MutexInv, HandshakeInv, LoadedInv, TypeOK, ControlTypes, BootPCs,
     Setup, Interpreting, Leaving, Left, Running
<1>3. CASE ExtractEntry
  <2>1. ASSUME Live' PROVE Numbered' /\ Ended'
    <3>1. /\ Numbered /\ Unended(queue) /\ sock = <<>> /\ sock' = sock
          /\ sent' = sent + 1 /\ status_text' = status_text
          /\ sent + 1 \in 0..MaxText /\ sent + 1 # 0
      BY <1>1, <1>3, <2>1 DEF ExtractEntry, TextsInv, Ended, MaxText
    <3>2. queue' = Append(queue, sent + 1)
      BY <1>3, <2>1, <3>1, QueuedText DEF ExtractEntry
    <3>3. /\ EndsOnce(queue') /\ Unended(queue') /\ TextCount(queue) = Len(queue)
          /\ TextCount(queue') = Len(queue) + 1
          /\ \A i \in 1..Len(queue) : queue'[i] = queue[i]
          /\ queue'[Len(queue) + 1] = sent + 1
      BY <1>1, <3>1, <3>2, AppendText
    <3>4. TextCount(sock) = 0 /\ Unended(sock) /\ EndsOnce(sock) /\ Len(queue) \in Nat
      BY <1>1, <3>1, EmptySeq DEF TextCount, Unended, EndsOnce
    <3>5. Numbered'
      BY SMTT(30), <1>1, <3>1, <3>3, <3>4 DEF Numbered
    <3>6. QED
      BY <3>1, <3>3, <3>4, <3>5 DEF Ended
  <2>2. QED
    BY <1>3, <2>1 DEF ExtractEntry, TextsInv, Setup
<1>4. CASE PostExit
  <2>1. ASSUME Live' PROVE Numbered' /\ Ended'
    <3>1. /\ Numbered /\ Ended /\ Unended(queue) /\ sock' = sock
          /\ sent' = sent /\ status_text' = status_text /\ boot' = "wait_exit"
      BY <1>4, <2>1 DEF PostExit, TextsInv, Ended
    <3>2. queue' = Append(queue, 0)
      BY <1>1, <1>4, <2>1, <3>1, QueuedText DEF PostExit, MaxText
    <3>3. /\ EndsOnce(queue') /\ TextCount(queue) = Len(queue)
          /\ TextCount(queue') = TextCount(queue)
          /\ \A i \in 1..Len(queue) : queue'[i] = queue[i]
      BY <1>1, <3>1, <3>2, AppendText DEF MaxText
    <3>4. Numbered'
      BY <1>1, <3>1, <3>3 DEF Numbered, TextCount
    <3>5. QED
      BY <3>1, <3>3, <3>4 DEF Ended
  <2>2. QED
    BY <1>4, <2>1 DEF PostExit, TextsInv, Setup
<1>5. CASE AppUpdatesText
  <2>1. ASSUME Live' PROVE Numbered' /\ Ended'
    <3>1. /\ Numbered /\ Ended /\ Unended(sock) /\ queue' = queue
          /\ sent' = sent + 1 /\ status_text' = status_text
          /\ sent + 1 \in 0..MaxText /\ sent + 1 # 0 /\ boot' = "app"
          /\ sock' = Append(sock, sent + 1) /\ boot = "app"
      BY <1>1, <1>5, <2>1 DEF AppUpdatesText, TextsInv, Ended, MaxText
    <3>2. /\ EndsOnce(sock') /\ Unended(sock') /\ TextCount(sock) = Len(sock)
          /\ TextCount(sock') = Len(sock) + 1
          /\ \A i \in 1..Len(sock) : sock'[i] = sock[i]
          /\ sock'[Len(sock) + 1] = sent + 1
      BY <1>1, <3>1, AppendText
    <3>3. Len(queue) \in Nat /\ Len(sock) \in Nat /\ TextCount(queue) = Len(queue)
      BY <1>1, <3>1 DEF TextCount, Ended, Unended
    <3>4. Numbered'
      <4>1. sent = status_text + Len(queue) + Len(sock)
        BY <3>1, <3>2, <3>3 DEF Numbered
      <4>2. \A i \in 1..TextCount(sock') : sock'[i] = status_text + TextCount(queue) + i
        <5>1. TAKE i \in 1..TextCount(sock')
        <5>2. CASE i \in 1..Len(sock)
          BY <3>1, <3>2, <5>2 DEF Numbered
        <5>3. CASE i = Len(sock) + 1
          BY <1>1, <3>2, <3>3, <4>1, <5>3
        <5>4. QED
          BY <3>2, <3>3, <5>2, <5>3
      <4>3. sent' = status_text + TextCount(queue) + TextCount(sock')
        BY <1>1, <3>1, <3>2, <3>3, <4>1
      <4>4. QED
        BY <3>1, <4>2, <4>3 DEF Numbered
    <3>5. QED
      BY <3>1, <3>2, <3>4 DEF Ended
  <2>2. QED
    BY <1>5, <2>1 DEF AppUpdatesText, TextsInv, Setup
<1>6. ASSUME boot = "app", sock' = Append(sock, EndOfFile), client = "connected",
             client' = "closed", boot' \in {"app", "finalize"},
             UNCHANGED <<interp, splash, queue, sent, status_text>>
      PROVE  TextsInv'
  <2>1. ASSUME Live' PROVE Numbered' /\ Ended'
    <3>1. Numbered /\ Ended /\ Unended(sock)
      BY <1>6, <2>1 DEF TextsInv, Ended
    <3>2. /\ EndsOnce(sock') /\ TextCount(sock) = Len(sock)
          /\ TextCount(sock') = TextCount(sock)
          /\ \A i \in 1..Len(sock) : sock'[i] = sock[i]
      BY <1>1, <1>6, <3>1, AppendText DEF MaxText
    <3>3. Numbered'
      BY <1>1, <1>6, <3>1, <3>2 DEF Numbered
    <3>4. QED
      BY <1>6, <3>1, <3>2, <3>3 DEF Ended
  <2>2. QED
    BY <1>6, <2>1 DEF TextsInv, Setup
<1>7. CASE ServiceEvent
  <2>1. ASSUME Live' PROVE Numbered' /\ Ended'
    <3>1. /\ Numbered /\ Ended /\ queue # <<>> /\ queue' = Tail(queue)
          /\ status_text' = IF Head(queue) = 0 THEN status_text ELSE Head(queue)
          /\ UNCHANGED <<boot, sock, sent, client>>
      BY <1>7, <2>1 DEF ServiceEvent, TextsInv, Deref
    <3>2. /\ EndsOnce(queue') /\ Head(queue) = queue[1]
          /\ Head(queue) # 0 => /\ TextCount(queue) \in Nat /\ TextCount(queue) >= 1
                                /\ TextCount(queue') = TextCount(queue) - 1
                                /\ \A i \in 1..TextCount(queue') : queue'[i] = queue[i + 1]
          /\ Head(queue) = 0 => queue' = <<>> /\ TextCount(queue) = 0
          /\ Unended(queue) => Unended(queue')
      BY <1>1, <3>1, TailOfTexts DEF Ended
    <3>3. CASE Head(queue) = 0
      <4>1. TextCount(queue') = 0
        BY <3>2, <3>3, EmptySeq DEF TextCount
      <4>2. Numbered'
        BY <3>1, <3>2, <3>3, <4>1 DEF Numbered
      <4>3. QED
        BY <3>1, <3>2, <4>2 DEF Ended
    <3>4. CASE Head(queue) # 0
      <4>1. status_text' = status_text + 1 /\ TextCount(sock) \in Int
        <5>1. status_text' = status_text + 1
          BY <1>1, <3>1, <3>2, <3>4 DEF Numbered
        <5>2. TextCount(sock) \in Int
          BY <1>1, LenProperties DEF TextCount
        <5>3. QED
          BY <5>1, <5>2
      <4>2. Numbered'
        <5>1. \A i \in 1..TextCount(queue') : queue'[i] = status_text' + i
          <6>1. TAKE i \in 1..TextCount(queue')
          <6>2. queue'[i] = queue[i + 1] /\ i + 1 \in 1..TextCount(queue) /\ i \in Nat
            BY <3>2, <3>4
          <6>3. queue[i + 1] = status_text + (i + 1)
            BY <3>1, <6>2 DEF Numbered
          <6>4. QED
            BY <1>1, <4>1, <6>2, <6>3
        <5>2. \A i \in 1..TextCount(sock) : sock[i] = status_text' + TextCount(queue') + i
          BY <1>1, <3>1, <3>2, <3>4, <4>1 DEF Numbered
        <5>3. sent = status_text' + TextCount(queue') + TextCount(sock)
          BY SMTT(30), <1>1, <3>1, <3>2, <3>4, <4>1 DEF Numbered
        <5>4. QED
          BY <3>1, <5>1, <5>2, <5>3 DEF Numbered
      <4>3. QED
        BY <3>1, <3>2, <4>2 DEF Ended
    <3>5. QED
      BY <3>3, <3>4
  <2>2. boot \in Setup => FALSE
    BY <1>7 DEF ServiceEvent, TextsInv
  <2>3. QED
    BY <1>7, <2>1, <2>2 DEF ServiceEvent, TextsInv
<1>8. CASE ServiceChannel
  <2>1. ASSUME Live' PROVE Numbered' /\ Ended'
    <3>1. /\ Numbered /\ Ended /\ sock # <<>> /\ sock' = Tail(sock) /\ queue = <<>>
          /\ status_text' = IF Head(sock) = 0 THEN status_text ELSE Head(sock)
          /\ UNCHANGED <<boot, queue, sent, client>>
      BY <1>8, <2>1 DEF ServiceChannel, TextsInv
    <3>2. /\ EndsOnce(sock') /\ Head(sock) = sock[1]
          /\ Head(sock) # 0 => /\ TextCount(sock) \in Nat /\ TextCount(sock) >= 1
                               /\ TextCount(sock') = TextCount(sock) - 1
                               /\ \A i \in 1..TextCount(sock') : sock'[i] = sock[i + 1]
          /\ Head(sock) = 0 => sock' = <<>> /\ TextCount(sock) = 0
          /\ Unended(sock) => Unended(sock')
      BY <1>1, <3>1, TailOfTexts DEF Ended
    <3>3. TextCount(queue) = 0
      BY <3>1, EmptySeq DEF TextCount
    <3>4. CASE Head(sock) = 0
      <4>1. TextCount(sock') = 0
        BY <3>2, <3>4, EmptySeq DEF TextCount
      <4>2. Numbered'
        BY <3>1, <3>2, <3>3, <3>4, <4>1 DEF Numbered
      <4>3. QED
        BY <3>1, <3>2, <4>2 DEF Ended
    <3>5. CASE Head(sock) # 0
      <4>1. status_text' = status_text + 1
        BY <1>1, <3>1, <3>2, <3>3, <3>5 DEF Numbered
      <4>2. Numbered'
        <5>1. TextCount(queue') = 0
          BY <3>1, <3>3
        <5>2. \A i \in 1..TextCount(sock') :
                 sock'[i] = status_text' + TextCount(queue') + i
          <6>1. TAKE i \in 1..TextCount(sock')
          <6>2. sock'[i] = sock[i + 1] /\ i + 1 \in 1..TextCount(sock) /\ i \in Nat
            BY <3>2, <3>5
          <6>3. sock[i + 1] = status_text + 0 + (i + 1)
            BY <3>1, <3>3, <6>2 DEF Numbered
          <6>4. QED
            BY <1>1, <4>1, <5>1, <6>2, <6>3
        <5>3. sent = status_text' + TextCount(queue') + TextCount(sock')
          BY <1>1, <3>1, <3>2, <3>3, <3>5, <4>1, <5>1 DEF Numbered
        <5>4. \A i \in 1..TextCount(queue') : queue'[i] = status_text' + i
          BY <5>1
        <5>5. QED
          BY <3>1, <5>2, <5>3, <5>4 DEF Numbered
      <4>3. QED
        BY <3>1, <3>2, <4>2 DEF Ended
    <3>6. QED
      BY <3>4, <3>5
  <2>2. boot \in Setup => FALSE
    BY <1>8 DEF ServiceChannel, TextsInv
  <2>3. QED
    BY <1>8, <2>1, <2>2 DEF ServiceChannel, TextsInv
<1>9. CASE TclLockContext
  <2>1. boot \in Setup
    BY <1>9 DEF Inv, ControlInv, HandshakeInv, TclLockContext, AfterLoad, Setup
  <2>2. sent = 0 /\ queue = <<>> /\ sock = <<>> /\ status_text = 0 /\ Len(queue) = 0
    BY <2>1, EmptySeq DEF TextsInv
  <2>3. TextCount(queue) = 0 /\ TextCount(sock) = 0
    BY <2>2 DEF TextCount
  <2>4. Numbered /\ Ended
    BY <2>2, <2>3 DEF Numbered, Ended, EndsOnce, Unended
  <2>5. UNCHANGED <<boot, queue, sock, sent, status_text, client>>
    BY <1>9 DEF TclLockContext
  <2>6. QED
    BY <2>4, <2>5 DEF TextsInv, Numbered, Ended, Setup
<1>10. ASSUME UNCHANGED <<queue, sock, sent, status_text, client>>,
              boot' \in Setup => boot \in Setup,
              Live' => Live,
              Live' => (boot' \notin {"wait_exit", "waiting_exit"} =>
                           boot \notin {"wait_exit", "waiting_exit"}),
              (Live' /\ boot' = "extract") => boot \in {"extract"} \cup Setup,
              (Live' /\ boot' = "app") => boot \in {"extract", "app"}
       PROVE  TextsInv'
  <2>1. TextCount(queue)' = TextCount(queue) /\ TextCount(sock)' = TextCount(sock)
    BY <1>10
  <2>2. ASSUME boot \in Setup PROVE Unended(sock)
    BY <2>2, EmptySeq DEF TextsInv, Unended
  <2>3. ASSUME Live' PROVE Numbered' /\ Ended'
    <3>1. Numbered'
      BY <1>10, <2>1, <2>3 DEF TextsInv, Numbered
    <3>2. Ended'
      BY <1>10, <2>2, <2>3 DEF TextsInv, Ended, Unended, EndsOnce
    <3>3. QED
      BY <3>1, <3>2
  <2>4. QED
    BY <1>10, <2>3 DEF TextsInv
<1>11. ASSUME \/ NoSplash \/ LoadLibraries \/ LockContext \/ CreateThread
              \/ CreateThreadFails \/ LockStart \/ UnlockContext \/ WaitStart \/ Started
              \/ ExtractionFails \/ ExtractionDone
       PROVE  TextsInv'
  BY <1>10, <1>11 DEF NoSplash, LoadLibraries, LockContext, CreateThread, CreateThreadFails,
     LockStart, UnlockContext, WaitStart, Started, ExtractionFails, ExtractionDone, Setup
<1>12. ASSUME \/ FinalizePartial \/ Finalize \/ LockExit \/ SignalExit \/ WaitExit
              \/ ExitNotified \/ JoinThread \/ TclFinalize \/ UnloadTk \/ UnloadTcl
              \/ FreeContext \/ WipeDirectory
       PROVE  TextsInv'
  <2>1. ret \in {"finalize", "free", "wipe"}
    BY <1>1 DEF TypeOK, ControlTypes
  <2>2. QED
    BY <1>2, <1>10, <1>12, <2>1 DEF FinalizePartial, Finalize, LockExit, SignalExit, WaitExit,
       ExitNotified, JoinThread, TclFinalize, UnloadTk, UnloadTcl, Return, FreeContext,
       WipeDirectory, Setup
<1>13. ASSUME \/ TclInit \/ EvalScript \/ NotifyStarted \/ CheckLoop \/ TclLockExit
              \/ NotifyStartAgain \/ FinalizeThread \/ ThreadEnds \/ UserClosesWindow
              \/ Terminated \/ UNCHANGED vars
       PROVE  TextsInv'
  BY <1>10, <1>13 DEF TclInit, EvalScript, NotifyStarted, NotifyStart, CheckLoop, TclLockExit,
     NotifyStartAgain, FinalizeThread, ThreadEnds, UserClosesWindow, Terminated, vars, Setup
<1>14. CASE NotifyExit
  <2>1. ~Live' \/ boot' = "failed"
    BY <1>2, <1>14 DEF NotifyExit, Interpreting, Running
  <2>2. QED
    BY <1>10, <1>14, <2>1 DEF NotifyExit, Setup
<1>15. CASE AppConnects
  <2>1. /\ UNCHANGED <<boot, interp, splash, queue, sock, sent, status_text>>
        /\ client = "off"
    BY <1>15 DEF AppConnects
  <2>2. TextCount(queue)' = TextCount(queue) /\ TextCount(sock)' = TextCount(sock)
    BY <2>1
  <2>3. Numbered => Numbered'
    BY <2>1, <2>2 DEF Numbered
  <2>4. Ended => Ended'
    BY <2>1 DEF Ended, EndsOnce, Unended
  <2>5. QED
    BY <2>1, <2>3, <2>4 DEF TextsInv
<1>16. CASE AppCloses
  BY <1>6, <1>16 DEF AppCloses
<1>17. CASE AppExits
  <2>1. CASE client = "connected"
    BY <1>6, <1>17, <2>1 DEF AppExits
  <2>2. CASE client # "connected"
    <3>1. /\ UNCHANGED <<interp, splash, queue, sock, sent, status_text>>
          /\ boot = "app" /\ boot' = "finalize" /\ client' = "closed"
      BY <1>17, <2>2 DEF AppExits
    <3>2. TextCount(queue)' = TextCount(queue) /\ TextCount(sock)' = TextCount(sock)
      BY <3>1
    <3>3. Numbered => Numbered'
      BY <3>1, <3>2 DEF Numbered
    <3>4. Ended => Ended'
      BY <3>1 DEF Ended, EndsOnce, Unended
    <3>5. QED
      BY <3>1, <3>3, <3>4 DEF TextsInv, Setup
  <2>3. QED
    BY <2>1, <2>2
<1>18. QED
  BY <1>3, <1>4, <1>5, <1>7, <1>8, <1>9, <1>11, <1>12, <1>13, <1>14, <1>15, <1>16, <1>17
     DEF Next, Main, TclThread, App

\* Texts and window, in every reachable state.
LEMMA PromiseInvariance ==
    ASSUME Dependencies = {}
    PROVE  Spec => [](Inv /\ WindowInv /\ ReturnInv /\ TextsInv)
<1>1. Init => Inv /\ WindowInv /\ ReturnInv /\ TextsInv
  <2>1. Init => ReturnInv
    BY DEF Init, ReturnInv
  <2>2. QED
    BY <2>1, InvInit, WindowInit, TextsInit
<1>2. Inv /\ WindowInv /\ ReturnInv /\ TextsInv /\ [Next]_vars
        => (Inv /\ WindowInv /\ ReturnInv /\ TextsInv)'
  BY InvStep, WindowStep, ReturnStep, TextsStep
<1>3. QED
  BY <1>1, <1>2, PTL DEF Spec

\* The texts of a queue or connection, one by one.
LEMMA TextsProperties ==
    ASSUME NEW s \in Seq(0..MaxText)
    PROVE  /\ Texts(s) \in Seq(0..MaxText) /\ Len(Texts(s)) = TextCount(s)
           /\ \A i \in 1..TextCount(s) : Texts(s)[i] = s[i]
<1>1. Len(s) \in Nat /\ (s # <<>> => Len(s) >= 1) /\ \A i \in 1..Len(s) : s[i] \in 0..MaxText
  <2>1. Len(s) \in Nat /\ (s # <<>> => Len(s) >= 1)
    BY EmptySeq
  <2>2. \A i \in 1..Len(s) : s[i] \in 0..MaxText
    BY ElementOfSeq
  <2>3. QED
    BY <2>1, <2>2
<1>2. CASE s # <<>> /\ s[Len(s)] = 0
  <2>1. Texts(s) = SubSeq(s, 1, Len(s) - 1) /\ TextCount(s) = Len(s) - 1
    BY <1>2 DEF Texts, TextCount, WakeUp, EndOfFile
  <2>2. /\ SubSeq(s, 1, Len(s) - 1) \in Seq(0..MaxText)
        /\ Len(SubSeq(s, 1, Len(s) - 1)) = Len(s) - 1
        /\ \A i \in 1..(Len(s) - 1) : SubSeq(s, 1, Len(s) - 1)[i] = s[i]
    <3>1. \A i \in 1..(Len(s) - 1) : s[i] \in 0..MaxText
      BY <1>1
    <3>2. /\ SubSeq(s, 1, Len(s) - 1) \in Seq(0..MaxText)
          /\ Len(SubSeq(s, 1, Len(s) - 1)) = Len(s) - 1
      <4> DEFINE last == Len(s) - 1
      <4>1. last \in Int /\ 1 \in Int /\ last - 1 + 1 = last /\ (1 <= last \/ last = 0)
        <5> DEFINE length == Len(s)
        <5>1. length \in Nat /\ length >= 1
          BY <1>1, <1>2
        <5> HIDE DEF length
        <5>2. /\ length - 1 \in Int /\ length - 1 - 1 + 1 = length - 1
              /\ (1 <= length - 1 \/ length - 1 = 0)
          BY <5>1
        <5>3. QED
          BY <5>2 DEF length
      <4>2. \A i \in 1..last : s[i] \in 0..MaxText
        BY <3>1
      <4> HIDE DEF last
      <4>3. /\ SubSeq(s, 1, last) \in Seq(0..MaxText)
            /\ Len(SubSeq(s, 1, last)) = IF 1 <= last THEN last - 1 + 1 ELSE 0
        BY <4>1, <4>2, SubSeqProperties
      <4>4. QED
        BY <4>1, <4>3 DEF last
    <3>3. \A i \in 1..(Len(s) - 1) : SubSeq(s, 1, Len(s) - 1)[i] = s[i]
      BY <1>1, <1>2
    <3>4. QED
      BY <3>2, <3>3
  <2>3. QED
    BY <2>1, <2>2
<1>3. CASE ~(s # <<>> /\ s[Len(s)] = 0)
  BY <1>1, <1>3 DEF Texts, TextCount, WakeUp, EndOfFile
<1>4. QED
  BY <1>2, <1>3

\* The texts that were sent while the screen is up, in the event queue of the Tcl
\* thread and in the connection of the application, are those that are not on
\* the screen yet, in the order in which they were sent (pyi_splash_update_text,
\* _ipc_caller), for any number of entries and of texts of the application.
THEOREM TextsStayInOrder == ASSUME Dependencies = {} PROVE Spec => []TextsInOrder
<1>1. ASSUME Inv, TextsInv PROVE TextsInOrder
  <2>1. SUFFICES ASSUME interp, splash
                 PROVE  Texts(queue) \o Texts(sock)
                          = [i \in 1..(sent - status_text) |-> status_text + i]
    BY DEF TextsInOrder
  <2> DEFINE q == Texts(queue)
             s == Texts(sock)
             n == sent - status_text
             r == [i \in 1..n |-> status_text + i]
  <2>2. /\ queue \in Seq(0..MaxText) /\ sock \in Seq(0..MaxText)
        /\ sent \in Nat /\ status_text \in Nat /\ MaxText \in Nat /\ sent <= MaxText
    BY <1>1, SplashAssumption DEF Inv, TypeOK, DataTypes, Garbage, MaxText
  <2>3. Numbered
    BY <1>1, <2>1 DEF TextsInv
  <2>4. /\ q \in Seq(0..MaxText) /\ Len(q) = TextCount(queue)
        /\ \A i \in 1..TextCount(queue) : q[i] = queue[i]
    BY <2>2, TextsProperties
  <2>5. /\ s \in Seq(0..MaxText) /\ Len(s) = TextCount(sock)
        /\ \A i \in 1..TextCount(sock) : s[i] = sock[i]
    BY <2>2, TextsProperties
  <2> HIDE DEF q, s, n
  <2>6. Len(q) \in Nat /\ Len(s) \in Nat
    BY <2>4, <2>5
  <2>7. /\ q \o s \in Seq(0..MaxText) /\ Len(q \o s) = Len(q) + Len(s)
        /\ \A i \in 1..(Len(q) + Len(s)) :
              (q \o s)[i] = IF i <= Len(q) THEN q[i] ELSE s[i - Len(q)]
    BY <2>4, <2>5, ConcatProperties
  <2>8. n = Len(q) + Len(s)
    BY <2>2, <2>3, <2>4, <2>5, <2>6 DEF Numbered, n
  <2>9. \A i \in 1..n : (q \o s)[i] = status_text + i
    <3>1. TAKE i \in 1..n
    <3>2. CASE i <= Len(q)
      BY <2>3, <2>4, <2>6, <2>7, <2>8, <3>2 DEF Numbered
    <3>3. CASE i > Len(q)
      <4>1. i - Len(q) \in 1..TextCount(sock)
        BY <2>5, <2>6, <2>8, <3>3
      <4>2. s[i - Len(q)] = status_text + Len(q) + (i - Len(q))
        BY <2>3, <2>4, <2>5, <4>1 DEF Numbered
      <4>3. QED
        BY <2>2, <2>6, <2>7, <2>8, <3>3, <4>2
    <3>4. QED
      BY <2>6, <2>8, <3>2, <3>3
  <2>10. DOMAIN (q \o s) = 1..n /\ q \o s = [i \in DOMAIN (q \o s) |-> (q \o s)[i]]
    BY <2>7, <2>8, LenProperties
  <2>11. q \o s = r
    BY <2>9, <2>10
  <2>12. QED
    BY <2>11 DEF q, s, n
<1>2. QED
  BY <1>1, PromiseInvariance, PTL

-----------------------------------------------------------------------------
(* The promise.                                                            *)

\* What all steps need to know of the state they start from.
Known ==
    /\ TypeOK /\ WindowInv
    /\ thread = "event" => (interp /\ splash)
    /\ (interp /\ splash) => Numbered

LEMMA KnownHolds == ASSUME Inv, WindowInv, TextsInv PROVE Known
BY DEF Inv, ControlInv, MutexInv, LoadedInv, HandshakeInv, Interpreting, Running, Leaving, Left,
   TextsInv, Known, TypeOK, ControlTypes, ThreadPCs

LEMMA PromiseInit == ASSUME Init PROVE Promise!Init
BY DEF Init, Promise!Init, phase, screen_state, SetupPCs

\* A text that is displayed is the next one, and one that was sent.
LEMMA NextText ==
    ASSUME Inv, WindowInv, TextsInv, ServiceEvent \/ ServiceChannel, Dependencies = {},
           status_text' # status_text
    PROVE  status_text' = status_text + 1 /\ status_text < sent
<1>1. /\ queue \in Seq(0..MaxText) /\ sock \in Seq(0..MaxText) /\ status_text \in Nat
      /\ sent \in Nat /\ thread = "event" /\ interp /\ splash
  <2>1. thread = "event"
    BY DEF ServiceEvent, ServiceChannel
  <2>2. Known
    BY KnownHolds
  <2>3. QED
    BY <2>1, <2>2, SplashAssumption DEF Known, TypeOK, DataTypes, Garbage, MaxText
<1>2. Numbered /\ Ended
  BY <1>1 DEF TextsInv
<1>3. CASE ServiceEvent
  <2>1. queue # <<>> /\ Head(queue) # 0 /\ status_text' = Head(queue)
    BY <1>3 DEF ServiceEvent, WakeUp, Deref
  <2>2. /\ Head(queue) = queue[1] /\ TextCount(queue) \in Nat /\ TextCount(queue) >= 1
    BY <1>1, <1>2, <2>1, TailOfTexts DEF Ended
  <2>3. TextCount(sock) \in Nat
    BY <1>1, EmptySeq DEF TextCount
  <2>4. QED
    BY <1>1, <1>2, <2>1, <2>2, <2>3 DEF Numbered
<1>4. CASE ServiceChannel
  <2>1. sock # <<>> /\ Head(sock) # 0 /\ status_text' = Head(sock) /\ queue = <<>>
    BY <1>4 DEF ServiceChannel, EndOfFile
  <2>2. /\ Head(sock) = sock[1] /\ TextCount(sock) \in Nat /\ TextCount(sock) >= 1
    BY <1>1, <1>2, <2>1, TailOfTexts DEF Ended
  <2>3. TextCount(queue) = 0
    BY <2>1, EmptySeq DEF TextCount
  <2>4. QED
    BY <1>1, <1>2, <2>1, <2>2, <2>3 DEF Numbered
<1>5. QED
  BY <1>3, <1>4

\* Every step of the threads, the application and the user is a step of the
\* promise, or one that it does not see.
LEMMA PromiseStep ==
    ASSUME Inv, WindowInv, ReturnInv, TextsInv, Dependencies = {}, [Next]_vars
    PROVE  [Promise!Next]_(Promise!vars)
<1> USE DEF mainVars, mutexes, screen, appVars, phase, screen_state, SetupPCs,
        Promise!vars
<1>1. /\ ret \in {"finalize", "free", "wipe"} /\ boot \in BootPCs /\ thread \in ThreadPCs
      /\ sent \in Nat
  BY SplashAssumption DEF Inv, TypeOK, ControlTypes, DataTypes, MaxText
<1>2. CASE NoSplash
  <2>1. Promise!Run
    BY <1>2 DEF NoSplash, Promise!Run, Inv, ControlInv, LoadedInv
  <2>2. QED
    BY <2>1 DEF Promise!Next
<1>3. CASE Started
  <2>1. Promise!Run
    BY <1>3 DEF Started, Promise!Run
  <2>2. QED
    BY <2>1 DEF Promise!Next
<1>4. CASE FreeContext
  <2>1. Promise!Run
    BY <1>4 DEF FreeContext, Promise!Run
  <2>2. QED
    BY <2>1 DEF Promise!Next
<1>5. CASE ExtractEntry
  <2>1. Promise!Send
    BY <1>5 DEF ExtractEntry, Promise!Send
  <2>2. QED
    BY <2>1 DEF Promise!Next
<1>6. CASE AppUpdatesText
  <2>1. Promise!Send
    BY <1>6 DEF AppUpdatesText, Promise!Send
  <2>2. QED
    BY <2>1 DEF Promise!Next
<1>7. CASE ExtractionFails
  <2>1. thread \notin {"lock_context", "init", "eval"}
    BY <1>7 DEF ExtractionFails, Inv, ControlInv, HandshakeInv, AfterLoad
  <2>2. windows => thread \in Running
    BY <1>7, <2>1 DEF ExtractionFails, WindowInv
  <2>3. Promise!Fail
    BY <1>7, <2>1, <2>2 DEF ExtractionFails, Promise!Fail, Running
  <2>4. QED
    BY <2>3 DEF Promise!Next
<1>8. CASE WipeDirectory
  <2>1. thread \in {"absent"} \cup Left /\ ~windows
    BY <1>8 DEF WipeDirectory, Inv, ControlInv, HandshakeInv, WindowInv, Left, Running
  <2>2. ret = "wipe"
    BY <1>8 DEF WipeDirectory, ReturnInv
  <2>3. Promise!Over
    BY <1>8, <2>1, <2>2 DEF WipeDirectory, Promise!Over
  <2>4. QED
    BY <2>3 DEF Promise!Next
<1>9. CASE TclInit
  <2>1. boot \in SetupPCs \/ boot = "failed"
    BY <1>9 DEF TclInit, Inv, ControlInv, HandshakeInv, AfterLoad
  <2>2. boot # "failed" /\ ~windows
    BY <1>9 DEF TclInit, Inv, ControlInv, WindowInv, Running
  <2>3. Promise!Appear
    BY <1>9, <2>1, <2>2 DEF TclInit, Promise!Appear
  <2>4. QED
    BY <2>3 DEF Promise!Next
<1>10. CASE UserClosesWindow
  <2>1. windows
    BY <1>10 DEF UserClosesWindow, Inv, ControlInv, WindowInv
  <2>2. Promise!Disappear
    BY <1>10, <2>1 DEF UserClosesWindow, Promise!Disappear
  <2>3. QED
    BY <2>2 DEF Promise!Next
<1>11. CASE TclLockExit
  <2>1. CASE windows
    <3>1. Promise!Disappear
      BY <1>11, <2>1 DEF TclLockExit, Promise!Disappear
    <3>2. QED
      BY <3>1 DEF Promise!Next
  <2>2. CASE ~windows
    BY <1>11, <2>2 DEF TclLockExit
  <2>3. QED
    BY <2>1, <2>2
<1>12. CASE ServiceEvent \/ ServiceChannel
  <2>1. /\ UNCHANGED <<boot, ret, windows, sent>> /\ thread = "event" /\ thread' = "loop"
    BY <1>12 DEF ServiceEvent, ServiceChannel
  <2>2. windows
    BY <2>1 DEF WindowInv, Inv, ControlInv
  <2>3. CASE status_text' = status_text
    BY <2>1, <2>2, <2>3
  <2>4. CASE status_text' # status_text
    <3>1. status_text' = status_text + 1 /\ status_text < sent
      BY <1>12, <2>4, NextText
    <3>2. Promise!Display
      BY <2>1, <2>2, <3>1 DEF Promise!Display
    <3>3. QED
      BY <3>2 DEF Promise!Next
  <2>5. QED
    BY <2>3, <2>4
<1>13. CASE CreateThread \/ TclLockContext \/ EvalScript \/ NotifyStarted \/ CheckLoop
            \/ NotifyStartAgain \/ FinalizeThread \/ NotifyExit \/ ThreadEnds
  <2>1. boot # "failed" \/ ThreadEnds
    BY <1>13 DEF CreateThread, TclLockContext, EvalScript, NotifyStarted, CheckLoop,
       NotifyStartAgain, FinalizeThread, NotifyExit, Inv, ControlInv
  <2>2. UNCHANGED <<screen_state, phase, sent, status_text>>
    BY <1>13, <2>1 DEF CreateThread, TclLockContext, EvalScript, NotifyStarted, CheckLoop,
       NotifyStartAgain, FinalizeThread, NotifyExit, ThreadEnds, NotifyStart, WindowInv,
       Inv, ControlInv, LoadedInv, Running
  <2>3. QED
    BY <2>2
<1>14. ASSUME UNCHANGED <<thread, windows, sent, status_text>>, UNCHANGED phase
       PROVE  UNCHANGED Promise!vars
  BY <1>14
<1>15. ASSUME \/ LoadLibraries \/ LockContext \/ CreateThreadFails \/ LockStart
              \/ UnlockContext \/ WaitStart \/ ExtractionDone \/ FinalizePartial
              \/ Finalize \/ LockExit \/ SignalExit \/ PostExit \/ WaitExit
              \/ ExitNotified \/ JoinThread \/ TclFinalize \/ UnloadTk \/ UnloadTcl
              \/ AppConnects \/ AppCloses \/ AppExits \/ Terminated \/ UNCHANGED vars
       PROVE  UNCHANGED Promise!vars
  BY <1>1, <1>14, <1>15 DEF LoadLibraries, LockContext, CreateThreadFails, LockStart,
     UnlockContext, WaitStart, ExtractionDone, FinalizePartial, Finalize, LockExit,
     SignalExit, PostExit, WaitExit, ExitNotified, JoinThread, TclFinalize, UnloadTk,
     UnloadTcl, Return, AppConnects, AppCloses, AppExits, Terminated, vars
<1>16. QED
  BY <1>2, <1>3, <1>4, <1>5, <1>6, <1>7, <1>8, <1>9, <1>10, <1>11, <1>12, <1>13, <1>15
     DEF Next, Main, TclThread, App

\* The bootloader's two threads, with their mutexes, notifications and queue,
\* keep the promise of the splash screen, whatever the entries, the texts, the
\* platform and the failures are: it comes up at most once and before the
\* program runs, its texts follow each other in the order in which they were
\* sent, it does not come back, and it is gone when the program is over.
THEOREM KeepsPromise == ASSUME Dependencies = {} PROVE Spec => ImplementsPromise
<1>1. Init => Promise!Init
  BY PromiseInit
<1>2. Inv /\ WindowInv /\ ReturnInv /\ TextsInv /\ [Next]_vars
        => [Promise!Next]_(Promise!vars)
  BY PromiseStep
<1>3. QED
  BY <1>1, <1>2, PromiseInvariance, PTL DEF Spec, Promise!Spec, ImplementsPromise
=============================================================================
