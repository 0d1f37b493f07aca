------------------------------ MODULE ChildProof ------------------------------
(***************************************************************************)
(* Proofs about Child, for any number of signals and Apple events at any   *)
(* times: the temporary directory outlives the child, the parent ends as   *)
(* its child has ended, a child is not signalled more often than the build *)
(* asks for, and it is asked for every document once and in order.         *)
(***************************************************************************)
EXTENDS Child, SequenceTheorems, TLAPS

-----------------------------------------------------------------------------
(* The inductive invariant, in three parts that do not need each other.    *)

Waiting == {"wait", "resend", "pump", "activate"}

\* The child was never there, or it was waited for.
OverInv ==
    \/ child = "none" /\ wait_status = "failed"
    \/ child = "reaped" /\ wait_status = IF mode.autoreap THEN "failed" ELSE exit_status

\* What the parent may rely on in each of its places.
ParentInv ==
    /\ mode \in Modes
    /\ wait_status \in Statuses /\ exit_status \in Statuses
    /\ child \in {"none", "forked", "running", "zombie", "reaped"}
    /\ directory \in BOOLEAN
    /\ killed_at \in {"none", "install", "emulate", "fork", "forked", "cleanup", "raise"}
    /\ \/ /\ parent \in {"install", "emulate", "fork"} /\ handlers = "default"
          /\ child = "none" /\ directory
       \/ /\ parent = "forked" /\ handlers = "default"
          /\ child \in {"forked", "running", "zombie"} /\ directory
       \/ /\ parent \in Waiting /\ handlers = "handled"
          /\ child \in {"forked", "running", "zombie"} /\ directory
       \/ parent = "reset" /\ handlers = "handled" /\ child = "reaped" /\ directory /\ OverInv
       \/ parent = "cleanup" /\ handlers = "default" /\ directory /\ OverInv
       \/ parent \in {"raise", "exited"} /\ handlers = "default" /\ ~directory /\ OverInv
       \/ /\ parent = "killed" /\ handlers = "default"
          /\ child \in {"none", "reaped"} \/ (killed_at = "forked" /\ directory)

\* A signal reaches the child directly, in a group, and by the parent's handler:
\* while it is on its way to the parent, the handler's turn is still to come.
SignalInv ==
    /\ signals \in Seq({"parent", "group"}) /\ Len(signals) <= MaxSignals
    /\ caught \subseteq 1..Len(signals)
    /\ hits \in [1..MaxSignals -> 0..2]
    /\ \A s \in caught : hits[s] <= 1
    /\ \A s \in 1..MaxSignals : s > Len(signals) => hits[s] = 0
    /\ mode.ignore_signals =>
           \A s \in 1..Len(signals) : hits[s] <= IF signals[s] = "group" THEN 1 ELSE 0

\* One event at most is deferred, and only while there is a child.
EventInv ==
    /\ queue \in Seq(Event) /\ arrived \in Seq(Event) /\ Len(pending_event) <= 1
    /\ parent \in {"install", "emulate", "fork", "reset", "cleanup"} => pending_event = <<>>

Inv == ParentInv /\ SignalInv /\ EventInv

LEMMA InvInit == Init => Inv
<1> SUFFICES ASSUME Init PROVE Inv
  OBVIOUS
<1>1. ParentInv
  BY DEF Init, ParentInv, Statuses
<1>2. SignalInv
  <2>1. hits \in [1..MaxSignals -> 0..2]
    BY DEF Init
  <2>2. QED
    BY <2>1, ChildAssumption DEF Init, SignalInv
<1>3. EventInv
  BY DEF Init, EventInv
<1>4. QED
  BY <1>1, <1>2, <1>3 DEF Inv

-----------------------------------------------------------------------------
(* The parent and its child.                                               *)

\* A signal leaves the child as it is, or turns it into a zombie.
LEMMA ChildGetsStep ==
    ASSUME NEW s, ChildGets(s), child \in {"none", "forked", "running", "zombie", "reaped"}
    PROVE  \/ UNCHANGED <<child, exit_status>>
           \/ Alive /\ child' = "zombie" /\ exit_status' = "signal"
BY DEF ChildGets, cvars

LEMMA ParentStepInv == ASSUME ParentInv, [Next]_vars PROVE ParentInv'
<1> USE DEF ParentInv, OverInv, Waiting, Statuses, Alive, rest, pvars, cvars, evars
<1>1. CASE InstallEventHandlers
  BY <1>1 DEF InstallEventHandlers
<1>2. CASE InstallFails
  BY <1>2 DEF InstallFails
<1>3. CASE Emulate
  BY <1>3 DEF Emulate
<1>4. CASE EmulateTimeout
  BY <1>4 DEF EmulateTimeout
<1>5. CASE Fork
  BY <1>5 DEF Fork
<1>6. CASE ForkFails
  BY <1>6 DEF ForkFails
<1>7. CASE InstallHandlers
  BY <1>7 DEF InstallHandlers
<1>8. CASE Poll
  BY <1>8 DEF Poll
<1>9. CASE Resend
  BY <1>9 DEF Resend
<1>10. CASE Pump
  BY <1>10 DEF Pump
<1>11. CASE Activate
  BY <1>11 DEF Activate
<1>12. CASE PumpTimeout
  BY <1>12 DEF PumpTimeout
<1>13. CASE Reap
  BY <1>13 DEF Reap
<1>14. CASE ResetHandlers
  BY <1>14 DEF ResetHandlers
<1>15. CASE Cleanup
  <2>1. directory' \in BOOLEAN
    BY <1>15, Zenon DEF Cleanup
  <2>2. QED
    BY <1>15, <2>1 DEF Cleanup
<1>16. CASE Return
  BY <1>16 DEF Return
<1>17. CASE StartsUp
  BY <1>17 DEF StartsUp
<1>18. CASE Exits
  BY <1>18 DEF Exits
<1>19. CASE SignalParent
  BY <1>19 DEF SignalParent
<1>20. CASE SignalGroup
  <2>1. \/ UNCHANGED <<child, exit_status>>
        \/ Alive /\ child' = "zombie" /\ exit_status' = "signal"
    BY <1>20, ChildGetsStep DEF SignalGroup
  <2>2. QED
    BY <1>20, <2>1 DEF SignalGroup
<1>21. CASE EventArrives
  BY <1>21 DEF EventArrives
<1>22. ASSUME NEW s \in caught, Handle(s) PROVE ParentInv'
  <2>1. \/ UNCHANGED <<child, exit_status>>
        \/ Alive /\ child' = "zombie" /\ exit_status' = "signal"
    BY <1>22, ChildGetsStep DEF Handle
  <2>2. QED
    BY <1>22, <2>1 DEF Handle
<1>23. ASSUME NEW s \in caught, DieOf(s) PROVE ParentInv'
  BY <1>23 DEF DieOf, Over
<1>24. CASE Terminated \/ UNCHANGED vars
  BY <1>24 DEF Terminated, vars
<1>25. QED
  BY <1>1, <1>2, <1>3, <1>4, <1>5, <1>6, <1>7, <1>8, <1>9, <1>10, <1>11, <1>12,
     <1>13, <1>14, <1>15, <1>16, <1>17, <1>18, <1>19, <1>20, <1>21, <1>22,
     <1>23, <1>24 DEF Next, ParentStep

-----------------------------------------------------------------------------
(* Signals.                                                                *)

\* How a signal counts.
LEMMA ChildGetsHits ==
    ASSUME NEW s \in 1..MaxSignals, ChildGets(s)
    PROVE  hits' = hits \/ hits' = [hits EXCEPT ![s] = @ + 1]
BY DEF ChildGets, cvars

LEMMA SignalStepInv == ASSUME SignalInv, [Next]_vars PROVE SignalInv'
<1> USE DEF SignalInv
<1>0. /\ Len(signals) \in Nat /\ MaxSignals \in Nat
      /\ \A s \in caught : s \in 1..Len(signals) /\ s \in 1..MaxSignals
  <2>1. Len(signals) \in Nat /\ MaxSignals \in Nat
    BY ChildAssumption
  <2>2. QED
    BY <2>1
<1>1. CASE SignalParent
  <2>1. /\ signals' \in Seq({"parent", "group"}) /\ Len(signals') = Len(signals) + 1
        /\ Len(signals') <= MaxSignals
    BY <1>1, ChildAssumption DEF SignalParent
  <2>2. caught' = caught \cup {Len(signals) + 1} /\ hits' = hits /\ mode' = mode
    BY <1>1 DEF SignalParent, cvars
  <2>3. caught' \subseteq 1..Len(signals')
    <3>1. \A s \in caught' : s \in 1..Len(signals) + 1
      BY <1>0, <2>2
    <3>2. QED
      BY <2>1, <3>1
  <2>8. hits[Len(signals) + 1] = 0
    BY <1>0, <2>1
  <2>9. \A s \in caught' : hits'[s] <= 1
    BY <2>2, <2>8
  <2>4. \A s \in 1..MaxSignals : s > Len(signals') => hits'[s] = 0
    BY <2>1, <2>2, ChildAssumption
  <2>5. ASSUME mode'.ignore_signals, NEW s \in 1..Len(signals')
        PROVE  hits'[s] <= IF signals'[s] = "group" THEN 1 ELSE 0
    <3>1. CASE s \in 1..Len(signals)
      <4>1. signals'[s] = signals[s]
        BY <1>1, <3>1 DEF SignalParent
      <4>2. QED
        BY <2>2, <2>5, <3>1, <4>1
    <3>2. CASE s = Len(signals) + 1
      BY <2>1, <2>2, <3>2, ChildAssumption
    <3>3. QED
      BY <2>1, <3>1, <3>2
  <2>6. QED
    BY <2>1, <2>2, <2>3, <2>4, <2>5, <2>9
<1>2. CASE SignalGroup
  <2> DEFINE n == Len(signals) + 1
  <2>1. /\ signals' = Append(signals, "group") /\ n \in 1..MaxSignals
        /\ signals' \in Seq({"parent", "group"}) /\ Len(signals') = n
    BY <1>2, ChildAssumption DEF SignalGroup
  <2>2. /\ mode' = mode /\ caught' = caught \cup {n}
        /\ hits' = hits \/ hits' = [hits EXCEPT ![n] = @ + 1]
    BY <1>2, <2>1, ChildGetsHits DEF SignalGroup
  <2>8. hits[n] = 0
    BY <1>0, <2>1
  <2> HIDE DEF n
  <2>3. /\ hits' \in [1..MaxSignals -> 0..2] /\ hits'[n] <= 1
        /\ \A s \in 1..MaxSignals : s # n => hits'[s] = hits[s]
    <3>1. hits[n] + 1 \in 0..2 /\ n \in 1..MaxSignals
      BY <2>1, <2>8
    <3>2. CASE hits' = hits
      BY <2>8, <3>2
    <3>3. CASE hits' = [hits EXCEPT ![n] = @ + 1]
      BY <2>8, <3>1, <3>3
    <3>4. QED
      BY <2>2, <3>2, <3>3
  <2>9. n = Len(signals) + 1 /\ n \in Nat
    BY <1>0 DEF n
  <2>4. /\ caught' \subseteq 1..Len(signals')
        /\ \A s \in caught' : hits'[s] <= 1
    <3>1. \A s \in caught : s # n
      BY <1>0, <2>9
    <3>2. \A s \in caught' : hits'[s] <= 1
      BY <1>0, <2>2, <2>3, <3>1
    <3>3. \A s \in caught' : s \in 1..n
      BY <1>0, <2>2, <2>9
    <3>4. QED
      BY <2>1, <3>2, <3>3
  <2>5. \A s \in 1..MaxSignals : s > Len(signals') => hits'[s] = 0
    BY <1>0, <2>1, <2>3, <2>9
  <2>6. ASSUME mode'.ignore_signals, NEW s \in 1..Len(signals')
        PROVE  hits'[s] <= IF signals'[s] = "group" THEN 1 ELSE 0
    <3>1. CASE s \in 1..Len(signals)
      <4>1. signals'[s] = signals[s] /\ s # n /\ s \in 1..MaxSignals
        BY <1>0, <2>1, <2>9, <3>1
      <4>2. QED
        BY <2>2, <2>3, <2>6, <3>1, <4>1
    <3>2. CASE s = n
      BY <2>1, <2>3, <2>9, <3>2
    <3>3. QED
      BY <1>0, <2>1, <2>9, <3>1, <3>2
  <2>7. QED
    BY <2>1, <2>3, <2>4, <2>5, <2>6
<1>3. ASSUME NEW s \in caught, Handle(s) PROVE SignalInv'
  <2>1. /\ s \in 1..MaxSignals /\ s <= Len(signals) /\ hits[s] <= 1
        /\ signals' = signals /\ mode' = mode /\ caught' = caught \ {s}
    BY <1>3, ChildAssumption DEF Handle
  <2>2. CASE hits' = hits
    BY <2>1, <2>2
  <2>3. CASE ~mode.ignore_signals /\ hits' = [hits EXCEPT ![s] = @ + 1]
    <3>1. /\ hits' \in [1..MaxSignals -> 0..2]
          /\ \A r \in 1..MaxSignals : r # s => hits'[r] = hits[r]
      BY <2>1, <2>3
    <3>2. \A r \in caught' : hits'[r] <= 1
      BY <1>0, <2>1, <3>1
    <3>3. \A r \in 1..MaxSignals : r > Len(signals') => hits'[r] = 0
      BY <2>1, <3>1
    <3>4. QED
      BY <2>1, <2>3, <3>1, <3>2, <3>3
  <2>4. QED
    BY <1>3, <2>1, <2>2, <2>3, ChildGetsHits DEF Handle, cvars
<1>4. ASSUME NEW s \in caught, DieOf(s) PROVE SignalInv'
  BY <1>4 DEF DieOf, cvars
<1>5. ASSUME UNCHANGED <<mode, caught, hits, signals>> PROVE SignalInv'
  BY <1>5
<1>6. CASE \/ ParentStep \/ StartsUp \/ Exits \/ EventArrives \/ Terminated
           \/ UNCHANGED vars
  <2>1. UNCHANGED <<mode, caught, hits, signals>>
    BY <1>6 DEF ParentStep, StartsUp, Exits, EventArrives, Terminated, vars, rest, cvars,
       InstallEventHandlers, InstallFails, Emulate, EmulateTimeout, Fork, ForkFails,
       InstallHandlers, Poll, Resend, Pump, Activate, PumpTimeout, Reap, ResetHandlers,
       Cleanup, Return
  <2>2. QED
    BY <1>5, <2>1
<1>7. QED
  BY <1>1, <1>2, <1>3, <1>4, <1>6 DEF Next

-----------------------------------------------------------------------------
(* Apple events.                                                           *)

LEMMA EventStepInv == ASSUME EventInv, [Next]_vars PROVE EventInv'
<1> USE DEF EventInv, evars, rest
<1>1. CASE EventArrives
  <2> PICK kind \in {"open", "reopen"} :
         LET event == [kind |-> kind, n |-> Len(arrived) + 1]
         IN queue' = Append(queue, event) /\ arrived' = Append(arrived, event)
    BY <1>1 DEF EventArrives
  <2> DEFINE event == [kind |-> kind, n |-> Len(arrived) + 1]
  <2>1. Len(arrived) + 1 \in 0..MaxEvents
    BY <1>1, ChildAssumption DEF EventArrives
  <2>2. event \in Event
    BY <2>1, Zenon DEF Event
  <2> HIDE DEF event
  <2>3. queue' \in Seq(Event) /\ arrived' \in Seq(Event)
    <3>1. queue' = Append(queue, event) /\ arrived' = Append(arrived, event)
      BY DEF event
    <3>2. QED
      BY <2>2, <3>1
  <2>4. QED
    BY <1>1, <2>3 DEF EventArrives
<1>2. CASE Emulate
  BY <1>2 DEF Emulate
<1>3. CASE Pump \/ Activate
  <2>1. arrived' = arrived /\ queue' \in Seq(Event)
    <3>1. CASE Pump
      BY <3>1 DEF Pump
    <3>2. CASE Activate
      BY <3>2 DEF Activate
    <3>3. QED
      BY <1>3, <3>1, <3>2
  <2>2. Len(pending_event') <= 1
    <3>1. ASSUME NEW e, Forward(e) PROVE Len(pending_event') <= 1
      <4>1. pending_event' = pending_event \/ pending_event' = <<e>>
        BY <3>1 DEF Forward
      <4>2. CASE pending_event' = pending_event
        BY <4>2
      <4>3. CASE pending_event' = <<e>>
        BY <4>3
      <4>4. QED
        BY <4>1, <4>2, <4>3
    <3>2. QED
      BY <1>3, <3>1 DEF Pump, Activate
  <2>3. parent' \in {"pump", "activate"}
    BY <1>3 DEF Pump, Activate
  <2>4. QED
    BY <2>1, <2>2, <2>3
<1>4. CASE Resend
  BY <1>4 DEF Resend
<1>5. CASE Reap
  BY <1>5 DEF Reap
<1>6. CASE InstallEventHandlers \/ InstallFails \/ EmulateTimeout \/ Fork \/ ForkFails
  BY <1>6 DEF InstallEventHandlers, InstallFails, EmulateTimeout, Fork, ForkFails
<1>7. CASE InstallHandlers \/ Poll \/ PumpTimeout
  BY <1>7 DEF InstallHandlers, Poll, PumpTimeout
<1>8. CASE ResetHandlers \/ Cleanup \/ Return
  BY <1>8 DEF ResetHandlers, Cleanup, Return
<1>9. CASE StartsUp \/ Exits \/ SignalParent \/ SignalGroup
  BY <1>9 DEF StartsUp, Exits, SignalParent, SignalGroup
<1>10. ASSUME NEW s \in caught, Handle(s) \/ DieOf(s) PROVE EventInv'
  BY <1>10 DEF Handle, DieOf
<1>11. CASE Terminated \/ UNCHANGED vars
  BY <1>11 DEF Terminated, vars
<1>12. QED
  BY <1>1, <1>2, <1>3, <1>4, <1>5, <1>6, <1>7, <1>8, <1>9, <1>10, <1>11
     DEF Next, ParentStep

-----------------------------------------------------------------------------
(* Joined sequences of events.                                             *)

Before(s, t) == \A e \in Opens(s), f \in Opens(t) : e.n < f.n

LEMMA OpensFacts ==
    ASSUME NEW s \in Seq(Event), NEW e
    PROVE  e \in Opens(s) <=> \E i \in 1..Len(s) : s[i] = e /\ s[i].kind = "open"
BY DEF Opens

LEMMA OrderedFacts ==
    ASSUME NEW s \in Seq(Event)
    PROVE  Ordered(s) <=> \A i, j \in 1..Len(s) :
               (i < j /\ s[i].kind = "open" /\ s[j].kind = "open") => s[i].n < s[j].n
BY DEF Ordered

LEMMA Single ==
    ASSUME NEW e \in Event
    PROVE  /\ <<e>> \in Seq(Event) /\ Ordered(<<e>>)
           /\ Opens(<<e>>) = IF e.kind = "open" THEN {e} ELSE {}
<1>1. <<e>> \in Seq(Event) /\ Len(<<e>>) = 1 /\ <<e>>[1] = e
  OBVIOUS
<1>2. Ordered(<<e>>)
  BY <1>1 DEF Ordered
<1>3. Opens(<<e>>) = IF e.kind = "open" THEN {e} ELSE {}
  <2>1. DOMAIN <<e>> = {1}
    OBVIOUS
  <2>2. QED
    BY <1>1, <2>1 DEF Opens
<1>4. QED
  BY <1>1, <1>2, <1>3

LEMMA Nothing == Opens(<<>>) = {} /\ Ordered(<<>>)
BY DEF Opens, Ordered

LEMMA OpensOfJoin ==
    ASSUME NEW s \in Seq(Event), NEW t \in Seq(Event)
    PROVE  Opens(s \o t) = Opens(s) \cup Opens(t)
<1> DEFINE u == s \o t
<1>1. /\ u \in Seq(Event) /\ Len(u) = Len(s) + Len(t) /\ Len(s) \in Nat /\ Len(t) \in Nat
      /\ \A i \in 1..Len(s) : i \in 1..Len(u) /\ u[i] = s[i]
      /\ \A i \in 1..Len(t) : (Len(s) + i) \in 1..Len(u) /\ u[Len(s) + i] = t[i]
      /\ \A i \in 1..Len(u) : i > Len(s) => (i - Len(s)) \in 1..Len(t) /\ u[i] = t[i - Len(s)]
  BY ConcatProperties, LenProperties
<1> HIDE DEF u
<1>2. ASSUME NEW e PROVE e \in Opens(u) <=> e \in Opens(s) \/ e \in Opens(t)
  <2>1. /\ e \in Opens(u) <=> \E i \in 1..Len(u) : u[i] = e /\ u[i].kind = "open"
        /\ e \in Opens(s) <=> \E i \in 1..Len(s) : s[i] = e /\ s[i].kind = "open"
        /\ e \in Opens(t) <=> \E i \in 1..Len(t) : t[i] = e /\ t[i].kind = "open"
    <3>1. DOMAIN u = 1..Len(u) /\ DOMAIN s = 1..Len(s) /\ DOMAIN t = 1..Len(t)
      BY <1>1
    <3>2. QED
      BY <3>1 DEF Opens
  <2>2. ASSUME e \in Opens(u) PROVE e \in Opens(s) \/ e \in Opens(t)
    <3>1. PICK i \in 1..Len(u) : u[i] = e /\ u[i].kind = "open"
      BY <2>1, <2>2
    <3>2. CASE i <= Len(s)
      <4>1. i \in 1..Len(s)
        BY <1>1, <3>2
      <4>2. QED
        BY <1>1, <2>1, <3>1, <4>1
    <3>3. CASE i > Len(s)
      <4>1. (i - Len(s)) \in 1..Len(t) /\ u[i] = t[i - Len(s)]
        BY <1>1, <3>3
      <4>2. QED
        BY <2>1, <3>1, <4>1
    <3>4. QED
      BY <1>1, <3>2, <3>3
  <2>3. ASSUME e \in Opens(s) PROVE e \in Opens(u)
    BY <1>1, <2>1, <2>3
  <2>4. ASSUME e \in Opens(t) PROVE e \in Opens(u)
    BY <1>1, <2>1, <2>4
  <2>5. QED
    BY <2>2, <2>3, <2>4
<1>3. QED
  BY <1>2 DEF u

LEMMA OrderedJoin ==
    ASSUME NEW s \in Seq(Event), NEW t \in Seq(Event)
    PROVE  Ordered(s \o t) <=> Ordered(s) /\ Ordered(t) /\ Before(s, t)
<1> DEFINE u == s \o t
<1>1. /\ u \in Seq(Event) /\ Len(u) = Len(s) + Len(t) /\ Len(s) \in Nat /\ Len(t) \in Nat
      /\ \A i \in 1..Len(s) : i \in 1..Len(u) /\ u[i] = s[i]
      /\ \A i \in 1..Len(t) : (Len(s) + i) \in 1..Len(u) /\ u[Len(s) + i] = t[i]
      /\ \A i \in 1..Len(u) : i > Len(s) => (i - Len(s)) \in 1..Len(t) /\ u[i] = t[i - Len(s)]
  BY ConcatProperties, LenProperties
<1> HIDE DEF u
<1>2. ASSUME Ordered(u) PROVE Ordered(s) /\ Ordered(t) /\ Before(s, t)
  <2> \A i, j \in 1..Len(u) :
        (i < j /\ u[i].kind = "open" /\ u[j].kind = "open") => u[i].n < u[j].n
    BY <1>1, <1>2, OrderedFacts
  <2>1. Ordered(s)
    <3> SUFFICES ASSUME NEW i \in 1..Len(s), NEW j \in 1..Len(s),
                        i < j, s[i].kind = "open", s[j].kind = "open"
                 PROVE  s[i].n < s[j].n
      BY OrderedFacts
    <3>1. QED
      BY <1>1
  <2>2. Ordered(t)
    <3> SUFFICES ASSUME NEW i \in 1..Len(t), NEW j \in 1..Len(t),
                        i < j, t[i].kind = "open", t[j].kind = "open"
                 PROVE  t[i].n < t[j].n
      BY OrderedFacts
    <3> DEFINE k == Len(s) + i
               l == Len(s) + j
    <3>1. /\ k \in 1..Len(u) /\ l \in 1..Len(u) /\ k < l
          /\ u[k] = t[i] /\ u[l] = t[j]
      BY <1>1
    <3> HIDE DEF k, l
    <3>2. QED
      BY <3>1
  <2>3. Before(s, t)
    <3> SUFFICES ASSUME NEW e \in Opens(s), NEW f \in Opens(t) PROVE e.n < f.n
      BY DEF Before
    <3>1. PICK i \in 1..Len(s) : s[i] = e /\ s[i].kind = "open"
      BY OpensFacts
    <3>2. PICK j \in 1..Len(t) : t[j] = f /\ t[j].kind = "open"
      BY OpensFacts
    <3> DEFINE l == Len(s) + j
    <3>3. /\ i \in 1..Len(u) /\ l \in 1..Len(u) /\ i < l
          /\ u[i] = s[i] /\ u[l] = t[j]
      BY <1>1
    <3> HIDE DEF l
    <3>4. QED
      BY <3>1, <3>2, <3>3
  <2>4. QED
    BY <2>1, <2>2, <2>3
<1>3. ASSUME Ordered(s), Ordered(t), Before(s, t) PROVE Ordered(u)
  <2> SUFFICES ASSUME NEW i \in 1..Len(u), NEW j \in 1..Len(u),
                      i < j, u[i].kind = "open", u[j].kind = "open"
               PROVE  u[i].n < u[j].n
    BY <1>1, OrderedFacts
  <2>1. CASE j <= Len(s)
    <3>1. i \in 1..Len(s) /\ j \in 1..Len(s)
      BY <1>1, <2>1
    <3>2. QED
      BY <1>1, <1>3, <3>1, OrderedFacts
  <2>2. CASE i > Len(s)
    <3>1. (i - Len(s)) \in 1..Len(t) /\ (j - Len(s)) \in 1..Len(t) /\ i - Len(s) < j - Len(s)
          /\ u[i] = t[i - Len(s)] /\ u[j] = t[j - Len(s)]
      BY <1>1, <2>2
    <3>2. QED
      BY <1>3, <3>1, OrderedFacts
  <2>3. CASE i <= Len(s) /\ j > Len(s)
    <3>1. i \in 1..Len(s) /\ (j - Len(s)) \in 1..Len(t)
          /\ u[i] = s[i] /\ u[j] = t[j - Len(s)]
      BY <1>1, <2>3
    <3>2. u[i] \in Opens(s) /\ u[j] \in Opens(t)
      BY <3>1, OpensFacts
    <3>3. QED
      BY <1>3, <3>2 DEF Before
  <2>4. QED
    BY <1>1, <2>1, <2>2, <2>3
<1>4. QED
  BY <1>2, <1>3 DEF u

\* What is not a document may be put anywhere, or taken away.
LEMMA Insert ==
    ASSUME NEW s \in Seq(Event), NEW t \in Seq(Event), NEW e \in Event, e.kind # "open"
    PROVE  /\ Opens((s \o <<e>>) \o t) = Opens(s \o t)
           /\ Ordered((s \o <<e>>) \o t) <=> Ordered(s \o t)
<1> DEFINE o == <<e>>
           u == s \o o
<1>1. o \in Seq(Event) /\ Opens(o) = {} /\ Ordered(o)
  BY Single
<1> HIDE DEF o
<1>2. u \in Seq(Event) /\ Opens(u) = Opens(s) \cup Opens(o)
  BY <1>1, OpensOfJoin, ConcatProperties
<1>3. Ordered(u) <=> Ordered(s) /\ Ordered(o) /\ Before(s, o)
  BY <1>1, OrderedJoin
<1> HIDE DEF u
<1>4. Opens(u) = Opens(s) /\ (Ordered(u) <=> Ordered(s))
  BY <1>1, <1>2, <1>3 DEF Before
<1>5. Before(u, t) <=> Before(s, t)
  BY <1>4 DEF Before
<1>6. Opens(u \o t) = Opens(u) \cup Opens(t) /\ Opens(s \o t) = Opens(s) \cup Opens(t)
  BY <1>2, OpensOfJoin
<1>7. /\ Ordered(u \o t) <=> Ordered(u) /\ Ordered(t) /\ Before(u, t)
      /\ Ordered(s \o t) <=> Ordered(s) /\ Ordered(t) /\ Before(s, t)
  BY <1>2, OrderedJoin
<1>8. Opens(u \o t) = Opens(s \o t) /\ (Ordered(u \o t) <=> Ordered(s \o t))
  BY <1>4, <1>5, <1>6, <1>7
<1>9. QED
  BY <1>8 DEF u, o

LEMMA Regroup == \A s, t, u \in Seq(Event) : (s \o t) \o u = s \o (t \o u)
BY ConcatAssociative

LEMMA OnlyOne ==
    ASSUME NEW s \in Seq(Event), Len(s) <= 1, s # <<>>
    PROVE  s[1] \in Event /\ s = <<s[1]>>
<1>1. Len(s) \in Nat \ {0}
  BY EmptySeq
<1>2. Len(s) = 1
  <2>1. \A k \in Nat \ {0} : k <= 1 => k = 1
    OBVIOUS
  <2>2. QED
    BY <1>1, <2>1
<1>3. s[1] \in Event
  BY <1>2
<1>4. QED
  BY <1>2, <1>3

\* A document that arrives last.
LEMMA AddLast ==
    ASSUME NEW s \in Seq(Event), NEW e \in Event
    PROVE  /\ s \o <<e>> \in Seq(Event)
           /\ Opens(s \o <<e>>) = Opens(s) \cup (IF e.kind = "open" THEN {e} ELSE {})
           /\ Ordered(s \o <<e>>) <=>
                Ordered(s) /\ (e.kind = "open" => \A f \in Opens(s) : f.n < e.n)
<1> DEFINE o == <<e>>
<1>1. o \in Seq(Event) /\ Ordered(o) /\ Opens(o) = IF e.kind = "open" THEN {e} ELSE {}
  BY Single
<1> HIDE DEF o
<1>2. Opens(s \o o) = Opens(s) \cup Opens(o) /\ s \o o \in Seq(Event)
  BY <1>1, OpensOfJoin, ConcatProperties
<1>3. Ordered(s \o o) <=> Ordered(s) /\ Before(s, o)
  BY <1>1, OrderedJoin
<1>4. Before(s, o) <=> (e.kind = "open" => \A f \in Opens(s) : f.n < e.n)
  BY <1>1 DEF Before
<1>5. QED
  BY <1>1, <1>2, <1>3, <1>4 DEF o

\* An event that goes from the front of one sequence to the end of another.
LEMMA HeadMoves ==
    ASSUME NEW s \in Seq(Event), NEW t \in Seq(Event), t # <<>>
    PROVE  /\ Head(t) \in Event /\ Tail(t) \in Seq(Event)
           /\ s \o t = (s \o <<Head(t)>>) \o Tail(t)
<1>1. Head(t) \in Event /\ Tail(t) \in Seq(Event)
  BY HeadTailProperties
<1>2. t = <<Head(t)>> \o Tail(t)
  <2>1. Len(t) \in Nat \ {0} /\ Head(t) = t[1]
    BY EmptySeq
  <2>2. Tail(t) = SubSeq(t, 2, Len(t))
    BY TailIsSubSeq
  <2>3. SubSeq(t, 1, Len(t)) = <<t[1]>> \o SubSeq(t, 1 + 1, Len(t))
    <3>1. 1 \in 1..Len(t) /\ Len(t) \in 1..Len(t)
      BY <2>1
    <3>2. QED
      BY <3>1, SubSeqRecursiveFirst
  <2>4. SubSeq(t, 1, Len(t)) = t
    BY SubSeqFull
  <2>5. QED
    BY <2>1, <2>2, <2>3, <2>4
<1>3. <<Head(t)>> \in Seq(Event)
  BY <1>1
<1>4. QED
  BY <1>1, <1>2, <1>3, ConcatAssociative

-----------------------------------------------------------------------------
(* The order of the documents.                                             *)

Asking == {"install", "emulate", "fork", "forked"} \cup Waiting

\* The child is asked for the documents that have arrived, which are numbered.
\* There is nothing to forward before there is a child, and a document is not
\* deferred when the request to activate takes the place of what is.
OrderInv ==
    /\ pyi_argv \in Seq(Event) /\ delivered \in Seq(Event) /\ pending_event \in Seq(Event)
    /\ queue \in Seq(Event) /\ arrived \in Seq(Event)
    /\ Len(pending_event) <= 1
    /\ \A e \in Opens(arrived) : e.n <= Len(arrived)
    /\ parent \in {"install", "emulate"} => delivered = <<>> /\ pending_event = <<>>
    /\ parent = "activate" => Opens(pending_event) = {}
    /\ parent \in Asking => Opens(Asked) = Opens(arrived) /\ Ordered(Asked)

LEMMA OrderInit == Init => OrderInv
<1> SUFFICES ASSUME Init PROVE OrderInv
  OBVIOUS
<1>1. /\ pyi_argv = <<>> /\ delivered = <<>> /\ pending_event = <<>>
      /\ queue = <<>> /\ arrived = <<>> /\ parent \in {"install", "fork"}
  BY DEF Init
<1>2. <<>> \in Seq(Event) /\ Len(<<>>) = 0
  BY EmptySeq
<1>3. Asked = <<>>
  BY <1>1 DEF Asked
<1>4. QED
  BY <1>1, <1>2, <1>3, Nothing DEF OrderInv

LEMMA ArrivalOrder == ASSUME OrderInv, EventArrives PROVE OrderInv'
<1>1. PICK kind \in {"open", "reopen"} :
        LET event == [kind |-> kind, n |-> Len(arrived) + 1]
        IN queue' = Append(queue, event) /\ arrived' = Append(arrived, event)
  BY DEF EventArrives
<1> DEFINE event == [kind |-> kind, n |-> Len(arrived) + 1]
           before == (pyi_argv \o delivered) \o pending_event
<1>2. Len(arrived) \in Nat /\ Len(arrived) + 1 \in 0..MaxEvents
  BY ChildAssumption DEF EventArrives, OrderInv
<1>3. event \in Event /\ event.n = Len(arrived) + 1
  BY <1>2 DEF Event
<1> HIDE DEF event
<1>4. /\ queue' = queue \o <<event>> /\ arrived' = arrived \o <<event>>
      /\ queue' \in Seq(Event) /\ arrived' \in Seq(Event) /\ Len(arrived') = Len(arrived) + 1
  <2>1. queue' = Append(queue, event) /\ arrived' = Append(arrived, event)
    BY <1>1 DEF event
  <2>2. queue \in Seq(Event) /\ arrived \in Seq(Event)
    BY DEF OrderInv
  <2>3. QED
    BY <1>3, <2>1, <2>2, AppendProperties, AppendIsConcat
<1>5. /\ UNCHANGED <<parent, pyi_argv, delivered, pending_event>>
  BY DEF EventArrives, evars
<1>6. before \in Seq(Event) /\ Asked = before \o queue /\ Asked' = before \o (queue \o <<event>>)
  BY <1>4, <1>5, ConcatProperties DEF Asked, OrderInv
<1> HIDE DEF before
<1>7. Asked \in Seq(Event) /\ Asked' = Asked \o <<event>>
  <2>1. queue \in Seq(Event) /\ <<event>> \in Seq(Event)
    BY <1>3, Single DEF OrderInv
  <2>2. QED
    BY <1>6, <2>1, ConcatAssociative, ConcatProperties
<1>8. Opens(arrived') = Opens(arrived) \cup (IF event.kind = "open" THEN {event} ELSE {})
  BY <1>3, <1>4, AddLast DEF OrderInv
<1>9. /\ Opens(Asked') = Opens(Asked) \cup (IF event.kind = "open" THEN {event} ELSE {})
      /\ Ordered(Asked') <=>
           Ordered(Asked) /\ (event.kind = "open" => \A f \in Opens(Asked) : f.n < event.n)
  BY <1>3, <1>7, AddLast
<1>10. \A e \in Opens(arrived) : e \in Event /\ e.n \in Nat
  <2>1. ASSUME NEW e \in Opens(arrived) PROVE e \in Event
    BY OpensFacts DEF OrderInv
  <2>2. QED
    BY <2>1, ChildAssumption DEF Event
<1>11. \A e \in Opens(arrived') : e.n <= Len(arrived')
  BY <1>2, <1>3, <1>4, <1>8, <1>10 DEF OrderInv
<1>12. parent \in Asking => Opens(Asked') = Opens(arrived') /\ Ordered(Asked')
  BY <1>2, <1>3, <1>8, <1>9, <1>10 DEF OrderInv
<1>13. QED
  BY <1>4, <1>5, <1>11, <1>12 DEF OrderInv

LEMMA EmulateOrder == ASSUME OrderInv, Emulate PROVE OrderInv'
<1> DEFINE h == Head(queue)
           t == Tail(queue)
<1>1. /\ queue \in Seq(Event) /\ queue # <<>> /\ pyi_argv \in Seq(Event)
      /\ parent = "emulate" /\ delivered = <<>> /\ pending_event = <<>>
      /\ queue' = t /\ UNCHANGED <<parent, delivered, pending_event, arrived>>
      /\ pyi_argv' = IF h.kind = "open" THEN Append(pyi_argv, h) ELSE pyi_argv
  BY DEF Emulate, OrderInv
<1>2. h \in Event /\ t \in Seq(Event) /\ pyi_argv \o queue = (pyi_argv \o <<h>>) \o t
  BY <1>1, HeadMoves
<1>3. \A a, q \in Seq(Event) : ((a \o <<>>) \o <<>>) \o q = a \o q
  BY ConcatEmptySeq
<1> HIDE DEF h, t
<1>4. pyi_argv' \in Seq(Event)
  BY <1>1, <1>2, AppendProperties
<1>5. Asked = pyi_argv \o queue /\ Asked' = pyi_argv' \o queue'
  BY <1>1, <1>2, <1>3, <1>4 DEF Asked
<1>6. Opens(Asked') = Opens(Asked) /\ (Ordered(Asked') <=> Ordered(Asked))
  <2>1. CASE h.kind = "open"
    BY <1>1, <1>2, <1>5, <2>1, AppendIsConcat
  <2>2. CASE h.kind # "open"
    BY <1>1, <1>2, <1>5, <2>2, Insert
  <2>3. QED
    BY <2>1, <2>2
<1>7. QED
  BY <1>1, <1>2, <1>4, <1>6 DEF OrderInv, Asking

\* Forwarded or deferred, the event is where it was.
LEMMA PumpOrder == ASSUME OrderInv, Pump PROVE OrderInv'
<1> DEFINE h == Head(queue)
           t == Tail(queue)
           before == pyi_argv \o delivered
<1>1. /\ queue \in Seq(Event) /\ queue # <<>> /\ pyi_argv \in Seq(Event)
      /\ delivered \in Seq(Event) /\ parent = "pump" /\ pending_event = <<>>
      /\ queue' = t /\ UNCHANGED <<pyi_argv, arrived>> /\ Forward(h)
      /\ parent' = IF h.kind = "open" THEN "pump" ELSE "activate"
  BY DEF Pump, OrderInv
<1>2. before \in Seq(Event)
  BY <1>1, ConcatProperties
<1>3. h \in Event /\ t \in Seq(Event) /\ before \o queue = (before \o <<h>>) \o t
  BY <1>1, <1>2, HeadMoves
<1>4. Asked = before \o queue
  BY <1>1, <1>2, ConcatEmptySeq DEF Asked
<1>5. <<h>> \in Seq(Event) /\ Opens(<<h>>) = IF h.kind = "open" THEN {h} ELSE {}
  BY <1>3, Single
<1> HIDE DEF h, t
<1>6. CASE delivered' = Append(delivered, h) /\ pending_event' = pending_event
  <2>1. delivered' = delivered \o <<h>> /\ delivered' \in Seq(Event)
    BY <1>1, <1>3, <1>6, AppendIsConcat, AppendProperties
  <2>2. pyi_argv \o delivered' = before \o <<h>>
    BY <1>1, <1>5, <2>1, ConcatAssociative
  <2>3. before \o <<h>> \in Seq(Event)
    BY <1>2, <1>5, ConcatProperties
  <2>4. Asked' = Asked
    BY <1>1, <1>3, <1>4, <1>6, <2>2, <2>3, ConcatEmptySeq DEF Asked
  <2>5. QED
    BY <1>1, <1>3, <1>6, <2>1, <2>4, Nothing DEF OrderInv, Asking, Waiting
<1>7. CASE pending_event' = <<h>> /\ delivered' = delivered
  <2>1. Asked' = Asked
    BY <1>1, <1>3, <1>4, <1>7 DEF Asked
  <2>2. Len(pending_event') <= 1
    BY <1>7
  <2>3. QED
    BY <1>1, <1>3, <1>5, <1>7, <2>1, <2>2 DEF OrderInv, Asking, Waiting
<1>8. QED
  BY <1>1, <1>6, <1>7 DEF Forward

\* The request to activate, and the request to reopen whose place it may take,
\* are not documents.
LEMMA ActivateOrder == ASSUME OrderInv, Activate PROVE OrderInv'
<1> DEFINE e == [kind |-> "activate", n |-> 0]
           before == pyi_argv \o delivered
<1>1. /\ queue \in Seq(Event) /\ pyi_argv \in Seq(Event) /\ delivered \in Seq(Event)
      /\ pending_event \in Seq(Event) /\ Len(pending_event) <= 1
      /\ parent = "activate" /\ parent' = "pump" /\ Opens(pending_event) = {}
      /\ UNCHANGED <<pyi_argv, queue, arrived>> /\ Forward(e)
  BY DEF Activate, OrderInv
<1>2. e \in Event /\ e.kind # "open"
  BY ChildAssumption DEF Event
<1> HIDE DEF e
<1>3. /\ before \in Seq(Event) /\ <<e>> \in Seq(Event) /\ before \o <<e>> \in Seq(Event)
      /\ pending_event \o queue \in Seq(Event)
  BY <1>1, <1>2, Single, ConcatProperties
<1>4. Asked = (before \o pending_event) \o queue
  BY DEF Asked
<1>5. CASE delivered' = Append(delivered, e) /\ pending_event' = pending_event
  <2>1. delivered' = delivered \o <<e>> /\ delivered' \in Seq(Event)
    BY <1>1, <1>2, <1>5, AppendIsConcat, AppendProperties
  <2>2. pyi_argv \o delivered' = before \o <<e>>
    BY <1>1, <1>3, <2>1, ConcatAssociative
  <2>3. Asked' = ((before \o <<e>>) \o pending_event) \o queue
    BY <1>1, <1>5, <2>2 DEF Asked
  <2>4. /\ Asked = before \o (pending_event \o queue)
        /\ Asked' = (before \o <<e>>) \o (pending_event \o queue)
    <3> DEFINE longer == before \o <<e>>
    <3>1. longer \in Seq(Event) /\ before \in Seq(Event)
      BY <1>3
    <3> HIDE DEF before, longer
    <3>2. /\ (before \o pending_event) \o queue = before \o (pending_event \o queue)
          /\ (longer \o pending_event) \o queue = longer \o (pending_event \o queue)
      <4>1. queue \in Seq(Event) /\ pending_event \in Seq(Event)
        BY <1>1
      <4>2. QED
        BY <3>1, <4>1, Regroup, Zenon
    <3>3. QED
      BY <1>4, <2>3, <3>2 DEF longer
  <2>5. Opens(Asked') = Opens(Asked) /\ (Ordered(Asked') <=> Ordered(Asked))
    BY <1>2, <1>3, <2>4, Insert
  <2>6. QED
    BY <1>1, <1>5, <2>1, <2>5 DEF OrderInv, Asking, Waiting
<1>6. CASE pending_event' = <<e>> /\ delivered' = delivered
  <2>1. Asked' = (before \o <<e>>) \o queue
    BY <1>1, <1>6 DEF Asked
  <2>2. Opens(Asked') = Opens(before \o queue) /\ (Ordered(Asked') <=> Ordered(before \o queue))
    BY <1>1, <1>2, <1>3, <2>1, Insert
  <2>3. Opens(Asked) = Opens(before \o queue) /\ (Ordered(Asked) <=> Ordered(before \o queue))
    <3>1. CASE pending_event = <<>>
      BY <1>3, <1>4, <3>1, ConcatEmptySeq
    <3>2. CASE pending_event # <<>>
      <4> DEFINE x == pending_event[1]
      <4>1. x \in Event /\ pending_event = <<x>>
        BY <1>1, <3>2, OnlyOne
      <4> HIDE DEF x
      <4>2. x.kind # "open"
        BY <1>1, <4>1, Single
      <4>3. Asked = (before \o <<x>>) \o queue
        BY <1>4, <4>1
      <4>4. QED
        BY <1>1, <1>3, <4>1, <4>2, <4>3, Insert
    <3>3. QED
      BY <3>1, <3>2
  <2>4. Len(pending_event') <= 1
    BY <1>6
  <2>5. QED
    BY <1>1, <1>3, <1>6, <2>2, <2>3, <2>4 DEF OrderInv, Asking, Waiting
<1>7. QED
  BY <1>1, <1>5, <1>6 DEF Forward, e

LEMMA ResendOrder == ASSUME OrderInv, Resend PROVE OrderInv'
<1>1. /\ queue \in Seq(Event) /\ pyi_argv \in Seq(Event) /\ delivered \in Seq(Event)
      /\ pending_event \in Seq(Event) /\ parent = "resend"
      /\ UNCHANGED <<pyi_argv, queue, arrived>>
  BY DEF Resend, OrderInv
<1>2. CASE child = "running"
  <2>1. delivered' = delivered \o pending_event /\ pending_event' = <<>> /\ parent' = "pump"
    BY <1>2 DEF Resend
  <2>2. /\ delivered' \in Seq(Event) /\ <<>> \in Seq(Event)
        /\ pyi_argv \o delivered' = (pyi_argv \o delivered) \o pending_event
        /\ pyi_argv \o delivered' \in Seq(Event)
    <3>1. delivered' \in Seq(Event) /\ <<>> \in Seq(Event)
      BY <1>1, <2>1, ConcatProperties, EmptySeq
    <3>2. pyi_argv \o delivered' = (pyi_argv \o delivered) \o pending_event
      <4>1. (pyi_argv \o delivered) \o pending_event = pyi_argv \o (delivered \o pending_event)
        BY <1>1, ConcatAssociative
      <4>2. QED
        BY <2>1, <4>1
    <3>3. pyi_argv \o delivered' \in Seq(Event)
      BY <1>1, <3>1, ConcatProperties
    <3>4. QED
      BY <3>1, <3>2, <3>3
  <2>3. Asked' = Asked
    BY <1>1, <2>1, <2>2, ConcatEmptySeq DEF Asked
  <2>4. QED
    BY <1>1, <2>1, <2>2, <2>3 DEF OrderInv, Asking, Waiting
<1>3. CASE child # "running"
  <2>1. parent' = "wait" /\ UNCHANGED <<delivered, pending_event>>
    BY <1>3 DEF Resend
  <2>2. Asked' = Asked
    BY <1>1, <2>1 DEF Asked
  <2>3. QED
    BY <1>1, <2>1, <2>2 DEF OrderInv, Asking, Waiting
<1>4. QED
  BY <1>2, <1>3

LEMMA OrderNext == ASSUME OrderInv, [Next]_vars PROVE OrderInv'
<1> USE DEF evars, rest
<1>1. ASSUME UNCHANGED evars, parent' \in {"install", "emulate"} => parent' = parent \/ parent = "install",
             parent' = "activate" => parent = "activate",
             parent' \in Asking => parent \in Asking
      PROVE  OrderInv'
  BY <1>1 DEF OrderInv, Asked, Asking
<1>2. CASE Reap
  <2>1. /\ parent' = "reset" /\ pending_event' = <<>>
        /\ UNCHANGED <<queue, pyi_argv, delivered, arrived>>
    BY <1>2 DEF Reap
  <2>2. QED
    BY <2>1, Nothing DEF OrderInv, Asking, Waiting
<1>3. CASE InstallEventHandlers \/ InstallFails \/ EmulateTimeout \/ Fork \/ ForkFails
  BY <1>1, <1>3
  DEF InstallEventHandlers, InstallFails, EmulateTimeout, Fork, ForkFails, Asking, Waiting
<1>4. CASE InstallHandlers \/ Poll \/ PumpTimeout
  BY <1>1, <1>4 DEF InstallHandlers, Poll, PumpTimeout, Asking, Waiting
<1>5. CASE ResetHandlers \/ Cleanup \/ Return
  BY <1>1, <1>5 DEF ResetHandlers, Cleanup, Return, Asking, Waiting
<1>6. CASE StartsUp \/ Exits \/ SignalParent \/ SignalGroup
  BY <1>1, <1>6 DEF StartsUp, Exits, SignalParent, SignalGroup
<1>7. ASSUME NEW s \in caught, Handle(s) \/ DieOf(s) PROVE OrderInv'
  BY <1>1, <1>7 DEF Handle, DieOf, Asking, Waiting
<1>8. CASE Terminated \/ UNCHANGED vars
  BY <1>1, <1>8 DEF Terminated, vars
<1>9. QED
  BY <1>2, <1>3, <1>4, <1>5, <1>6, <1>7, <1>8,
     ArrivalOrder, EmulateOrder, PumpOrder, ActivateOrder, ResendOrder
  DEF Next, ParentStep

-----------------------------------------------------------------------------
(* The theorems.                                                           *)

\* The invariant holds in every reachable state.
THEOREM Invariance == Spec => []Inv
<1>1. Init => Inv
  BY InvInit
<1>2. Inv /\ [Next]_vars => Inv'
  BY ParentStepInv, SignalStepInv, EventStepInv DEF Inv
<1>3. QED
  BY <1>1, <1>2, PTL DEF Spec

\* Types, and that no event is deferred before the fork or after the child was
\* waited for (pending_event of pyi_apple_events.c).
THEOREM TypeCorrect == Spec => []TypeOK
<1>1. Inv => TypeOK
  <2> SUFFICES ASSUME Inv PROVE TypeOK
    OBVIOUS
  <2>1. caught \subseteq 1..MaxSignals
    BY ChildAssumption DEF Inv, SignalInv
  <2>2. QED
    BY <2>1 DEF Inv, ParentInv, SignalInv, EventInv, Waiting, TypeOK
<1>2. QED
  BY <1>1, Invariance, PTL

\* The temporary directory is there as long as the child is, however many
\* signals come, and whenever (pyi_utils_create_child).
THEOREM DirectoryOutlivesChild == Spec => []ChildHasDirectory
<1>1. Inv => ChildHasDirectory
  BY DEF Inv, ParentInv, OverInv, Waiting, Alive, ChildHasDirectory
<1>2. QED
  BY <1>1, Invariance, PTL

\* The parent ends as its child has ended, after it has removed the directory;
\* only between the fork and the handlers may a signal end it before its child.
THEOREM StatusIsChilds == Spec => []EndsLikeChild
<1>1. Inv => EndsLikeChild
  BY DEF Inv, ParentInv, OverInv, Waiting, Alive, EndsLikeChild
<1>2. QED
  BY <1>1, Invariance, PTL

\* With --bootloader-ignore-signals, a signal to the group reaches the child
\* once, and one to the parent never (_ignoring_signal_handler).
THEOREM NoDoubleSignal == Spec => []SignalledOnce
<1>1. Inv => SignalledOnce
  BY DEF Inv, SignalInv, SignalledOnce
<1>2. QED
  BY <1>1, Invariance, PTL

\* Whatever events come and however early for the child, it is asked for every
\* document once, in the order of their arrival (pyi_apple_process_events,
\* pyi_apple_send_pending_event).
THEOREM AsksInOrder == Spec => []OpensInOrder
<1>1. OrderInv => OpensInOrder
  BY DEF OrderInv, OpensInOrder, Asking, Waiting
<1>2. OrderInv /\ [Next]_vars => OrderInv'
  BY OrderNext
<1>3. QED
  BY <1>1, <1>2, OrderInit, PTL DEF Spec
=============================================================================
