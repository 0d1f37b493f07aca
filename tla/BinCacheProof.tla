---------------------------- MODULE BinCacheProof ----------------------------
(***************************************************************************)
(* Proofs about BinCache, for any number of contents and builds: an entry  *)
(* of the index stands for a finished processing, and as long as sources   *)
(* only move on, a build collects its own source, processed, whatever      *)
(* failures and interruptions came before.                                 *)
(***************************************************************************)
EXTENDS BinCache, TLAPS

\* What each step may rely on when the steps before it have been done: the file
\* holds the source, and what it finds was not meant for this content.
ProgressInv ==
    /\ pc = "lookup" => cache_index = index
    /\ pc = "remove" => cache_index # None /\ index = cache_index
    /\ pc \in {"remove", "copy", "process", "save", "write"} => index # source
    /\ pc = "process" => file = [content |-> source, processed |-> FALSE]
    /\ pc \in {"save", "write"} => source \in finished
    /\ pc \in {"save", "write", "collect"} =>
           file = [content |-> source, processed |-> TRUE]

\* What builds leave to each other: the entry is never for a content that the
\* source will have again, unless the file is that of the entry.
CacheInv ==
    /\ index <= source
    /\ index = source => file = [content |-> source, processed |-> TRUE]

Inv == TypeOK /\ IndexedWasProcessed /\ ProgressInv /\ CacheInv

-----------------------------------------------------------------------------
\* The files that the actions assign.
LEMMA FileTyping ==
    /\ Absent \in Files
    /\ \A c \in Contents : [content |-> c, processed |-> FALSE] \in Files
    /\ \A f \in Files : [content |-> f.content, processed |-> TRUE] \in Files
<1>1. 0 \in 0..MaxContent /\ Contents \subseteq 0..MaxContent
  BY BuildParametersAssumption DEF Contents
<1>2. Absent \in Files
  BY <1>1, Zenon DEF Absent, Files, None
<1>3. ASSUME NEW c \in Contents
      PROVE  [content |-> c, processed |-> FALSE] \in Files
  BY <1>1, Zenon DEF Files
<1>4. ASSUME NEW f \in Files
      PROVE  [content |-> f.content, processed |-> TRUE] \in Files
  <2>1. f.content \in 0..MaxContent
    BY DEF Files
  <2>2. QED
    BY <2>1, Zenon DEF Files
<1>5. QED
  BY <1>2, <1>3, <1>4

\* The builds and the contents are numbers, None and the contents differ.
LEMMA NumberTyping ==
    /\ MaxBuilds \in Nat /\ MaxContent \in Nat
    /\ 1 \in Contents /\ Contents \subseteq 0..MaxContent /\ 0 \notin Contents
BY BuildParametersAssumption DEF Contents

LEMMA TypingInit == Init => TypeOK
<1> SUFFICES ASSUME Init PROVE TypeOK
  OBVIOUS
<1>1. file \in Files
  BY FileTyping DEF Init
<1>2. builds \in 0..MaxBuilds /\ source \in Contents
  BY NumberTyping DEF Init
<1>3. index \in 0..MaxContent /\ cache_index \in 0..MaxContent
  BY NumberTyping DEF Init, None
<1>4. QED
  BY <1>1, <1>2, <1>3 DEF Init, TypeOK

\* A function that returns or raises leaves the disk as it is.
LEMMA EndsTyping ==
    ASSUME TypeOK, Ends, UNCHANGED <<builds, source, disk, finished>>
    PROVE  TypeOK'
<1>1. pc' = "idle" /\ cache_index' = 0
  BY DEF Ends, None
<1>2. strict' \in BOOLEAN
  BY Zenon DEF Ends
<1>3. /\ builds' = builds /\ source' = source /\ finished' = finished
      /\ index' = index /\ index_whole' = index_whole /\ file' = file
  BY DEF disk
<1>4. cache_index' \in 0..MaxContent
  BY <1>1, NumberTyping
<1>5. /\ builds' \in 0..MaxBuilds /\ source' \in Contents /\ index' \in 0..MaxContent
      /\ index_whole' \in BOOLEAN /\ file' \in Files /\ finished' \subseteq Contents
  BY <1>3, Zenon DEF TypeOK
<1>6. ~(pc' = "copy") /\ pc' \in {"idle", "load", "lookup", "remove", "copy", "process",
                                 "save", "write", "collect"}
  BY <1>1
<1>7. QED
  BY <1>2, <1>4, <1>5, <1>6, Zenon DEF TypeOK

LEMMA TypingStep == ASSUME TypeOK, [Next]_vars PROVE TypeOK'
<1> USE NumberTyping DEF TypeOK, None
<1>1. CASE ChangeSource
  BY <1>1 DEF ChangeSource, disk
<1>2. CASE StartBuild
  BY <1>2 DEF StartBuild, disk
<1>3. CASE Clean
  BY <1>3, FileTyping DEF Clean
<1>4. CASE LoadIndex
  BY <1>4 DEF LoadIndex, disk
<1>5. CASE Lookup
  BY <1>5 DEF Lookup, disk
<1>6. CASE RemoveOld
  BY <1>6, FileTyping DEF RemoveOld
<1>7. CASE LoadIndexFails \/ RemoveOldFails \/ ValidationFails \/ Collect \/ Interrupted
  <2>1. Ends /\ UNCHANGED <<builds, source, disk, finished>>
    BY <1>7, Zenon DEF LoadIndexFails, RemoveOldFails, ValidationFails, Collect, Interrupted
  <2>2. QED
    BY <2>1, EndsTyping
<1>8. CASE CopyFile
  BY <1>8, FileTyping DEF CopyFile
<1>9. CASE Process
  <2>1. file' \in Files
    BY <1>9, FileTyping DEF Process
  <2>2. finished' \subseteq Contents
    BY <1>9 DEF Process
  <2>3. QED
    BY <1>9, <2>1, <2>2 DEF Process
<1>10. CASE OpenIndex \/ WriteIndex
  BY <1>10 DEF OpenIndex, WriteIndex
<1>11. CASE UNCHANGED vars
  BY <1>11 DEF vars, disk
<1>12. QED
  BY <1>1, <1>2, <1>3, <1>4, <1>5, <1>6, <1>7, <1>8, <1>9, <1>10, <1>11
     DEF Next, Terminated

LEMMA InvInit == Init => Inv
<1> SUFFICES ASSUME Init PROVE Inv
  OBVIOUS
<1>1. TypeOK
  BY TypingInit
<1>2. IndexedWasProcessed /\ ProgressInv
  BY DEF Init, IndexedWasProcessed, ProgressInv
<1>3. CacheInv
  BY DEF Init, CacheInv, None
<1>4. QED
  BY <1>1, <1>2, <1>3 DEF Inv

LEMMA InvStep == ASSUME ~Reverts, Inv, [Next]_vars PROVE Inv'
<1>1. TypeOK'
  BY TypingStep DEF Inv
<1>2. source \in Contents /\ index \in 0..MaxContent /\ cache_index \in 0..MaxContent
  BY DEF Inv, TypeOK
<1>3. IndexedWasProcessed' /\ ProgressInv' /\ CacheInv'
  <2> USE <1>2, NumberTyping DEF IndexedWasProcessed, ProgressInv, CacheInv,
          None, Contents
  <2> SUFFICES ASSUME IndexedWasProcessed, ProgressInv, CacheInv
               PROVE  (IndexedWasProcessed /\ ProgressInv /\ CacheInv)'
    BY DEF Inv
  <2>1. CASE ChangeSource
    BY <2>1 DEF ChangeSource, disk
  <2>2. CASE StartBuild
    BY <2>2 DEF StartBuild, disk
  <2>3. CASE Clean
    BY <2>3 DEF Clean
  <2>4. CASE LoadIndex
    BY <2>4 DEF LoadIndex, disk
  <2>5. CASE LoadIndexFails
    BY <2>5 DEF Ends, LoadIndexFails, disk
  <2>6. CASE Lookup
    BY <2>6 DEF Lookup, Hit, disk
  <2>7. CASE RemoveOld
    BY <2>7 DEF RemoveOld
  <2>8. CASE RemoveOldFails
    BY <2>8 DEF Ends, RemoveOldFails, disk
  <2>9. CASE CopyFile
    BY <2>9 DEF CopyFile
  <2>10. CASE Process
    <3>1. file' = [content |-> source, processed |-> TRUE]
      <4>1. file = [content |-> source, processed |-> FALSE]
        BY <2>10 DEF Process
      <4>2. QED
        BY <2>10, <4>1 DEF Process
    <3>2. IndexedWasProcessed'
      BY <2>10 DEF Process
    <3>3. ProgressInv'
      <4>1. pc' = "save" /\ index' # source' /\ source' \in finished'
        BY <2>10 DEF Process
      <4>2. file' = [content |-> source', processed |-> TRUE]
        BY <2>10, <3>1 DEF Process
      <4>3. QED
        BY <4>1, <4>2
    <3>4. CacheInv'
      BY <2>10, <3>1 DEF Process
    <3>5. QED
      BY <3>2, <3>3, <3>4
  <2>11. CASE ValidationFails
    BY <2>11 DEF Ends, ValidationFails, disk
  <2>12. CASE OpenIndex
    BY <2>12 DEF OpenIndex
  <2>13. CASE WriteIndex
    BY <2>13 DEF WriteIndex
  <2>14. CASE Collect
    BY <2>14 DEF Ends, Collect, disk
  <2>15. CASE Interrupted
    BY <2>15 DEF Ends, Interrupted, disk
  <2>16. CASE UNCHANGED vars
    BY <2>16 DEF vars, disk
  <2>17. QED
    BY <2>1, <2>2, <2>3, <2>4, <2>5, <2>6, <2>7, <2>8, <2>9, <2>10, <2>11,
       <2>12, <2>13, <2>14, <2>15, <2>16 DEF Next, Terminated
<1>4. QED
  BY <1>1, <1>3 DEF Inv

\* The invariant holds in every reachable state, if sources only move on.
THEOREM Invariance == ASSUME ~Reverts PROVE Spec => []Inv
<1>1. Init => Inv
  BY InvInit
<1>2. Inv /\ [Next]_vars => Inv'
  BY InvStep
<1>3. QED
  BY <1>1, <1>2, PTL DEF Spec

\* What a build collects is its source, processed (process_collected_binary),
\* for every history of failed and interrupted builds before it.
THEOREM CollectsCurrent == ASSUME ~Reverts PROVE Spec => []CollectedIsCurrent
<1>1. Inv => CollectedIsCurrent
  BY DEF Inv, ProgressInv, CollectedIsCurrent
<1>2. QED
  BY <1>1, Invariance, PTL

-----------------------------------------------------------------------------
(* Without the assumption on sources, the weaker half of the invariant.    *)

\* The entry that a build will write is for a file that it has processed.
SavedInv == pc \in {"save", "write"} => source \in finished

IndexInv == IndexedWasProcessed /\ SavedInv

LEMMA IndexStep == ASSUME IndexInv, [Next]_vars PROVE IndexInv'
<1> USE DEF IndexInv, IndexedWasProcessed, SavedInv, None
<1>1. CASE ChangeSource \/ StartBuild \/ Clean
  BY <1>1 DEF ChangeSource, StartBuild, Clean, disk
<1>2. CASE LoadIndex \/ LoadIndexFails \/ Lookup
  BY <1>2 DEF LoadIndex, Ends, LoadIndexFails, Lookup, disk
<1>3. CASE RemoveOld \/ RemoveOldFails \/ CopyFile
  BY <1>3 DEF RemoveOld, Ends, RemoveOldFails, CopyFile, disk
<1>4. CASE Process \/ ValidationFails
  BY <1>4 DEF Process, Ends, ValidationFails, disk
<1>5. CASE OpenIndex \/ WriteIndex
  BY <1>5 DEF OpenIndex, WriteIndex
<1>6. CASE Collect \/ Interrupted \/ UNCHANGED vars
  BY <1>6 DEF Collect, Ends, Interrupted, vars, disk
<1>7. QED
  BY <1>1, <1>2, <1>3, <1>4, <1>5, <1>6 DEF Next, Terminated

\* Types, and that a copy never goes over the file of an entry, for every
\* history of the source (os.remove before copy in process_collected_binary).
THEOREM TypeCorrect == Spec => []TypeOK
<1>1. Init => TypeOK
  BY TypingInit
<1>2. TypeOK /\ [Next]_vars => TypeOK'
  BY TypingStep
<1>3. QED
  BY <1>1, <1>2, PTL DEF Spec

\* An entry of the index always stands for a processing that was finished, for
\* every history of the source (the fix of doc/CHANGES.rst:883-889).
THEOREM IndexIsTrue == Spec => []IndexedWasProcessed
<1>1. Init => IndexInv
  BY DEF Init, IndexInv, IndexedWasProcessed, SavedInv
<1>2. IndexInv /\ [Next]_vars => IndexInv'
  BY IndexStep
<1>3. IndexInv => IndexedWasProcessed
  BY DEF IndexInv
<1>4. QED
  BY <1>1, <1>2, <1>3, PTL DEF Spec
=============================================================================
