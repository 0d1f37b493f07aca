------------------------------ MODULE BuildProof ------------------------------
(***************************************************************************)
(* Proofs about Build: what BinCacheProof proves of the cache holds in     *)
(* every build of a chain of targets; targets that are up to date are not  *)
(* built again; and a build that is finished has made what a clean build   *)
(* would have made, wherever earlier builds failed or were interrupted.    *)
(***************************************************************************)
EXTENDS Build, TLAPS

CacheProof == INSTANCE BinCacheProof

-----------------------------------------------------------------------------
\* A step of a build is a step of the cache, or leaves the cache alone.
LEMMA CacheStepSimulation == [Next]_vars => [Cache!Next]_(Cache!vars)
<1> SUFFICES ASSUME [Next]_vars PROVE Cache!Next \/ UNCHANGED Cache!vars
  OBVIOUS
<1> USE DEF Cache!vars, Cache!disk
<1>1. CASE UNCHANGED vars
  BY <1>1 DEF vars, cache
<1>2. CASE Tick
  BY <1>2 DEF Tick, cache
<1>3. ASSUME NEW s \in {"script", "module"}, EditSource(s) PROVE UNCHANGED Cache!vars
  BY <1>3 DEF EditSource, cache
<1>4. CASE ChangeBinary
  BY <1>4 DEF ChangeBinary, Cache!Next
<1>5. CASE EditSpec \/ RemoveExe \/ StartBuild
  BY <1>5 DEF EditSpec, RemoveExe, StartBuild, cache
<1>6. CASE Clean
  BY <1>6 DEF Clean, Cache!Next
<1>7. ASSUME NEW t \in Targets, UpToDate(t) \/ Rebuild(t) \/ SaveGuts(t)
      PROVE  UNCHANGED Cache!vars
  BY <1>7 DEF UpToDate, Rebuild, SaveGuts, cache
<1>8. ASSUME NEW t \in Products, Open(t) PROVE Cache!Next \/ UNCHANGED Cache!vars
  <2>1. UNCHANGED cache \/ Cache!Collect
    BY <1>8 DEF Open
  <2>2. QED
    BY <2>1 DEF cache, Cache!Next
<1>9. ASSUME NEW t \in Products, Write(t) PROVE UNCHANGED Cache!vars
  BY <1>9 DEF Write, cache
<1>10. CASE AssembleAnalysis
  BY <1>10 DEF AssembleAnalysis, cache
<1>11. CASE ProcessBinary
  BY <1>11 DEF ProcessBinary, Cache!Next
<1>12. CASE CacheStep
  BY <1>12 DEF CacheStep, Cache!Next
<1>13. CASE Collect
  BY <1>13 DEF Collect, Cache!Next
<1>14. CASE CacheFails
  BY <1>14 DEF CacheFails, Cache!Next
<1>15. CASE Interrupted
  <2>1. Cache!Interrupted \/ UNCHANGED cache
    BY <1>15 DEF Interrupted
  <2>2. QED
    BY <2>1 DEF cache, Cache!Next
<1>16. CASE Terminated
  BY <1>16 DEF Terminated, vars, cache
<1>17. QED
  BY <1>1, <1>2, <1>3, <1>4, <1>5, <1>6, <1>7, <1>8, <1>9, <1>10, <1>11, <1>12,
     <1>13, <1>14, <1>15, <1>16 DEF Next

\* Build is composed with an instance of BinCache, so that its behaviours are
\* behaviours of the cache; this carries the theorems about the cache over.
LEMMA CacheRefinement == Spec => Cache!Spec
<1>1. Init => Cache!Init
  BY DEF Init
<1>2. [Next]_vars => [Cache!Next]_(Cache!vars)
  BY CacheStepSimulation
<1>3. QED
  BY <1>1, <1>2, PTL DEF Spec, Cache!Spec

\* The two instances of BinCache, one in Build and one under its proofs, are the
\* same.
LEMMA SameCache ==
    /\ Cache!Init => CacheProof!Init
    /\ [Cache!Next]_(Cache!vars) => [CacheProof!Next]_(CacheProof!vars)
    /\ CacheProof!IndexedWasProcessed => Cache!IndexedWasProcessed
    /\ CacheProof!CollectedIsCurrent => Cache!CollectedIsCurrent
<1>1. Cache!Init => CacheProof!Init
  BY DEF Cache!Init, CacheProof!Init, Cache!None, CacheProof!None, Cache!Absent,
     CacheProof!Absent
<1>2. Cache!Next => CacheProof!Next
  BY DEF Cache!Next, CacheProof!Next, Cache!vars, CacheProof!vars, Cache!disk,
     CacheProof!disk, Cache!Hit, CacheProof!Hit, Cache!Ends, CacheProof!Ends,
     Cache!None, CacheProof!None, Cache!Contents, CacheProof!Contents,
     Cache!Absent, CacheProof!Absent, Cache!ChangeSource,
     CacheProof!ChangeSource, Cache!StartBuild, CacheProof!StartBuild,
     Cache!Clean, CacheProof!Clean, Cache!LoadIndex, CacheProof!LoadIndex,
     Cache!LoadIndexFails, CacheProof!LoadIndexFails, Cache!Lookup,
     CacheProof!Lookup, Cache!RemoveOld, CacheProof!RemoveOld,
     Cache!RemoveOldFails, CacheProof!RemoveOldFails, Cache!CopyFile,
     CacheProof!CopyFile, Cache!Process, CacheProof!Process,
     Cache!ValidationFails, CacheProof!ValidationFails, Cache!OpenIndex,
     CacheProof!OpenIndex, Cache!WriteIndex, CacheProof!WriteIndex,
     Cache!Collect, CacheProof!Collect, Cache!Interrupted,
     CacheProof!Interrupted, Cache!Terminated, CacheProof!Terminated
<1>3. /\ CacheProof!IndexedWasProcessed => Cache!IndexedWasProcessed
      /\ CacheProof!CollectedIsCurrent => Cache!CollectedIsCurrent
  BY DEF Cache!IndexedWasProcessed, CacheProof!IndexedWasProcessed,
     Cache!CollectedIsCurrent, CacheProof!CollectedIsCurrent, Cache!None,
     CacheProof!None
<1>4. [Cache!Next]_(Cache!vars) => [CacheProof!Next]_(CacheProof!vars)
  <2>1. CASE Cache!Next
    BY <2>1, <1>2
  <2>2. CASE UNCHANGED Cache!vars
    BY <2>2 DEF Cache!vars, CacheProof!vars, Cache!disk, CacheProof!disk
  <2>3. QED
    BY <2>1, <2>2
<1>5. QED
  BY <1>1, <1>3, <1>4

\* In every build, an entry of the index stands for a processing that was
\* finished, for every history of the sources and of the failures.
THEOREM IndexIsTrue == Spec => []IndexedWasProcessed
<1>1. CacheProof!Spec => []CacheProof!IndexedWasProcessed
  BY CacheProof!IndexIsTrue, BuildParametersAssumption
<1>2. QED
  BY <1>1, SameCache, CacheRefinement, PTL
     DEF IndexedWasProcessed, Cache!Spec, CacheProof!Spec

\* What PKG or COLLECT takes from the cache is the binary as it is now,
\* processed, if sources only move on.
THEOREM CollectsCurrent == ASSUME ~Reverts PROVE Spec => []CollectedIsCurrent
<1>1. CacheProof!Spec => []CacheProof!CollectedIsCurrent
  BY CacheProof!CollectsCurrent, BuildParametersAssumption
<1>2. QED
  BY <1>1, SameCache, CacheRefinement, PTL
     DEF CollectedIsCurrent, Cache!Spec, CacheProof!Spec

-----------------------------------------------------------------------------
(* Types.                                                                  *)

\* What the types of the saved guts and of the products say, field by field.
LEMMA FieldTypes ==
    ASSUME TypeOK
    PROVE  /\ \A t \in Targets : /\ guts[t].mtime \in Nat /\ guts[t].pure \in BOOLEAN
                                 /\ guts[t].option \in Nat /\ guts[t].mtm \in Nat
           /\ \A p \in Products : product[p].mtime \in Nat /\ product[p].content \in Program
           /\ \A s \in Sources : mtime[s] \in Nat
           /\ content["script"] \in 1..MaxContent /\ content["module"] \in 1..MaxContent
           /\ now \in Nat /\ now > 0 /\ option \in Nat
<1>1. MaxTime \in Nat /\ MaxOption \in Nat
  BY BuildAssumption
<1>2. \A t \in Targets : /\ guts[t].mtime \in Nat /\ guts[t].pure \in BOOLEAN
                         /\ guts[t].option \in Nat /\ guts[t].mtm \in Nat
  <2> TAKE t \in Targets
  <2>1. guts[t] \in [mtime : 0..MaxTime, pure : BOOLEAN, option : 0..MaxOption,
                     mtm : 0..MaxTime]
    BY Zenon DEF TypeOK
  <2>2. QED
    BY <1>1, <2>1
<1>3. \A p \in Products : product[p].mtime \in Nat /\ product[p].content \in Program
  <2> TAKE p \in Products
  <2>1. product[p] \in [content : Program, mtime : 0..MaxTime]
    BY Zenon DEF TypeOK
  <2>2. QED
    BY <1>1, <2>1
<1>4. /\ \A s \in Sources : mtime[s] \in Nat
      /\ now \in Nat /\ now > 0 /\ option \in Nat
  BY <1>1 DEF TypeOK
<1>5. content["script"] \in 1..MaxContent /\ content["module"] \in 1..MaxContent
  BY Zenon DEF TypeOK
<1>6. QED
  BY <1>2, <1>3, <1>4, <1>5

\* What the targets write is a program, whether or not it is complete.
LEMMA ProgramTypes ==
    /\ Nothing \in Program
    /\ Missing \in [content : Program, mtime : 0..MaxTime]
    /\ NoGuts \in [mtime : 0..MaxTime, pure : BOOLEAN, option : 0..MaxOption,
                   mtm : 0..MaxTime]
    /\ NoDist \in [program : Program, passed_on : BOOLEAN]
<1>1. 0 \in 0..MaxTime /\ 0 \in 0..MaxContent /\ 0 \in 0..MaxOption
  BY BuildAssumption, BuildParametersAssumption
<1>2. NoBinary \in Cache!Files
  BY <1>1 DEF NoBinary, Cache!Absent, Cache!Files, Cache!None
<1>3. Nothing \in Program
  BY <1>1, <1>2 DEF Nothing, Program
<1>4. QED
  BY <1>1, <1>3 DEF Missing, NoGuts, NoDist

\* The part of the types that is not the cache's.
LocalTypeOK ==
    /\ now \in 1..MaxTime /\ onefile \in BOOLEAN
    /\ content \in [{"script", "module"} -> 1..MaxContent]
    /\ mtime \in [Sources -> 1..MaxTime] /\ option \in 1..MaxOption
    /\ target \in Targets \cup {"none", "collect"}
    /\ step \in {"idle", "done", "check", "assemble", "process", "write", "save"}
    /\ pure \in BOOLEAN /\ dependencies \in BOOLEAN /\ settled \in BOOLEAN
    /\ guts \in [Targets -> [mtime : 0..MaxTime, pure : BOOLEAN, option : 0..MaxOption,
                             mtm : 0..MaxTime]]
    /\ product \in [Products -> [content : Program, mtime : 0..MaxTime]]
    /\ dist \in [program : Program, passed_on : BOOLEAN]

LEMMA CacheTyping ==
    /\ Cache!Init => Cache!TypeOK
    /\ Cache!TypeOK /\ [Next]_vars => Cache!TypeOK'
<1>1. Cache!TypeOK <=> CacheProof!TypeOK
  BY DEF Cache!TypeOK, CacheProof!TypeOK, Cache!Contents, CacheProof!Contents,
     Cache!Files, CacheProof!Files, Cache!None, CacheProof!None, Cache!Absent,
     CacheProof!Absent
<1>2. (Cache!TypeOK)' <=> (CacheProof!TypeOK)'
  BY DEF Cache!TypeOK, CacheProof!TypeOK, Cache!Contents, CacheProof!Contents,
     Cache!Files, CacheProof!Files, Cache!None, CacheProof!None, Cache!Absent,
     CacheProof!Absent
<1>3. CacheProof!Init => CacheProof!TypeOK
  BY CacheProof!TypingInit, BuildParametersAssumption
<1>4. CacheProof!TypeOK /\ [CacheProof!Next]_(CacheProof!vars) => (CacheProof!TypeOK)'
  BY CacheProof!TypingStep, BuildParametersAssumption
<1>5. QED
  BY <1>1, <1>2, <1>3, <1>4, SameCache, CacheStepSimulation

LEMMA LocalTypingInit == Init => LocalTypeOK
<1> SUFFICES ASSUME Init PROVE LocalTypeOK
  OBVIOUS
<1>1. 1 \in 1..MaxTime /\ 1 \in 1..MaxContent /\ 1 \in 1..MaxOption
  BY BuildAssumption, BuildParametersAssumption
<1>2. onefile \in BOOLEAN
  BY BuildAssumption DEF Init
<1>3. /\ guts \in [Targets -> [mtime : 0..MaxTime, pure : BOOLEAN, option : 0..MaxOption,
                               mtm : 0..MaxTime]]
      /\ product \in [Products -> [content : Program, mtime : 0..MaxTime]]
      /\ dist \in [program : Program, passed_on : BOOLEAN]
  BY ProgramTypes, Zenon DEF Init
<1>4. QED
  BY <1>1, <1>2, <1>3 DEF Init, LocalTypeOK

\* A target writes a program whose parts are what the build has at hand.
LEMMA ContentsTyping == ASSUME TypeOK, NEW t \in Products PROVE Contents(t) \in Program
<1> DEFINE parts == product["pyz"].content
<1>1. /\ parts \in Program /\ product["pkg"].content \in Program
      /\ Nothing \in Program
  BY FieldTypes, ProgramTypes DEF Products
<1>2. 0 \in 0..MaxContent /\ 1..MaxContent \subseteq 0..MaxContent
      /\ 1..MaxOption \subseteq 0..MaxOption
  BY BuildAssumption, BuildParametersAssumption
<1>3. CASE t = "pyz"
  <2>1. (IF pure THEN content["module"] ELSE 0) \in 0..MaxContent
    BY <1>2, FieldTypes
  <2>2. [Nothing EXCEPT !.module = IF pure THEN content["module"] ELSE 0] \in Program
    BY <1>1, <2>1 DEF Program
  <2>3. QED
    BY <1>3, <2>2 DEF Contents
<1>4. CASE t = "pkg"
  <2>1. parts.module \in 0..MaxContent
    BY <1>1 DEF Program
  <2>2. content["script"] \in 0..MaxContent /\ option \in 0..MaxOption
    BY <1>2, FieldTypes DEF TypeOK
  <2>3. (IF onefile THEN file ELSE NoBinary) \in Cache!Files
    <3>1. file \in Cache!Files /\ NoBinary \in Cache!Files
      BY ProgramTypes DEF TypeOK, Cache!TypeOK, Nothing, Program
    <3>2. QED
      BY <3>1
  <2>4. [module |-> parts.module, script |-> content["script"], option |-> option,
         binary |-> IF onefile THEN file ELSE NoBinary] \in Program
    BY <2>1, <2>2, <2>3 DEF Program
  <2>5. QED
    BY <1>4, <2>4 DEF Contents
<1>5. CASE t = "exe"
  BY <1>1, <1>5 DEF Contents
<1>6. QED
  BY <1>3, <1>4, <1>5 DEF Products

\* A step that leaves the variables of a part alone leaves its type alone.
LEMMA LocalTypingStep == ASSUME TypeOK, [Next]_vars PROVE LocalTypeOK'
<1>0. LocalTypeOK
  BY DEF TypeOK, LocalTypeOK
<1>t. /\ 0 \in 0..MaxTime /\ 1..MaxTime \subseteq 0..MaxTime
      /\ 0 \in 0..MaxOption /\ 1..MaxOption \subseteq 0..MaxOption /\ MaxTime \in Nat
  BY BuildAssumption
<1>1. CASE UNCHANGED vars \/ Terminated \/ CacheStep \/ ProcessBinary \/ AssembleAnalysis
  <2>1. CASE UNCHANGED vars \/ Terminated
    BY <1>0, <2>1 DEF vars, user, work, Terminated, LocalTypeOK
  <2>2. CASE CacheStep \/ ProcessBinary
    BY <1>0, <2>2 DEF user, work, CacheStep, ProcessBinary, LocalTypeOK
  <2>3. CASE AssembleAnalysis
    <3>1. pure' \in BOOLEAN
      <4>1. pure' = (content["script"] \in Importing)
        BY <2>3 DEF AssembleAnalysis
      <4>2. QED
        BY <4>1
    <3>2. QED
      BY <1>0, <2>3, <3>1 DEF user, work, AssembleAnalysis, LocalTypeOK
  <2>4. QED
    BY <1>1, <2>1, <2>2, <2>3
<1>2. CASE Tick
  <2>1. now' \in 1..MaxTime
    BY <1>0, <1>2, <1>t DEF Tick, LocalTypeOK
  <2>2. QED
    BY <1>0, <1>2, <2>1 DEF Tick, work, LocalTypeOK
<1>3. ASSUME NEW s \in {"script", "module"}, EditSource(s) PROVE LocalTypeOK'
  <2>1. content' \in [{"script", "module"} -> 1..MaxContent]
    BY <1>0, <1>3 DEF EditSource, Moves, LocalTypeOK
  <2>2. mtime' \in [Sources -> 1..MaxTime]
    BY <1>0, <1>3 DEF EditSource, LocalTypeOK
  <2>3. QED
    BY <1>0, <1>3, <2>1, <2>2 DEF EditSource, Changed, LocalTypeOK
<1>4. CASE ChangeBinary
  <2>1. mtime' \in [Sources -> 1..MaxTime]
    BY <1>0, <1>4 DEF ChangeBinary, LocalTypeOK
  <2>2. QED
    BY <1>0, <1>4, <2>1 DEF ChangeBinary, Changed, LocalTypeOK
<1>5. CASE EditSpec
  BY <1>0, <1>5 DEF EditSpec, Moves, Changed, LocalTypeOK
<1>6. CASE RemoveExe
  <2>1. product' \in [Products -> [content : Program, mtime : 0..MaxTime]]
    BY <1>0, <1>6, ProgramTypes DEF RemoveExe, LocalTypeOK
  <2>2. QED
    BY <1>0, <1>6, <2>1 DEF RemoveExe, Changed, LocalTypeOK
<1>7. CASE Clean
  <2>1. product' \in [Products -> [content : Program, mtime : 0..MaxTime]]
    BY <1>0, <1>7, ProgramTypes DEF Clean, LocalTypeOK
  <2>2. guts' \in [Targets -> [mtime : 0..MaxTime, pure : BOOLEAN, option : 0..MaxOption,
                               mtm : 0..MaxTime]]
    BY <1>7, ProgramTypes DEF Clean
  <2>3. QED
    BY <1>0, <1>7, <2>1, <2>2 DEF Clean, Changed, LocalTypeOK
<1>8. CASE StartBuild
  <2>1. dist' \in [program : Program, passed_on : BOOLEAN]
    BY <1>8, ProgramTypes DEF StartBuild
  <2>2. QED
    BY <1>0, <1>8, <2>1 DEF StartBuild, user, LocalTypeOK, Targets
<1>9. ASSUME NEW t \in Targets, Proceed(t), settled \in BOOLEAN
      PROVE  /\ target' \in Targets \cup {"none", "collect"} /\ settled' \in BOOLEAN
             /\ step' \in {"idle", "done", "check", "assemble", "process", "write", "save"}
  BY <1>9 DEF Proceed, Targets
<1>10. ASSUME NEW t \in Targets, UpToDate(t) PROVE LocalTypeOK'
  <2>1. pure' \in BOOLEAN
    BY <1>0, <1>10, FieldTypes DEF UpToDate, LocalTypeOK
  <2>2. QED
    BY <1>0, <1>9, <1>10, <2>1 DEF UpToDate, user, work, LocalTypeOK
<1>11. ASSUME NEW t \in Targets, Rebuild(t) PROVE LocalTypeOK'
  BY <1>0, <1>11 DEF Rebuild, user, work, LocalTypeOK
<1>12. ASSUME NEW t \in Targets, SaveGuts(t) PROVE LocalTypeOK'
  <2> DEFINE record == [mtime |-> now, pure |-> t \in {"analysis", "pyz"} /\ pure,
                        option |-> IF t \in {"pkg", "exe"} THEN option ELSE 0,
                        mtm |-> IF t = "exe" THEN product["exe"].mtime ELSE 0]
  <2>1. product["exe"].mtime \in 0..MaxTime
    <3>1. product["exe"] \in [content : Program, mtime : 0..MaxTime]
      BY <1>0, Zenon DEF LocalTypeOK, Products
    <3>2. QED
      BY <3>1
  <2>2. (t \in {"analysis", "pyz"} /\ pure) \in BOOLEAN
    OBVIOUS
  <2>3. record \in [mtime : 0..MaxTime, pure : BOOLEAN, option : 0..MaxOption,
                    mtm : 0..MaxTime]
    BY <1>0, <1>t, <2>1, <2>2 DEF LocalTypeOK
  <2>4. guts' = [guts EXCEPT ![t] = record]
    BY <1>12 DEF SaveGuts
  <2> HIDE DEF record
  <2>5. guts' \in [Targets -> [mtime : 0..MaxTime, pure : BOOLEAN, option : 0..MaxOption,
                               mtm : 0..MaxTime]]
    BY <1>0, <2>3, <2>4 DEF LocalTypeOK
  <2>6. /\ target' \in Targets \cup {"none", "collect"} /\ settled' \in BOOLEAN
        /\ step' \in {"idle", "done", "check", "assemble", "process", "write", "save"}
    BY <1>0, <1>9, <1>12 DEF SaveGuts, LocalTypeOK
  <2>7. QED
    BY <1>0, <1>12, <2>5, <2>6 DEF SaveGuts, user, LocalTypeOK
<1>13. ASSUME NEW t \in Products, Open(t) PROVE LocalTypeOK'
  <2>1. Partial \in [content : Program, mtime : 0..MaxTime]
    BY <1>0, <1>t, ProgramTypes DEF Partial, LocalTypeOK
  <2>2. product' \in [Products -> [content : Program, mtime : 0..MaxTime]]
    BY <1>0, <1>13, <2>1 DEF Open, LocalTypeOK
  <2>3. QED
    BY <1>0, <1>13, <2>2 DEF Open, user, LocalTypeOK
<1>14. ASSUME NEW t \in Products, Write(t) PROVE LocalTypeOK'
  <2> DEFINE written == [content |-> Contents(t), mtime |-> now]
  <2>1. written \in [content : Program, mtime : 0..MaxTime]
    BY <1>0, <1>t, ContentsTyping DEF LocalTypeOK
  <2>2. product' = [product EXCEPT ![t] = written]
    BY <1>14 DEF Write
  <2> HIDE DEF written
  <2>3. product' \in [Products -> [content : Program, mtime : 0..MaxTime]]
    BY <1>0, <2>1, <2>2 DEF LocalTypeOK
  <2>4. dependencies' \in BOOLEAN
    BY <1>0, <1>14, Zenon DEF Write, LocalTypeOK
  <2>5. QED
    BY <1>0, <1>14, <2>3, <2>4 DEF Write, user, LocalTypeOK
<1>15. CASE Collect
  <2> DEFINE parts == product["exe"].content
  <2>1. parts \in Program
    BY FieldTypes DEF Products
  <2>2. file \in Cache!Files
    BY DEF TypeOK, Cache!TypeOK
  <2>3. [parts EXCEPT !.binary = file] \in Program
    BY <2>1, <2>2 DEF Program
  <2>4. dist' = [program |-> [parts EXCEPT !.binary = file], passed_on |-> dependencies]
    BY <1>15 DEF Collect
  <2>5. dependencies \in BOOLEAN
    BY <1>0 DEF LocalTypeOK
  <2>6. dist' \in [program : Program, passed_on : BOOLEAN]
    BY <2>3, <2>4, <2>5
  <2>7. QED
    BY <1>0, <1>15, <2>6 DEF Collect, user, LocalTypeOK
<1>16. CASE CacheFails
  BY <1>0, <1>16 DEF CacheFails, Ends, user, LocalTypeOK
<1>17. CASE Interrupted
  <2>1. guts' = guts \/ guts' = [guts EXCEPT ![target] = NoGuts]
    BY <1>17 DEF Interrupted
  <2>2. guts' \in [Targets -> [mtime : 0..MaxTime, pure : BOOLEAN, option : 0..MaxOption,
                               mtm : 0..MaxTime]]
    BY <1>0, <2>1, ProgramTypes DEF LocalTypeOK
  <2>3. QED
    BY <1>0, <1>17, <2>2 DEF Interrupted, Ends, user, LocalTypeOK
<1>18. QED
  BY <1>1, <1>2, <1>3, <1>4, <1>5, <1>6, <1>7, <1>8, <1>10, <1>11, <1>12, <1>13,
     <1>14, <1>15, <1>16, <1>17 DEF Next

\* The types of Build, for every number of contents, options, builds and seconds.
THEOREM TypeCorrect == Spec => []TypeOK
<1>1. TypeOK <=> Cache!TypeOK /\ LocalTypeOK
  BY DEF TypeOK, LocalTypeOK
<1>2. TypeOK' <=> (Cache!TypeOK)' /\ LocalTypeOK'
  BY DEF TypeOK, LocalTypeOK
<1>3. Init => TypeOK
  BY <1>1, CacheTyping, LocalTypingInit DEF Init
<1>4. TypeOK /\ [Next]_vars => TypeOK'
  BY <1>1, <1>2, CacheTyping, LocalTypingStep
<1>5. QED
  BY <1>3, <1>4, PTL DEF Spec

-----------------------------------------------------------------------------
(* Why nothing is built again: an inductive invariant over the times that  *)
(* the chain compares.  It says nothing of contents, and so it holds       *)
(* whether or not sources go back.                                         *)

ScriptImports == content["script"] \in Importing

\* The guts of a target, and of those before it, would be found good by a build
\* whose Analysis finds what it should.
AnalysisFresh == guts["analysis"] # NoGuts /\ ~AnalysisOutdated
PyzFresh == /\ guts["pyz"] # NoGuts /\ (guts["pyz"].pure <=> ScriptImports)
            /\ ScriptImports => ~Newer(mtime["module"], "pyz")
PkgFresh == PyzFresh /\ guts["pkg"] # NoGuts /\ ~PkgOutdated
ExeFresh == PkgFresh /\ guts["exe"] # NoGuts /\ ~ExeOutdated

\* Nothing is from the future, and an executable is older than its guts.
TimeInv ==
    /\ \A s \in Sources : mtime[s] <= now
    /\ \A t \in Targets : guts[t].mtime <= now
    /\ \A p \in Products : product[p].mtime <= now
    /\ guts["exe"].mtm <= guts["exe"].mtime

\* A build starts in a later second than everything that it finds, so that the
\* guts of what it still has to look at are older than what it writes.
SecondInv ==
    /\ target = "analysis" => guts["analysis"].mtime < now
    /\ target \in {"analysis", "pyz"} => guts["pyz"].mtime < now
    /\ target \in {"analysis", "pyz", "pkg"} => guts["pkg"].mtime < now
    /\ target \in Targets => guts["exe"].mtime < now
    /\ At("pyz", "save") => guts["pkg"].mtime < product["pyz"].mtime
    /\ At("exe", "save") => /\ product["exe"].mtime # 0
                            /\ guts["pkg"].mtime <= product["exe"].mtime

\* The guts of an Analysis hold the list that its script asks for.
ImportInv ==
    (guts["analysis"] # NoGuts /\ ~Newer(mtime["script"], "analysis"))
        => (guts["analysis"].pure <=> ScriptImports)

\* What a build knows of the targets that are behind it ...
BehindInv ==
    /\ target = "none" <=> Idle
    /\ target = "collect" => step \in {"assemble", "process"}
    /\ At("analysis", "save") \/ target \in {"pyz", "pkg", "exe", "collect"}
           => (pure <=> ScriptImports)
    /\ target \in {"pyz", "pkg", "exe", "collect"} => AnalysisFresh
    /\ target \in {"pkg", "exe", "collect"} => PyzFresh
    /\ target \in {"exe", "collect"} => PkgFresh
    /\ target = "collect" => ExeFresh
    /\ step = "done" \/ settled => AnalysisFresh /\ ExeFresh

\* ... and of the one that it works at: it was found outdated.
WorkInv ==
    step \in {"assemble", "process", "write", "save"} =>
        /\ target = "analysis" => ~AnalysisFresh
        /\ target = "pyz" => ~PyzFresh
        /\ target = "pkg" => ~PkgFresh
        /\ target = "exe" => ~ExeFresh

QuietInv == TimeInv /\ SecondInv /\ ImportInv /\ BehindInv /\ WorkInv

LEMMA QuietInit == Init => QuietInv
<1> SUFFICES ASSUME Init PROVE QuietInv
  OBVIOUS
<1>1. /\ \A s \in Sources : mtime[s] = 1
      /\ \A t \in Targets : guts[t] = NoGuts
      /\ \A p \in Products : product[p] = Missing
      /\ now = 1 /\ target = "none" /\ step = "idle" /\ settled = FALSE
  BY DEF Init
<1>2. TimeInv
  BY <1>1 DEF TimeInv, NoGuts, Missing, Targets
<1>3. SecondInv /\ BehindInv /\ WorkInv
  BY <1>1 DEF SecondInv, BehindInv, WorkInv, Targets, At, Idle
<1>4. ImportInv
  BY <1>1 DEF ImportInv, Targets
<1>5. QED
  BY <1>2, <1>3, <1>4 DEF QuietInv

\* What saving the guts of a target changes.
LEMMA SavedGuts ==
    ASSUME TypeOK, NEW t \in Targets, SaveGuts(t)
    PROVE  /\ guts'[t].mtime = now /\ guts'[t] # NoGuts
           /\ t \in {"analysis", "pyz"} => (guts'[t].pure <=> pure)
           /\ t \in {"pkg", "exe"} => guts'[t].option = option
           /\ guts'[t].mtm = IF t = "exe" THEN product["exe"].mtime ELSE 0
           /\ \A u \in Targets : u # t => guts'[u] = guts[u]
<1> DEFINE record == [mtime |-> now, pure |-> t \in {"analysis", "pyz"} /\ pure,
                      option |-> IF t \in {"pkg", "exe"} THEN option ELSE 0,
                      mtm |-> IF t = "exe" THEN product["exe"].mtime ELSE 0]
<1>1. /\ record.mtime = now
      /\ t \in {"analysis", "pyz"} => (record.pure <=> pure)
      /\ t \in {"pkg", "exe"} => record.option = option
      /\ record.mtm = IF t = "exe" THEN product["exe"].mtime ELSE 0
  OBVIOUS
<1>2. guts' = [guts EXCEPT ![t] = record] /\ DOMAIN guts = Targets
  BY DEF SaveGuts, TypeOK
<1> HIDE DEF record
<1>3. guts'[t] = record /\ \A u \in Targets : u # t => guts'[u] = guts[u]
  BY <1>2
<1>4. record # NoGuts
  BY <1>1, FieldTypes DEF NoGuts
<1>5. QED
  BY <1>1, <1>3, <1>4

\* What opening a product, or writing it, changes: it is of this second.
LEMMA WrittenProduct ==
    ASSUME TypeOK, NEW t \in Products, Open(t) \/ Write(t)
    PROVE  /\ product'[t].mtime = now
           /\ \A u \in Products : u # t => product'[u] = product[u]
           /\ target = t /\ target' = target
           /\ step \in {"assemble", "process", "write"} /\ step' \in {"write", "save"}
           /\ UNCHANGED <<user, guts, dist, settled, pure>>
<1>1. DOMAIN product = Products
  BY DEF TypeOK
<1>2. CASE Open(t)
  BY <1>1, <1>2 DEF Open, Partial, At
<1>3. CASE Write(t)
  <2> DEFINE written == [content |-> Contents(t), mtime |-> now]
  <2>1. product' = [product EXCEPT ![t] = written] /\ written.mtime = now
    BY <1>3 DEF Write
  <2> HIDE DEF written
  <2>2. QED
    BY <1>1, <1>3, <2>1 DEF Write, At
<1>4. QED
  BY <1>2, <1>3

\* Interruptions lose the guts of the target that is being saved, at worst.
LEMMA LostGuts ==
    ASSUME TypeOK, Interrupted
    PROVE  /\ \A u \in Targets : guts'[u] = guts[u] \/ guts'[u] = NoGuts
           /\ guts' = guts \/ (step = "save" /\ \A u \in Targets : u # target => guts'[u] = guts[u])
<1>1. guts' = guts \/ (step = "save" /\ guts' = [guts EXCEPT ![target] = NoGuts])
  BY DEF Interrupted
<1>2. DOMAIN guts = Targets
  BY DEF TypeOK
<1>3. QED
  BY <1>1, <1>2

LEMMA TimeStep == ASSUME TypeOK, QuietInv, [Next]_vars PROVE TimeInv'
<1>0. TimeInv
  BY DEF QuietInv
<1>d. "exe" \in Targets /\ "exe" \in Products
  BY DEF Targets, Products
<1>1. ASSUME UNCHANGED <<now, mtime, guts, product>> PROVE TimeInv'
  BY <1>0, <1>1 DEF TimeInv
<1>2. CASE Tick
  BY <1>0, <1>2, <1>d, FieldTypes DEF Tick, work, TimeInv
<1>3. ASSUME NEW s \in {"script", "module"}, EditSource(s) PROVE TimeInv'
  <2>1. \A r \in Sources : mtime'[r] <= now
    BY <1>0, <1>3, FieldTypes DEF EditSource, TimeInv, TypeOK
  <2>2. QED
    BY <1>0, <1>3, <2>1 DEF EditSource, Changed, TimeInv
<1>4. CASE ChangeBinary
  <2>1. \A r \in Sources : mtime'[r] <= now
    BY <1>0, <1>4, FieldTypes DEF ChangeBinary, TimeInv, TypeOK
  <2>2. QED
    BY <1>0, <1>4, <2>1 DEF ChangeBinary, Changed, TimeInv
<1>5. CASE RemoveExe
  <2>1. \A p \in Products : product'[p] = product[p] \/ product'[p] = Missing
    BY <1>5 DEF RemoveExe, TypeOK
  <2>2. \A p \in Products : product'[p].mtime <= now
    BY <1>0, <2>1, FieldTypes DEF Missing, TimeInv
  <2>3. QED
    BY <1>0, <1>5, <2>2 DEF RemoveExe, Changed, TimeInv
<1>6. CASE Clean
  <2>1. \A p \in Products : product'[p] = product[p] \/ product'[p] = Missing
    BY <1>6 DEF Clean
  <2>2. \A p \in Products : product'[p].mtime <= now
    BY <1>0, <2>1, FieldTypes DEF Missing, TimeInv
  <2>3. \A t \in Targets : guts'[t] = NoGuts
    BY <1>6 DEF Clean
  <2>4. QED
    BY <1>0, <1>6, <1>d, <2>2, <2>3, FieldTypes DEF Clean, Changed, TimeInv, NoGuts
<1>7. ASSUME NEW t \in Targets, SaveGuts(t) PROVE TimeInv'
  <2>1. \A u \in Targets : guts'[u].mtime <= now
    BY <1>0, <1>7, SavedGuts, FieldTypes DEF TimeInv
  <2>2. guts'["exe"].mtm <= guts'["exe"].mtime
    BY <1>0, <1>7, <1>d, SavedGuts, FieldTypes DEF TimeInv
  <2>3. QED
    BY <1>0, <1>7, <2>1, <2>2 DEF SaveGuts, user, TimeInv
<1>8. ASSUME NEW t \in Products, Open(t) \/ Write(t) PROVE TimeInv'
  <2>1. \A p \in Products : product'[p].mtime <= now
    BY <1>0, <1>8, WrittenProduct, FieldTypes DEF TimeInv
  <2>2. UNCHANGED <<now, mtime, guts>>
    BY <1>8, WrittenProduct DEF user
  <2>3. QED
    BY <1>0, <2>1, <2>2 DEF TimeInv
<1>9. CASE Interrupted
  <2>1. \A u \in Targets : guts'[u] = guts[u] \/ guts'[u] = NoGuts
    BY <1>9, LostGuts
  <2>2. \A u \in Targets : guts'[u].mtime <= now
    BY <1>0, <2>1, FieldTypes DEF TimeInv, NoGuts
  <2>3. guts'["exe"].mtm <= guts'["exe"].mtime
    BY <1>0, <1>d, <2>1, FieldTypes DEF TimeInv, NoGuts
  <2>4. QED
    BY <1>0, <1>9, <2>2, <2>3 DEF Interrupted, Ends, user, TimeInv
<1>10. CASE UNCHANGED vars \/ Terminated \/ EditSpec \/ StartBuild \/ AssembleAnalysis
            \/ ProcessBinary \/ CacheStep \/ Collect \/ CacheFails
            \/ \E t \in Targets : UpToDate(t) \/ Rebuild(t)
  <2>1. UNCHANGED <<now, mtime, guts, product>>
    BY <1>10 DEF vars, user, work, Terminated, EditSpec, Changed, StartBuild,
       AssembleAnalysis, ProcessBinary, CacheStep, Collect, CacheFails, Ends,
       UpToDate, Rebuild
  <2>2. QED
    BY <1>1, <2>1
<1>11. QED
  BY <1>2, <1>3, <1>4, <1>5, <1>6, <1>7, <1>8, <1>9, <1>10 DEF Next

\* Whether targets are fresh depends on what it compares, only.
LEMMA FreshFrame ==
    ASSUME UNCHANGED <<guts, mtime, content, option, onefile>>
    PROVE  /\ AnalysisFresh' <=> AnalysisFresh
           /\ PyzFresh' <=> PyzFresh
           /\ product'["pyz"].mtime = product["pyz"].mtime => (PkgFresh' <=> PkgFresh)
           /\ UNCHANGED product => (ExeFresh' <=> ExeFresh)
<1>1. (AnalysisFresh' <=> AnalysisFresh) /\ (PyzFresh' <=> PyzFresh)
  BY DEF AnalysisFresh, PyzFresh, AnalysisOutdated, Newer, ScriptImports
<1>2. product'["pyz"].mtime = product["pyz"].mtime => (PkgFresh' <=> PkgFresh)
  BY <1>1 DEF PkgFresh, PkgOutdated, Newer
<1>3. UNCHANGED product => (ExeFresh' <=> ExeFresh)
  BY <1>1, <1>2 DEF ExeFresh, ExeOutdated
<1>4. QED
  BY <1>1, <1>2, <1>3

\* A step of the user ends whatever a finished build had settled.
LEMMA ChangedQuiet ==
    ASSUME QuietInv, Idle, Changed
    PROVE  BehindInv' /\ WorkInv' /\ target' = "none" /\ step' = "idle"
<1>1. target' = "none" /\ step' = "idle" /\ settled' = FALSE
  BY DEF QuietInv, BehindInv, Changed
<1>2. QED
  BY <1>1 DEF BehindInv, WorkInv, Idle, At

LEMMA SecondStep == ASSUME TypeOK, QuietInv, [Next]_vars PROVE SecondInv'
<1>0. SecondInv /\ TimeInv
  BY DEF QuietInv
<1>d. /\ "analysis" \in Targets /\ "pyz" \in Targets /\ "pkg" \in Targets /\ "exe" \in Targets
      /\ "pyz" \in Products /\ "pkg" \in Products /\ "exe" \in Products
      /\ "none" \notin Targets /\ "collect" \notin Targets
  BY DEF Targets, Products
<1>1. ASSUME UNCHANGED <<now, guts, product, target>>,
             step' = step \/ (~At("pyz", "save") /\ ~At("exe", "save"))'
      PROVE  SecondInv'
  BY <1>0, <1>1 DEF SecondInv, At
<1>2. CASE Tick
  BY <1>0, <1>2, <1>d, FieldTypes DEF Tick, work, SecondInv, At
<1>3. ASSUME target' = "none" PROVE SecondInv'
  BY <1>3, <1>d DEF SecondInv, At
<1>4. CASE (\E s \in {"script", "module"} : EditSource(s)) \/ ChangeBinary \/ EditSpec
           \/ RemoveExe \/ Clean
  BY <1>3, <1>4, ChangedQuiet DEF EditSource, ChangeBinary, EditSpec, RemoveExe, Clean
<1>5. CASE Collect \/ CacheFails \/ Interrupted
  BY <1>3, <1>5 DEF Collect, CacheFails, Interrupted, Ends
<1>6. CASE StartBuild
  BY <1>6, <1>d DEF StartBuild, LaterSecond, user, SecondInv, At
<1>7. ASSUME NEW t \in Targets, target = t, Proceed(t),
             UNCHANGED <<now, product>>, \A u \in Targets : u # t => guts'[u] = guts[u]
      PROVE  SecondInv'
  BY <1>0, <1>7, <1>d DEF Proceed, SecondInv, At, Targets
<1>8. ASSUME NEW t \in Targets, UpToDate(t) PROVE SecondInv'
  BY <1>7, <1>8 DEF UpToDate, user, work
<1>9. ASSUME NEW t \in Targets, SaveGuts(t) PROVE SecondInv'
  BY <1>7, <1>9, SavedGuts DEF SaveGuts, user, At
<1>10. ASSUME NEW t \in Products, Open(t) \/ Write(t) PROVE SecondInv'
  <2>1. /\ product'[t].mtime = now /\ target = t /\ UNCHANGED <<target, now, guts>>
        /\ \A u \in Products : u # t => product'[u] = product[u]
    BY <1>10, WrittenProduct DEF user
  <2>2. target \in Targets /\ t \in {"pyz", "pkg", "exe"}
    BY <2>1 DEF Targets, Products
  <2>3. guts["pkg"].mtime <= now /\ now > 0
    BY <1>0, <1>d, FieldTypes DEF TimeInv
  <2>4. QED
    BY <1>0, <2>1, <2>2, <2>3 DEF SecondInv, At
<1>11. CASE UNCHANGED vars \/ Terminated \/ AssembleAnalysis \/ ProcessBinary \/ CacheStep
            \/ \E t \in Targets : Rebuild(t)
  <2>1. UNCHANGED <<now, guts, product, target>>
    BY <1>11 DEF vars, user, work, Terminated, AssembleAnalysis, ProcessBinary, CacheStep,
       Rebuild
  <2>2. step' = step \/ (~At("pyz", "save") /\ ~At("exe", "save"))'
    BY <1>11 DEF vars, Terminated, AssembleAnalysis, ProcessBinary, CacheStep,
       Rebuild, At
  <2>3. QED
    BY <1>1, <2>1, <2>2
<1>12. QED
  BY <1>2, <1>4, <1>5, <1>6, <1>8, <1>9, <1>10, <1>11 DEF Next

LEMMA ImportStep == ASSUME TypeOK, QuietInv, [Next]_vars PROVE ImportInv'
<1>0. ImportInv
  BY DEF QuietInv
<1>d. "analysis" \in Targets /\ "script" \in Sources
  BY DEF Targets, Sources
<1>1. ASSUME UNCHANGED <<mtime, content>>, guts'["analysis"] = guts["analysis"]
      PROVE  ImportInv'
  BY <1>0, <1>1 DEF ImportInv, Newer, ScriptImports
<1>2. ASSUME NEW s \in {"script", "module"}, EditSource(s) PROVE ImportInv'
  <2>1. mtime' = [mtime EXCEPT ![s] = now] /\ guts' = guts
        /\ content' \in {[content EXCEPT ![s] = n] : n \in Moves(content[s], MaxContent)}
    BY <1>2 DEF EditSource
  <2>2. CASE s = "script"
    <3>1. mtime'["script"] = now /\ now > guts["analysis"].mtime
      BY <1>2, <2>1, <2>2, <1>d DEF TypeOK, EditSource, LaterSecond
    <3>2. QED
      BY <2>1, <3>1 DEF ImportInv, Newer
  <2>3. CASE s = "module"
    <3>1. mtime'["script"] = mtime["script"] /\ content'["script"] = content["script"]
      BY <2>1, <2>3, <1>d DEF TypeOK
    <3>2. QED
      BY <1>0, <2>1, <3>1 DEF ImportInv, Newer, ScriptImports
  <2>4. QED
    BY <2>2, <2>3
<1>3. CASE ChangeBinary
  <2>1. mtime'["script"] = mtime["script"]
    BY <1>3 DEF ChangeBinary, TypeOK, Sources
  <2>2. QED
    BY <1>0, <1>3, <2>1 DEF ChangeBinary, ImportInv, Newer, ScriptImports
<1>4. CASE Clean
  BY <1>4, <1>d DEF Clean, ImportInv
<1>5. ASSUME NEW t \in Targets, SaveGuts(t) PROVE ImportInv'
  <2>1. CASE t = "analysis"
    <3>1. guts'["analysis"].pure <=> pure
      BY <1>5, <2>1, SavedGuts
    <3>2. pure <=> ScriptImports
      BY <1>5, <2>1 DEF SaveGuts, QuietInv, BehindInv, At
    <3>3. QED
      BY <1>5, <3>1, <3>2 DEF SaveGuts, user, ImportInv, ScriptImports
  <2>2. CASE t # "analysis"
    BY <1>1, <1>5, <1>d, <2>2, SavedGuts DEF SaveGuts, user
  <2>3. QED
    BY <2>1, <2>2
<1>6. ASSUME NEW t \in Products, Open(t) \/ Write(t) PROVE ImportInv'
  BY <1>1, <1>6, WrittenProduct DEF user
<1>7. CASE Interrupted
  <2>1. guts'["analysis"] = guts["analysis"] \/ guts'["analysis"] = NoGuts
    BY <1>7, <1>d, LostGuts
  <2>2. QED
    BY <1>1, <1>7, <2>1 DEF Interrupted, Ends, user, ImportInv
<1>8. CASE UNCHANGED vars \/ Terminated \/ Tick \/ EditSpec \/ RemoveExe \/ StartBuild
           \/ AssembleAnalysis \/ ProcessBinary \/ CacheStep \/ Collect \/ CacheFails
           \/ \E t \in Targets : UpToDate(t) \/ Rebuild(t)
  <2>1. UNCHANGED <<mtime, content, guts>>
    BY <1>8 DEF vars, user, work, Terminated, Tick, EditSpec, RemoveExe, StartBuild,
       AssembleAnalysis, ProcessBinary, CacheStep, Collect, CacheFails, Ends,
       UpToDate, Rebuild
  <2>2. QED
    BY <1>1, <2>1
<1>9. QED
  BY <1>2, <1>3, <1>4, <1>5, <1>6, <1>7, <1>8 DEF Next

\* A target of a build that has the right list is outdated if its guts, or a
\* target before it, say so, and in no other case.
LEMMA OutdatedIsStale ==
    ASSUME TypeOK, QuietInv, NEW t \in Targets, target = t
    PROVE  /\ t = "analysis" => (Outdated(t) <=> ~AnalysisFresh)
           /\ t = "pyz" => (Outdated(t) <=> ~PyzFresh)
           /\ t = "pkg" => (Outdated(t) <=> ~PkgFresh)
           /\ t = "exe" => (Outdated(t) <=> ~ExeFresh)
<1>1. t = "analysis" => (Outdated(t) <=> ~AnalysisFresh)
  BY DEF Outdated, AnalysisFresh
<1>2. ASSUME t = "pyz" PROVE Outdated(t) <=> ~PyzFresh
  <2>1. pure <=> ScriptImports
    BY <1>2 DEF QuietInv, BehindInv
  <2>2. pure \in BOOLEAN /\ guts["pyz"].pure \in BOOLEAN
    BY FieldTypes DEF TypeOK, Targets
  <2>3. (guts["pyz"].pure # pure) <=> ~(guts["pyz"].pure <=> ScriptImports)
    BY <2>1, <2>2
  <2>4. QED
    BY <1>2, <2>1, <2>3 DEF Outdated, PyzOutdated, PyzFresh
<1>3. ASSUME t = "pkg" PROVE Outdated(t) <=> ~PkgFresh
  BY <1>3 DEF QuietInv, BehindInv, Outdated, PkgFresh
<1>4. ASSUME t = "exe" PROVE Outdated(t) <=> ~ExeFresh
  BY <1>4 DEF QuietInv, BehindInv, Outdated, ExeFresh
<1>5. QED
  BY <1>1, <1>2, <1>3, <1>4

\* A target whose guts have been saved is fresh, if those behind it are.
LEMMA SavedIsFresh ==
    ASSUME TypeOK, QuietInv, NEW t \in Targets, SaveGuts(t)
    PROVE  /\ t = "analysis" => AnalysisFresh'
           /\ t = "pyz" => AnalysisFresh' /\ PyzFresh'
           /\ t = "pkg" => AnalysisFresh' /\ PyzFresh' /\ PkgFresh'
           /\ t = "exe" => AnalysisFresh' /\ PyzFresh' /\ PkgFresh' /\ ExeFresh'
<1>d. /\ "analysis" \in Targets /\ "pyz" \in Targets /\ "pkg" \in Targets /\ "exe" \in Targets
      /\ "pyz" \in Products /\ "pkg" \in Products /\ "exe" \in Products
      /\ "script" \in Sources /\ "module" \in Sources /\ "binary" \in Sources
  BY DEF Targets, Products, Sources
<1>1. /\ At(t, "save") /\ UNCHANGED <<now, mtime, content, option, onefile, product>>
      /\ guts'[t].mtime = now /\ guts'[t] # NoGuts
      /\ t \in {"analysis", "pyz"} => (guts'[t].pure <=> pure)
      /\ t \in {"pkg", "exe"} => guts'[t].option = option
      /\ guts'[t].mtm = IF t = "exe" THEN product["exe"].mtime ELSE 0
      /\ \A u \in Targets : u # t => guts'[u] = guts[u]
  BY SavedGuts DEF SaveGuts, user
<1>2. /\ pure <=> ScriptImports
      /\ t \in {"pyz", "pkg", "exe"} => AnalysisFresh
      /\ t \in {"pkg", "exe"} => PyzFresh
      /\ t = "exe" => PkgFresh
  BY <1>1 DEF QuietInv, BehindInv, At, Targets
<1>3. /\ \A s \in Sources : ~(mtime[s] > now)
      /\ \A p \in Products : ~(product[p].mtime > now)
  BY FieldTypes DEF QuietInv, TimeInv
<1>4. t = "analysis" => AnalysisFresh'
  BY <1>1, <1>3, <1>d DEF AnalysisFresh, AnalysisOutdated, Newer
<1>5. t \in {"pyz", "pkg", "exe"} => AnalysisFresh'
  BY <1>1, <1>2, <1>d DEF AnalysisFresh, AnalysisOutdated, Newer
<1>6. t = "pyz" => PyzFresh'
  BY <1>1, <1>2, <1>3, <1>d DEF PyzFresh, Newer, ScriptImports
<1>7. t \in {"pkg", "exe"} => PyzFresh'
  BY <1>1, <1>2, <1>d DEF PyzFresh, Newer, ScriptImports
<1>8. t = "pkg" => PkgFresh'
  BY <1>1, <1>3, <1>7, <1>d DEF PkgFresh, PkgOutdated, Newer
<1>9. t = "exe" => PkgFresh'
  BY <1>1, <1>2, <1>7, <1>d DEF PkgFresh, PkgOutdated, Newer
<1>10. ASSUME t = "exe" PROVE ExeFresh'
  <2>1. product["exe"].mtime # 0 /\ guts["pkg"].mtime <= product["exe"].mtime
    BY <1>1, <1>10 DEF QuietInv, SecondInv
  <2>2. product["exe"] # Missing
    BY <2>1 DEF Missing
  <2>3. guts["pkg"].mtime <= now
    BY <1>d DEF QuietInv, TimeInv
  <2>4. ~ExeOutdated'
    BY <1>1, <1>10, <1>d, <2>1, <2>2, <2>3, FieldTypes DEF ExeOutdated
  <2>5. QED
    BY <1>1, <1>9, <1>10, <2>4 DEF ExeFresh
<1>11. QED
  BY <1>4, <1>5, <1>6, <1>7, <1>8, <1>9, <1>10

\* Opening a product, or writing it, does not touch what is behind the target.
LEMMA WrittenIsStale ==
    ASSUME TypeOK, QuietInv, NEW t \in Products, Open(t) \/ Write(t)
    PROVE  /\ AnalysisFresh' <=> AnalysisFresh
           /\ PyzFresh' <=> PyzFresh
           /\ t # "pyz" => (PkgFresh' <=> PkgFresh)
           /\ ~ExeFresh /\ ~ExeFresh' /\ (t = "pyz" => ~PyzFresh) /\ (t = "pkg" => ~PkgFresh)
<1>d. /\ "pyz" \in Products /\ "exe" \in Products /\ "exe" \in Targets
      /\ Products \subseteq Targets
  BY DEF Targets, Products
<1>1. /\ product'[t].mtime = now /\ target = t
      /\ \A u \in Products : u # t => product'[u] = product[u]
      /\ step \in {"assemble", "process", "write"}
      /\ UNCHANGED <<guts, mtime, content, option, onefile>>
  BY WrittenProduct DEF user
<1>2. /\ AnalysisFresh' <=> AnalysisFresh
      /\ PyzFresh' <=> PyzFresh
  BY <1>1, FreshFrame
<1>3. t # "pyz" => (PkgFresh' <=> PkgFresh)
  BY <1>1, <1>d, FreshFrame
<1>4. /\ t = "pyz" => ~PyzFresh
      /\ t = "pkg" => ~PkgFresh
      /\ t = "exe" => ~ExeFresh
  BY <1>1 DEF QuietInv, WorkInv
<1>5. t = "exe" => ~ExeFresh'
  <2>1. guts["exe"].mtm < now
    BY <1>1, <1>d, FieldTypes DEF QuietInv, TimeInv, SecondInv
  <2>2. QED
    BY <1>1, <2>1, FieldTypes DEF ExeFresh, ExeOutdated
<1>6. ~ExeFresh
  BY <1>4 DEF ExeFresh, PkgFresh, Products
<1>7. ~ExeFresh'
  BY <1>2, <1>3, <1>4, <1>5 DEF ExeFresh, PkgFresh, Products
<1>8. QED
  BY <1>2, <1>3, <1>4, <1>6, <1>7

LEMMA BehindStep == ASSUME TypeOK, QuietInv, [Next]_vars PROVE BehindInv' /\ WorkInv'
<1>0. BehindInv /\ WorkInv
  BY DEF QuietInv
<1>d. /\ {"analysis", "pyz", "pkg", "exe"} = Targets /\ Products = {"pyz", "pkg", "exe"}
      /\ "none" \notin Targets /\ "collect" \notin Targets
  BY DEF Targets, Products
\* If a build is settled, nothing can be outdated.
<1>s. settled => ExeFresh /\ PkgFresh /\ PyzFresh /\ AnalysisFresh
  BY <1>0 DEF BehindInv, ExeFresh, PkgFresh
\* Where nothing that is compared changes, so does nothing else.
<1>f. ASSUME UNCHANGED <<guts, mtime, content, option, onefile, product>>
      PROVE  /\ AnalysisFresh' <=> AnalysisFresh
             /\ PyzFresh' <=> PyzFresh
             /\ PkgFresh' <=> PkgFresh
             /\ ExeFresh' <=> ExeFresh
             /\ ScriptImports' <=> ScriptImports
  BY <1>f, FreshFrame DEF ScriptImports
<1>1. CASE UNCHANGED vars \/ Terminated \/ Tick \/ CacheStep
  <2>1. UNCHANGED <<guts, mtime, content, option, onefile, product, target, step, pure,
                    settled>>
    BY <1>1 DEF vars, user, work, Terminated, Tick, CacheStep
  <2>2. QED
    BY <1>0, <1>f, <2>1 DEF BehindInv, WorkInv, Idle, At
<1>2. CASE (\E s \in {"script", "module"} : EditSource(s)) \/ ChangeBinary \/ EditSpec
           \/ RemoveExe \/ Clean
  BY <1>2, ChangedQuiet DEF EditSource, ChangeBinary, EditSpec, RemoveExe, Clean
<1>3. CASE StartBuild
  <2>1. /\ target' = "analysis" /\ step' = "check" /\ settled' = settled
        /\ UNCHANGED <<guts, mtime, content, option, onefile, product>>
    BY <1>3 DEF StartBuild, user
  <2>2. QED
    BY <1>0, <1>f, <2>1 DEF BehindInv, WorkInv, Idle, At
\* The target is fresh, and the build proceeds.
<1>4. ASSUME NEW t \in Targets, target = t, Proceed(t), pure' <=> ScriptImports',
             AnalysisFresh', t \in {"pyz", "pkg", "exe"} => PyzFresh',
             t \in {"pkg", "exe"} => PkgFresh', t = "exe" => ExeFresh',
             settled => ExeFresh'
      PROVE  BehindInv' /\ WorkInv'
  BY <1>4, <1>d DEF Proceed, BehindInv, WorkInv, Idle, At
<1>5. ASSUME NEW t \in Targets, UpToDate(t) PROVE BehindInv' /\ WorkInv'
  <2>1. /\ target = t /\ ~Outdated(t) /\ Proceed(t)
        /\ UNCHANGED <<guts, mtime, content, option, onefile, product>>
        /\ pure' = IF t = "analysis" THEN guts["analysis"].pure ELSE pure
    BY <1>5 DEF UpToDate, user, work
  <2>2. /\ t = "analysis" => AnalysisFresh
        /\ t = "pyz" => PyzFresh
        /\ t = "pkg" => PkgFresh
        /\ t = "exe" => ExeFresh
    BY <2>1, OutdatedIsStale
  <2>3. /\ AnalysisFresh
        /\ t \in {"pyz", "pkg", "exe"} => PyzFresh
        /\ t \in {"pkg", "exe"} => PkgFresh
        /\ t = "exe" => ExeFresh
    BY <1>0, <1>d, <2>1, <2>2 DEF BehindInv
  <2>4. CASE t = "analysis"
    <3>1. guts["analysis"].pure <=> ScriptImports
      BY <2>3 DEF QuietInv, ImportInv, AnalysisFresh, AnalysisOutdated
    <3>2. QED
      BY <1>4, <1>f, <1>s, <2>1, <2>3, <2>4, <3>1
  <2>5. CASE t # "analysis"
    <3>1. pure <=> ScriptImports
      BY <1>0, <1>d, <2>1, <2>5 DEF BehindInv
    <3>2. QED
      BY <1>4, <1>f, <1>s, <2>1, <2>3, <2>5, <3>1
  <2>6. QED
    BY <2>4, <2>5
<1>6. ASSUME NEW t \in Targets, SaveGuts(t) PROVE BehindInv' /\ WorkInv'
  <2>1. /\ target = t /\ step = "save" /\ Proceed(t) /\ pure' = pure
        /\ UNCHANGED content
    BY <1>6 DEF SaveGuts, user, At
  <2>2. pure' <=> ScriptImports'
    BY <1>0, <1>d, <2>1 DEF BehindInv, ScriptImports, At
  <2>3. ~settled
    BY <1>0, <1>d, <1>s, <2>1 DEF WorkInv
  <2>4. QED
    BY <1>4, <1>6, <1>d, <2>1, <2>2, <2>3, SavedIsFresh
<1>7. ASSUME NEW t \in Targets, Rebuild(t) PROVE BehindInv' /\ WorkInv'
  <2>1. /\ target = t /\ step = "check" /\ step' = "assemble" /\ Outdated(t)
        /\ UNCHANGED <<guts, mtime, content, option, onefile, product, target, pure, settled>>
    BY <1>7 DEF Rebuild, user, work
  <2>2. /\ t = "analysis" => ~AnalysisFresh
        /\ t = "pyz" => ~PyzFresh
        /\ t = "pkg" => ~PkgFresh
        /\ t = "exe" => ~ExeFresh
    BY <2>1, OutdatedIsStale
  <2>3. WorkInv'
    BY <1>d, <1>f, <2>1, <2>2 DEF WorkInv
  <2>4. BehindInv'
    BY <1>0, <1>d, <1>f, <2>1 DEF BehindInv, Idle, At
  <2>5. QED
    BY <2>3, <2>4
<1>8. CASE AssembleAnalysis
  <2>1. /\ target = "analysis" /\ step = "assemble" /\ step' = "save"
        /\ (pure' <=> ScriptImports)
        /\ UNCHANGED <<guts, mtime, content, option, onefile, product, target, settled>>
    BY <1>8 DEF AssembleAnalysis, user, work, At, ScriptImports
  <2>2. QED
    BY <1>0, <1>f, <2>1 DEF BehindInv, WorkInv, Idle, At
<1>9. CASE ProcessBinary
  <2>1. /\ target \in {"pkg", "collect"} /\ step = "assemble" /\ step' = "process"
        /\ UNCHANGED <<guts, mtime, content, option, onefile, product, target, pure, settled>>
    BY <1>9 DEF ProcessBinary, user, work, At
  <2>2. QED
    BY <1>0, <1>f, <2>1 DEF BehindInv, WorkInv, Idle, At
<1>10. ASSUME NEW t \in Products, Open(t) \/ Write(t) PROVE BehindInv' /\ WorkInv'
  <2>1. /\ target = t /\ target' = t /\ UNCHANGED <<pure, settled, content>>
        /\ step \in {"assemble", "process", "write"} /\ step' \in {"write", "save"}
    BY <1>10, WrittenProduct DEF user
  <2>2. /\ AnalysisFresh' <=> AnalysisFresh
        /\ PyzFresh' <=> PyzFresh
        /\ t # "pyz" => (PkgFresh' <=> PkgFresh)
        /\ ~ExeFresh' /\ (t = "pyz" => ~PyzFresh) /\ (t = "pkg" => ~PkgFresh) /\ ~ExeFresh
    BY <1>10, WrittenIsStale
  <2>3. ScriptImports' <=> ScriptImports
    BY <2>1 DEF ScriptImports
  <2>4. ~settled
    BY <1>s, <2>2
  <2>5. WorkInv'
    BY <1>d, <2>1, <2>2 DEF WorkInv
  <2>6. BehindInv'
    BY <1>0, <1>d, <2>1, <2>2, <2>3, <2>4 DEF BehindInv, Idle, At
  <2>7. QED
    BY <2>5, <2>6
<1>11. CASE Collect
  <2>1. /\ target = "collect" /\ target' = "none" /\ step' = "done"
        /\ UNCHANGED <<guts, mtime, content, option, onefile, product>>
    BY <1>11 DEF Collect, user, At
  <2>2. AnalysisFresh' /\ ExeFresh'
    BY <1>0, <1>f, <2>1 DEF BehindInv
  <2>3. QED
    BY <2>1, <2>2 DEF BehindInv, WorkInv, Idle, At
\* A build that fails was not settled, unless it was at its COLLECT.
<1>12. ASSUME Ends, settled => UNCHANGED guts PROVE BehindInv' /\ WorkInv'
  <2>1. target' = "none" /\ step' = "idle" /\ settled' = settled
    BY <1>12 DEF Ends
  <2>2. settled => AnalysisFresh' /\ ExeFresh'
    BY <1>12, <1>f, <1>s DEF Ends, user
  <2>3. QED
    BY <2>1, <2>2 DEF BehindInv, WorkInv, Idle, At
<1>13. CASE CacheFails
  BY <1>12, <1>13 DEF CacheFails
<1>14. CASE Interrupted
  <2>1. guts' = guts \/ step = "save"
    BY <1>14, LostGuts
  <2>2. step = "save" => target \in Targets
    BY <1>0 DEF TypeOK, BehindInv, Idle
  <2>3. step = "save" => ~settled
    BY <1>0, <1>d, <1>s, <2>2 DEF WorkInv
  <2>4. QED
    BY <1>12, <1>14, <2>1, <2>3 DEF Interrupted
<1>15. QED
  BY <1>1, <1>2, <1>3, <1>5, <1>6, <1>7, <1>8, <1>9, <1>10, <1>11, <1>13, <1>14 DEF Next

\* The invariant of the times holds in every reachable state.
THEOREM TimesAreOrdered == Spec => []QuietInv
<1>1. Init => QuietInv
  BY QuietInit
<1>2. TypeOK /\ QuietInv /\ [Next]_vars => QuietInv'
  BY TimeStep, SecondStep, ImportStep, BehindStep DEF QuietInv
<1>3. QED
  BY <1>1, <1>2, TypeCorrect, PTL DEF Spec

\* What a finished build has made is not made again as long as nothing changes,
\* for every history of interrupted builds and of sources, even if these go
\* back (_check_guts of the targets, with last_build and mtm).
THEOREM SettledIsQuiet == Spec => []QuietIfSettled
<1>1. TypeOK /\ QuietInv => QuietIfSettled
  <2> SUFFICES ASSUME TypeOK, QuietInv, settled, step \in {"assemble", "process", "write", "save"}
               PROVE  target = "collect"
    BY DEF QuietIfSettled
  <2>1. ExeFresh /\ PkgFresh /\ PyzFresh /\ AnalysisFresh
    BY DEF QuietInv, BehindInv, ExeFresh, PkgFresh
  <2>2. target \notin {"analysis", "pyz", "pkg", "exe", "none"}
    BY <2>1 DEF QuietInv, BehindInv, WorkInv, Idle
  <2>3. QED
    BY <2>2 DEF TypeOK, Targets
<1>2. QED
  BY <1>1, TypeCorrect, TimesAreOrdered, PTL

-----------------------------------------------------------------------------
(* Why a finished build is current: what fresh targets contain.            *)

\* Whether the script imports the module does not go back to what it was.
ListsMoveOn ==
    \A i, j, k \in 1..MaxContent :
        i < j /\ j < k /\ (i \in Importing <=> k \in Importing)
            => (i \in Importing <=> j \in Importing)

ModuleContent == IF ScriptImports THEN content["module"] ELSE 0
Processed == [content |-> source, processed |-> TRUE]
PkgContent == [module |-> ModuleContent, script |-> content["script"], option |-> option,
               binary |-> IF onefile THEN Processed ELSE NoBinary]

\* A target that is fresh, or whose guts are about to say so, was made of what
\* there is now.
ContentInv ==
    /\ PyzFresh \/ At("pyz", "save") => product["pyz"].content.module = ModuleContent
    /\ PkgFresh \/ At("pkg", "save") => product["pkg"].content = PkgContent
    /\ ExeFresh \/ At("exe", "save") => product["exe"].content = PkgContent
    /\ At("pkg", "write") /\ onefile => file = Processed
    /\ step = "done" /\ ~onefile => dist.program = CleanBuild

\* The saved lists and options are those of the sources now, or of older ones.
HistoryInv ==
    /\ guts["pyz"] # NoGuts =>
           \E c \in 1..MaxContent : /\ c <= content["script"]
                                    /\ guts["pyz"].pure <=> (c \in Importing)
    /\ guts["pkg"].option <= option /\ guts["exe"].option <= option

CurrentInv == ContentInv /\ HistoryInv

LEMMA CurrentInit == Init => CurrentInv
<1> SUFFICES ASSUME Init PROVE CurrentInv
  OBVIOUS
<1>1. /\ \A t \in Targets : guts[t] = NoGuts
      /\ target = "none" /\ step = "idle" /\ option = 1
  BY DEF Init
<1>2. ContentInv
  BY <1>1 DEF ContentInv, PyzFresh, PkgFresh, ExeFresh, Targets, At
<1>3. HistoryInv
  BY <1>1 DEF HistoryInv, Targets, NoGuts
<1>4. QED
  BY <1>2, <1>3 DEF CurrentInv

LEMMA HistoryStep ==
    ASSUME ~Reverts, TypeOK, QuietInv, HistoryInv, [Next]_vars
    PROVE  HistoryInv'
<1>d. /\ "pyz" \in Targets /\ "pkg" \in Targets /\ "exe" \in Targets
  BY DEF Targets
<1>1. ASSUME guts'["pyz"] = guts["pyz"] \/ guts'["pyz"] = NoGuts,
             guts'["pkg"].option \in {guts["pkg"].option, 0, option},
             guts'["exe"].option \in {guts["exe"].option, 0, option},
             content'["script"] \in Nat, content'["script"] >= content["script"],
             option' \in Nat, option' >= option
      PROVE  HistoryInv'
  <2>1. ASSUME guts'["pyz"] # NoGuts
        PROVE  \E c \in 1..MaxContent : /\ c <= content'["script"]
                                        /\ guts'["pyz"].pure <=> (c \in Importing)
    <3>1. guts'["pyz"] = guts["pyz"]
      BY <1>1, <2>1
    <3>2. PICK c \in 1..MaxContent : /\ c <= content["script"]
                                     /\ guts["pyz"].pure <=> (c \in Importing)
      BY <2>1, <3>1 DEF HistoryInv
    <3>3. c <= content'["script"] /\ (guts'["pyz"].pure <=> (c \in Importing))
      BY <1>1, <3>1, <3>2, FieldTypes
    <3>4. QED
      BY <3>3
  <2>2. guts'["pkg"].option <= option' /\ guts'["exe"].option <= option'
    BY <1>1, <1>d, FieldTypes DEF HistoryInv
  <2>3. QED
    BY <2>1, <2>2 DEF HistoryInv
<1>2. content["script"] \in Nat /\ option \in Nat
  BY FieldTypes
<1>3. ASSUME NEW s \in {"script", "module"}, EditSource(s) PROVE HistoryInv'
  <2>1. PICK n \in Moves(content[s], MaxContent) : content' = [content EXCEPT ![s] = n]
    BY <1>3 DEF EditSource
  <2>2. n \in Nat /\ n > content[s]
    BY DEF Moves
  <2>3. content'["script"] = content["script"] \/ (s = "script" /\ content'["script"] = n)
    BY <2>1 DEF TypeOK
  <2>4. content'["script"] \in Nat /\ content'["script"] >= content["script"]
    BY <1>2, <2>2, <2>3
  <2>5. UNCHANGED <<guts, option>>
    BY <1>3 DEF EditSource
  <2>6. QED
    BY <1>1, <1>2, <2>4, <2>5
<1>4. CASE EditSpec
  <2>1. option' \in Nat /\ option' > option /\ UNCHANGED <<guts, content>>
    BY <1>4 DEF EditSpec, Moves
  <2>2. QED
    BY <1>1, <1>2, <2>1
<1>5. CASE Clean
  <2>1. /\ guts'["pyz"] = NoGuts /\ guts'["pkg"] = NoGuts /\ guts'["exe"] = NoGuts
        /\ UNCHANGED <<content, option>>
    BY <1>5, <1>d DEF Clean
  <2>2. QED
    BY <1>1, <1>2, <2>1 DEF NoGuts
<1>6. ASSUME NEW t \in Targets, SaveGuts(t) PROVE HistoryInv'
  <2>0. UNCHANGED <<content, option>>
    BY <1>6 DEF SaveGuts, user
  <2>1. CASE t = "pyz"
    <3>1. guts'["pyz"].pure <=> (content["script"] \in Importing)
      BY <1>6, <2>1, SavedGuts DEF SaveGuts, At, QuietInv, BehindInv, ScriptImports
    <3>2. \E c \in 1..MaxContent : /\ c <= content'["script"]
                                   /\ guts'["pyz"].pure <=> (c \in Importing)
      BY <1>2, <2>0, <3>1, FieldTypes
    <3>3. guts'["pkg"] = guts["pkg"] /\ guts'["exe"] = guts["exe"]
      BY <1>6, <1>d, <2>1, SavedGuts
    <3>4. QED
      BY <2>0, <3>2, <3>3 DEF HistoryInv
  <2>2. CASE t # "pyz"
    <3>1. /\ guts'["pyz"] = guts["pyz"]
          /\ guts'["pkg"].option \in {guts["pkg"].option, option}
          /\ guts'["exe"].option \in {guts["exe"].option, option}
      BY <1>6, <1>d, <2>2, SavedGuts
    <3>2. QED
      BY <1>1, <1>2, <2>0, <3>1
  <2>3. QED
    BY <2>1, <2>2
<1>7. CASE Interrupted
  <2>1. \A t \in Targets : guts'[t] = guts[t] \/ guts'[t] = NoGuts
    BY <1>7, LostGuts
  <2>2. UNCHANGED <<content, option>>
    BY <1>7 DEF Interrupted, Ends, user
  <2>3. QED
    BY <1>1, <1>2, <1>d, <2>1, <2>2 DEF NoGuts
<1>8. ASSUME NEW t \in Products, Open(t) \/ Write(t) PROVE HistoryInv'
  BY <1>1, <1>2, <1>8, WrittenProduct DEF user
<1>9. CASE UNCHANGED vars \/ Terminated \/ Tick \/ ChangeBinary \/ RemoveExe \/ StartBuild
           \/ AssembleAnalysis \/ ProcessBinary \/ CacheStep \/ Collect \/ CacheFails
           \/ \E t \in Targets : UpToDate(t) \/ Rebuild(t)
  <2>1. UNCHANGED <<guts, content, option>>
    BY <1>9 DEF vars, user, work, Terminated, Tick, ChangeBinary, RemoveExe, StartBuild,
       AssembleAnalysis, ProcessBinary, CacheStep, Collect, CacheFails, Ends,
       UpToDate, Rebuild
  <2>2. QED
    BY <1>1, <1>2, <2>1
<1>10. QED
  BY <1>3, <1>4, <1>5, <1>6, <1>7, <1>8, <1>9 DEF Next

\* A change of the script leaves the PYZ fresh only if the list is what it was.
LEMMA ListStays ==
    ASSUME ListsMoveOn, ~Reverts, TypeOK, HistoryInv, EditSource("script"), PyzFresh'
    PROVE  ScriptImports' <=> ScriptImports
<1> DEFINE old == content["script"]
           new == content'["script"]
<1>1. new \in 1..MaxContent /\ old \in 1..MaxContent /\ old < new
  BY FieldTypes DEF EditSource, Moves, TypeOK
<1>2. guts["pyz"] # NoGuts /\ (guts["pyz"].pure <=> (new \in Importing))
  BY DEF EditSource, PyzFresh, ScriptImports
<1>3. PICK c \in 1..MaxContent : /\ c <= old
                                 /\ guts["pyz"].pure <=> (c \in Importing)
  BY <1>2 DEF HistoryInv
<1>4. (c \in Importing) <=> (new \in Importing)
  BY <1>2, <1>3
<1> HIDE DEF old, new
<1>5. (old \in Importing) <=> (new \in Importing)
  <2>1. CASE c = old
    BY <1>4, <2>1
  <2>2. CASE c < old
    BY <1>1, <1>4, <2>2 DEF ListsMoveOn
  <2>3. QED
    BY <1>1, <1>3, <2>1, <2>2
<1>6. QED
  BY <1>5 DEF ScriptImports, old, new

\* A change of a source, or of an option, leaves nothing fresh that it comes
\* into.
LEMMA EditedIsStale ==
    ASSUME ListsMoveOn, ~Reverts, TypeOK, HistoryInv,
           (\E s \in {"script", "module"} : EditSource(s)) \/ ChangeBinary \/ EditSpec
    PROVE  /\ PyzFresh' => PyzFresh /\ ModuleContent' = ModuleContent
           /\ PkgFresh' => PkgFresh /\ PkgContent' = PkgContent
           /\ ExeFresh' => ExeFresh
<1>d. /\ \A t \in {"pyz", "pkg", "exe"} : t \in Targets
      /\ \A s \in {"script", "module", "binary"} : s \in Sources
  BY DEF Targets, Sources
<1>1. /\ LaterSecond /\ UNCHANGED <<guts, product, now, onefile>>
  BY DEF EditSource, ChangeBinary, EditSpec, Changed
<1>2. \A t \in Targets : guts[t].mtime < now
  BY <1>1 DEF LaterSecond
<1>3. CASE EditSource("script")
  <2>1. /\ mtime'["script"] = now /\ mtime'["module"] = mtime["module"]
        /\ content'["module"] = content["module"]
    BY <1>3 DEF EditSource, TypeOK, Sources
  <2>2. ~PkgFresh' /\ ~ExeFresh'
    BY <1>1, <1>2, <1>d, <2>1 DEF PkgFresh, PkgOutdated, ExeFresh, Newer
  <2>3. ASSUME PyzFresh' PROVE PyzFresh /\ ModuleContent' = ModuleContent
    <3>1. ScriptImports' <=> ScriptImports
      BY <1>3, <2>3, ListStays
    <3>2. QED
      BY <1>1, <2>1, <2>3, <3>1 DEF PyzFresh, ModuleContent, Newer
  <2>4. QED
    BY <2>2, <2>3
<1>4. CASE EditSource("module")
  <2>1. /\ mtime'["module"] = now /\ mtime'["script"] = mtime["script"]
        /\ mtime'["binary"] = mtime["binary"]
        /\ content'["script"] = content["script"] /\ UNCHANGED <<option, source>>
    BY <1>4 DEF EditSource, TypeOK, Sources, cache
  <2>2. ScriptImports' <=> ScriptImports
    BY <2>1 DEF ScriptImports
  <2>3. ScriptImports => ~PyzFresh'
    BY <1>1, <1>2, <1>d, <2>1, <2>2 DEF PyzFresh, Newer
  <2>4. ~ScriptImports => ModuleContent' = ModuleContent /\ (PyzFresh' => PyzFresh)
    BY <1>1, <2>1, <2>2 DEF PyzFresh, ModuleContent
  <2>5. ~ScriptImports => PkgContent' = PkgContent
    BY <1>1, <2>1, <2>4 DEF PkgContent, Processed
  <2>6. ~PkgOutdated' => ~PkgOutdated
    BY <1>1, <2>1 DEF PkgOutdated, Newer
  <2>7. ~ExeOutdated' => ~ExeOutdated
    BY <1>1, <2>1 DEF ExeOutdated
  <2>8. QED
    BY <1>1, <2>3, <2>4, <2>5, <2>6, <2>7 DEF PkgFresh, ExeFresh
<1>5. CASE ChangeBinary
  <2>1. /\ mtime'["binary"] = now /\ mtime'["module"] = mtime["module"]
        /\ mtime'["script"] = mtime["script"] /\ UNCHANGED <<content, option>>
    BY <1>5 DEF ChangeBinary, TypeOK, Sources
  <2>2. (ScriptImports' <=> ScriptImports) /\ ModuleContent' = ModuleContent
    BY <2>1 DEF ScriptImports, ModuleContent
  <2>3. PyzFresh' => PyzFresh
    BY <1>1, <2>1, <2>2 DEF PyzFresh, Newer
  <2>4. onefile => ~PkgFresh'
    BY <1>1, <1>2, <1>d, <2>1 DEF PkgFresh, PkgOutdated, Newer
  <2>5. ~onefile => PkgContent' = PkgContent
    BY <1>1, <2>1, <2>2 DEF PkgContent
  <2>6. ~onefile => (~PkgOutdated' => ~PkgOutdated)
    BY <1>1, <2>1 DEF PkgOutdated, Newer
  <2>7. ~ExeOutdated' => ~ExeOutdated
    BY <1>1, <2>1 DEF ExeOutdated
  <2>8. QED
    BY <1>1, <2>2, <2>3, <2>4, <2>5, <2>6, <2>7 DEF PkgFresh, ExeFresh
<1>6. CASE EditSpec
  <2>1. option' \in Nat /\ option' > option /\ UNCHANGED <<content, mtime>>
    BY <1>6 DEF EditSpec, Moves
  <2>2. guts["pkg"].option # option'
    BY <1>d, <2>1, FieldTypes DEF HistoryInv
  <2>3. ~PkgFresh' /\ ~ExeFresh'
    BY <1>1, <2>2 DEF PkgFresh, PkgOutdated, ExeFresh
  <2>4. (PyzFresh' => PyzFresh) /\ ModuleContent' = ModuleContent
    BY <1>1, <2>1 DEF PyzFresh, ModuleContent, ScriptImports, Newer
  <2>5. QED
    BY <2>3, <2>4
<1>7. QED
  BY <1>3, <1>4, <1>5, <1>6

\* What is collected from the cache is the binary as it is now.
LEMMA CollectedIsProcessed ==
    ASSUME CollectedIsCurrent, Cache!Collect
    PROVE  file = Processed /\ UNCHANGED <<file, source>>
BY DEF CollectedIsCurrent, Cache!CollectedIsCurrent, Cache!Collect, Cache!disk, Processed

\* Only the user changes the binary.
LEMMA SourceStays ==
    /\ CacheStep => UNCHANGED source
    /\ CacheFails => UNCHANGED source
    /\ Interrupted => UNCHANGED source
    /\ ProcessBinary => UNCHANGED source
<1>1. CacheStep => UNCHANGED source
  BY DEF CacheStep, Cache!LoadIndex, Cache!Lookup, Cache!RemoveOld, Cache!CopyFile,
     Cache!Process, Cache!OpenIndex, Cache!WriteIndex
<1>2. CacheFails => UNCHANGED source
  BY DEF CacheFails, Cache!LoadIndexFails, Cache!RemoveOldFails, Cache!ValidationFails,
     Cache!Collect
<1>3. Interrupted => UNCHANGED source
  BY DEF Interrupted, Cache!Interrupted, cache
<1>4. ProcessBinary => UNCHANGED source
  BY DEF ProcessBinary, Cache!StartBuild
<1>5. QED
  BY <1>1, <1>2, <1>3, <1>4

LEMMA ContentStep ==
    ASSUME ListsMoveOn, ~Reverts, TypeOK, QuietInv, CurrentInv, CollectedIsCurrent,
           [Next]_vars
    PROVE  ContentInv'
<1>0. ContentInv /\ HistoryInv /\ BehindInv /\ WorkInv
  BY DEF QuietInv, CurrentInv
<1>d. /\ {"analysis", "pyz", "pkg", "exe"} = Targets /\ Products = {"pyz", "pkg", "exe"}
      /\ "pyz" \in Targets /\ "pkg" \in Targets /\ "exe" \in Targets
      /\ "pyz" \in Products /\ "pkg" \in Products /\ "exe" \in Products
  BY DEF Targets, Products
\* A step that makes nothing, and leaves nothing fresh that it changes.
<1>1. ASSUME UNCHANGED <<product, onefile>>, step' \in {"idle", "check", "assemble", "process"},
             PyzFresh' => PyzFresh /\ ModuleContent' = ModuleContent,
             PkgFresh' => PkgFresh /\ PkgContent' = PkgContent,
             ExeFresh' => ExeFresh
      PROVE  ContentInv'
  BY <1>0, <1>1 DEF ContentInv, At, ExeFresh
\* A step that changes nothing which is compared.
<1>2. ASSUME UNCHANGED <<guts, mtime, content, option, onefile, source>>
      PROVE  /\ PyzFresh' <=> PyzFresh
             /\ product'["pyz"].mtime = product["pyz"].mtime => (PkgFresh' <=> PkgFresh)
             /\ UNCHANGED product => (ExeFresh' <=> ExeFresh)
             /\ ModuleContent' = ModuleContent /\ PkgContent' = PkgContent
             /\ Processed' = Processed /\ CleanBuild' = CleanBuild
  BY <1>2, FreshFrame DEF ModuleContent, ScriptImports, PkgContent, Processed, CleanBuild
<1>3. CASE UNCHANGED vars \/ Terminated \/ Tick
  <2>1. UNCHANGED <<guts, mtime, content, option, onefile, source, product, target, step,
                    file, dist>>
    BY <1>3 DEF vars, cache, user, work, Terminated, Tick
  <2>2. QED
    BY <1>0, <1>2, <2>1 DEF ContentInv, At
<1>4. CASE (\E s \in {"script", "module"} : EditSource(s)) \/ ChangeBinary \/ EditSpec
  <2>1. UNCHANGED <<product, onefile>> /\ step' = "idle"
    BY <1>4 DEF EditSource, ChangeBinary, EditSpec, Changed
  <2>2. QED
    BY <1>0, <1>1, <1>4, <2>1, EditedIsStale
<1>5. CASE RemoveExe
  <2>1. /\ UNCHANGED <<guts, mtime, content, option, onefile, source>> /\ step' = "idle"
        /\ product' = [product EXCEPT !["exe"] = Missing]
    BY <1>5 DEF RemoveExe, Changed, cache
  <2>2. /\ product'["pyz"] = product["pyz"] /\ product'["pkg"] = product["pkg"]
        /\ product'["exe"] = Missing
    BY <2>1, <1>d DEF TypeOK
  <2>3. ~ExeFresh'
    BY <2>2 DEF ExeFresh, ExeOutdated
  <2>4. QED
    BY <1>0, <1>2, <2>1, <2>2, <2>3 DEF ContentInv, At
<1>6. CASE Clean
  <2>1. /\ guts'["pyz"] = NoGuts /\ guts'["pkg"] = NoGuts /\ guts'["exe"] = NoGuts
        /\ step' = "idle"
    BY <1>6, <1>d DEF Clean, Changed
  <2>2. QED
    BY <2>1 DEF ContentInv, PyzFresh, PkgFresh, ExeFresh, At
<1>7. CASE StartBuild \/ AssembleAnalysis \/ ProcessBinary \/ CacheStep \/ CacheFails
           \/ \E t \in Targets : Rebuild(t)
  <2>1. UNCHANGED source
    BY <1>7, SourceStays DEF StartBuild, AssembleAnalysis, Rebuild, cache
  <2>2. UNCHANGED <<guts, mtime, content, option, onefile, product>>
    BY <1>7 DEF StartBuild, AssembleAnalysis, ProcessBinary, CacheStep, CacheFails, Ends,
       Rebuild, user, work
  <2>3. ~At("pyz", "save")' /\ ~At("pkg", "save")' /\ ~At("exe", "save")'
        /\ ~At("pkg", "write")' /\ step' # "done"
    BY <1>7 DEF StartBuild, AssembleAnalysis, ProcessBinary, CacheStep, CacheFails, Ends,
       Rebuild, At
  <2>4. QED
    BY <1>0, <1>2, <2>1, <2>2, <2>3 DEF ContentInv
\* The target proceeds; what it is about is fresh, and as it should be.
<1>8. ASSUME NEW t \in Targets, target = t, Proceed(t),
             UNCHANGED <<product, onefile, mtime, content, option, source>>,
             PyzFresh' => PyzFresh \/ At("pyz", "save"),
             PkgFresh' => PkgFresh \/ At("pkg", "save"),
             ExeFresh' => ExeFresh \/ At("exe", "save")
      PROVE  ContentInv'
  <2>1. /\ ModuleContent' = ModuleContent /\ PkgContent' = PkgContent
    BY <1>8 DEF ModuleContent, ScriptImports, PkgContent, Processed
  <2>2. step' \in {"check", "assemble", "done"} /\ (step' = "done" => onefile)
    BY <1>8, <1>d DEF Proceed
  <2>3. QED
    BY <1>0, <1>8, <2>1, <2>2 DEF ContentInv, At
<1>9. ASSUME NEW t \in Targets, UpToDate(t) PROVE ContentInv'
  <2>1. UNCHANGED <<guts, mtime, content, option, onefile, source, product>>
    BY <1>9 DEF UpToDate, cache, user, work
  <2>2. QED
    BY <1>2, <1>8, <1>9, <2>1 DEF UpToDate
<1>10. ASSUME NEW t \in Targets, SaveGuts(t) PROVE ContentInv'
  <2>1. /\ At(t, "save") /\ Proceed(t)
        /\ UNCHANGED <<product, onefile, mtime, content, option, source>>
    BY <1>10 DEF SaveGuts, cache, user
  <2>2. /\ guts'[t].mtime = now
        /\ \A u \in Targets : u # t => guts'[u] = guts[u]
    BY <1>10, SavedGuts
  <2>3. PyzFresh' => PyzFresh \/ t = "pyz"
    BY <1>d, <2>1, <2>2 DEF PyzFresh, ScriptImports, Newer
\* The PYZ is newer than the guts of the PKG.
  <2>4. t = "pyz" => ~PkgFresh' /\ ~ExeFresh'
    <3>1. SUFFICES ASSUME t = "pyz" PROVE ~PkgFresh'
      BY DEF ExeFresh
    <3>2. guts["pkg"].mtime < product["pyz"].mtime
      BY <2>1, <3>1 DEF QuietInv, SecondInv
    <3>3. guts'["pkg"].mtime < product'["pyz"].mtime
      BY <1>d, <2>1, <2>2, <3>1, <3>2
    <3>4. QED
      BY <1>d, <2>1, <2>2, <3>1, <3>3, FieldTypes DEF PkgFresh, PkgOutdated, Newer
  <2>5. PkgFresh' => PkgFresh \/ t = "pkg"
    <3>1. CASE t \in {"analysis", "exe"}
      BY <1>d, <2>1, <2>2, <2>3, <3>1 DEF PkgFresh, PkgOutdated, Newer
    <3>2. QED
      BY <1>d, <2>4, <3>1
\* The executable is older than the guts of the PKG.
  <2>6. t = "pkg" => ~ExeFresh'
    <3>1. SUFFICES ASSUME t = "pkg" PROVE ~ExeFresh'
      OBVIOUS
    <3>2. guts["exe"].mtm < now
      BY <1>d, <2>1, <3>1, FieldTypes DEF QuietInv, TimeInv, SecondInv, At
    <3>3. QED
      BY <1>d, <2>1, <2>2, <3>1, <3>2 DEF ExeFresh, ExeOutdated
  <2>7. ExeFresh' => ExeFresh \/ t = "exe"
    <3>1. CASE t = "analysis"
      BY <1>d, <2>1, <2>2, <2>5, <3>1 DEF ExeFresh, ExeOutdated
    <3>2. QED
      BY <1>d, <2>4, <2>6, <3>1
  <2>8. QED
    BY <1>8, <2>1, <2>3, <2>5, <2>7 DEF At
<1>11. ASSUME NEW t \in Products, Open(t) PROVE ContentInv'
  <2>1. /\ target = t /\ step' = "write" /\ target' = t
        /\ UNCHANGED <<guts, mtime, content, option, onefile, dist>>
        /\ \A u \in Products : u # t => product'[u] = product[u]
    BY <1>11, WrittenProduct DEF user, Open
  <2>2. UNCHANGED source
    BY <1>11, CollectedIsProcessed DEF Open, cache
  <2>3. t = "pkg" /\ onefile => file' = Processed'
    <3>1. SUFFICES ASSUME t = "pkg", onefile PROVE file' = Processed'
      OBVIOUS
    <3>2. Cache!Collect
      BY <1>11, <3>1 DEF Open
    <3>3. QED
      BY <1>2, <2>1, <2>2, <3>2, CollectedIsProcessed
  <2>4. /\ ~ExeFresh' /\ (PyzFresh' <=> PyzFresh) /\ (t = "pyz" => ~PyzFresh)
        /\ t # "pyz" => (PkgFresh' <=> PkgFresh)
        /\ t = "pkg" => ~PkgFresh
    BY <1>11, WrittenIsStale
  <2>5. PyzFresh' => product'["pyz"].content.module = ModuleContent'
    BY <1>0, <1>2, <1>d, <2>1, <2>2, <2>4 DEF ContentInv
  <2>6. PkgFresh' => product'["pkg"].content = PkgContent'
    <3>1. t = "pyz" => ~PkgFresh'
      BY <2>4 DEF PkgFresh
    <3>2. t = "exe" => (PkgFresh' => product'["pkg"].content = PkgContent')
      BY <1>0, <1>2, <1>d, <2>1, <2>2, <2>4 DEF ContentInv
    <3>3. QED
      BY <1>d, <2>4, <3>1, <3>2
  <2>7. QED
    BY <2>1, <2>3, <2>4, <2>5, <2>6 DEF ContentInv, At
<1>12. ASSUME NEW t \in Products, Write(t) PROVE ContentInv'
  <2>1. /\ target = t /\ step = "write" /\ step' = "save" /\ target' = t
        /\ UNCHANGED <<guts, mtime, content, option, onefile, dist, file, source>>
        /\ \A u \in Products : u # t => product'[u] = product[u]
    BY <1>12, WrittenProduct DEF user, Write, At, cache
  <2>2. product'[t].content = Contents(t)
    <3> DEFINE written == [content |-> Contents(t), mtime |-> now]
    <3>1. product' = [product EXCEPT ![t] = written] /\ written.content = Contents(t)
          /\ DOMAIN product = Products
      BY <1>12 DEF Write, TypeOK
    <3> HIDE DEF written
    <3>2. QED
      BY <3>1
  <2>3. /\ PyzFresh' <=> PyzFresh
        /\ t # "pyz" => (PkgFresh' <=> PkgFresh)
        /\ ~ExeFresh' /\ (t = "pyz" => ~PyzFresh) /\ (t = "pkg" => ~PkgFresh)
    BY <1>12, WrittenIsStale
  <2>4. CASE t = "pyz"
    <3>1. pure <=> ScriptImports
      BY <1>0, <2>1, <2>4 DEF BehindInv
    <3>2. Contents("pyz").module = IF pure THEN content["module"] ELSE 0
      BY DEF Contents, Nothing
    <3>3. product'["pyz"].content.module = ModuleContent'
      BY <1>2, <2>1, <2>2, <2>4, <3>1, <3>2 DEF ModuleContent
    <3>4. ~PkgFresh'
      BY <2>3, <2>4 DEF PkgFresh
    <3>5. QED
      BY <2>1, <2>3, <2>4, <3>3, <3>4 DEF ContentInv, At
  <2>5. CASE t = "pkg"
    <3>1. product["pyz"].content.module = ModuleContent
      BY <1>0, <2>1, <2>5 DEF BehindInv, ContentInv
    <3>2. onefile => file = Processed
      BY <1>0, <2>1, <2>5 DEF ContentInv, At
    <3>3. Contents("pkg") = PkgContent
      BY <3>1, <3>2 DEF Contents, PkgContent
    <3>4. product'["pkg"].content = PkgContent' /\ product'["pyz"] = product["pyz"]
      BY <1>2, <1>d, <2>1, <2>2, <2>5, <3>3
    <3>5. QED
      BY <1>0, <1>2, <2>1, <2>3, <2>5, <3>1, <3>4 DEF ContentInv, At
  <2>6. CASE t = "exe"
    <3>1. PyzFresh /\ PkgFresh
      BY <1>0, <2>1, <2>6 DEF BehindInv, PkgFresh
    <3>2. /\ product["pyz"].content.module = ModuleContent
          /\ product["pkg"].content = PkgContent
      BY <1>0, <3>1 DEF ContentInv
    <3>3. product'["exe"].content = PkgContent'
      BY <1>2, <2>1, <2>2, <2>6, <3>2 DEF Contents
    <3>4. QED
      BY <1>2, <1>d, <2>1, <2>3, <2>6, <3>2, <3>3 DEF ContentInv, At
  <2>7. QED
    BY <1>d, <2>4, <2>5, <2>6
<1>13. CASE Collect
  <2>1. /\ UNCHANGED <<guts, mtime, content, option, onefile, product>>
        /\ target = "collect" /\ target' = "none" /\ step' = "done" /\ Cache!Collect
        /\ dist'.program = [product["exe"].content EXCEPT !.binary = file]
    BY <1>13 DEF Collect, user, At
  <2>2. file = Processed /\ UNCHANGED source
    BY <2>1, CollectedIsProcessed
  <2>3. product["exe"].content = PkgContent
    BY <1>0, <2>1 DEF BehindInv, ContentInv
  <2>4. dist'.program = CleanBuild'
    <3>1. [PkgContent EXCEPT !.binary = Processed] = CleanBuild
      <4>1. CleanBuild = [module |-> ModuleContent, script |-> content["script"],
                          option |-> option, binary |-> Processed]
        BY DEF CleanBuild, ModuleContent, ScriptImports, Processed
      <4>2. QED
        BY <4>1 DEF PkgContent
    <3>2. QED
      BY <1>2, <2>1, <2>2, <2>3, <3>1
  <2>5. QED
    BY <1>0, <1>2, <2>1, <2>2, <2>4 DEF ContentInv, At
<1>14. CASE Interrupted
  <2>1. /\ UNCHANGED <<mtime, content, option, onefile, product, source>>
        /\ target' = "none" /\ step' = "idle"
    BY <1>14, SourceStays DEF Interrupted, Ends, user
  <2>2. \A u \in Targets : guts'[u] = guts[u] \/ guts'[u] = NoGuts
    BY <1>14, LostGuts
  <2>3. /\ ModuleContent' = ModuleContent /\ PkgContent' = PkgContent
    BY <2>1 DEF ModuleContent, ScriptImports, PkgContent, Processed
  <2>4. PyzFresh' => PyzFresh
    BY <1>d, <2>1, <2>2 DEF PyzFresh, ScriptImports, Newer
  <2>5. PkgFresh' => PkgFresh
    BY <1>d, <2>1, <2>2, <2>4 DEF PkgFresh, PkgOutdated, Newer
  <2>6. ExeFresh' => ExeFresh
    BY <1>d, <2>1, <2>2, <2>5 DEF ExeFresh, PkgFresh, ExeOutdated
  <2>7. QED
    BY <1>1, <2>1, <2>3, <2>4, <2>5, <2>6
<1>15. QED
  BY <1>3, <1>4, <1>5, <1>6, <1>7, <1>9, <1>10, <1>11, <1>12, <1>13, <1>14 DEF Next

\* Whatever earlier builds left behind, and wherever they were interrupted, a
\* build that is finished has made what a clean build would have made (the whole
\* of Target.__postinit__ and assemble), if sources and options only move on and
\* the script does not go back to an import that it had given up.
THEOREM FinishesCurrent ==
    ASSUME ~Reverts, ListsMoveOn PROVE Spec => []FinishedIsCurrent
<1>1. Init => CurrentInv
  BY CurrentInit
<1>2. TypeOK /\ QuietInv /\ CollectedIsCurrent /\ CurrentInv /\ [Next]_vars => CurrentInv'
  BY HistoryStep, ContentStep DEF CurrentInv
<1>3. QuietInv /\ CurrentInv => FinishedIsCurrent
  <2> SUFFICES ASSUME QuietInv, CurrentInv, step = "done"
               PROVE  (IF onefile THEN product["exe"].content ELSE dist.program) = CleanBuild
    BY DEF FinishedIsCurrent
  <2>1. product["exe"].content = PkgContent
    BY DEF QuietInv, BehindInv, CurrentInv, ContentInv
  <2>2. onefile => PkgContent = CleanBuild
    BY DEF PkgContent, CleanBuild, ModuleContent, ScriptImports, Processed
  <2>3. ~onefile => dist.program = CleanBuild
    BY DEF CurrentInv, ContentInv
  <2>4. QED
    BY <2>1, <2>2, <2>3
<1>4. Spec => [](TypeOK /\ QuietInv /\ CollectedIsCurrent)
  BY TypeCorrect, TimesAreOrdered, CollectsCurrent, PTL
<1>5. QED
  BY <1>1, <1>2, <1>3, <1>4, PTL DEF Spec
=============================================================================
