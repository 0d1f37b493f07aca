------------------------------- MODULE Build -------------------------------
(***************************************************************************)
(* Builds of one program that follow one another in the same directories:  *)
(* the chain of targets Analysis, PYZ, PKG, EXE and (onedir) COLLECT, each *)
(* of which is assembled only if its saved guts say that it must be        *)
(* (building/datastruct.py, api.py, build_main.py), with the cache of      *)
(* processed binaries that PKG or COLLECT goes through (BinCache).         *)
(*                                                                         *)
(* The program has a script, a module that some contents of the script     *)
(* import, one binary, and one option of the EXE.  Times are seconds, as   *)
(* misc.mtime cuts them.  A build may fail or be interrupted anywhere.     *)
(* Sources change between builds only, and what follows a build happens in *)
(* a later second: changes in the same one are not seen (misc.mtime).      *)
(***************************************************************************)
EXTENDS BuildParameters

CONSTANTS
    Importing,        \* the contents of the script that import the module
    MaxOption,        \* values of the option are 1..MaxOption
    MaxTime,          \* bound: the clock
    OneFileModes      \* what the program may be: onefile (TRUE) or onedir

ASSUME BuildAssumption ==
    /\ Importing \subseteq 1..MaxContent /\ OneFileModes \subseteq BOOLEAN
    /\ MaxOption \in Nat \ {0} /\ MaxTime \in Nat \ {0}

VARIABLES
    pc, builds, strict, source, index, index_whole, cache_index, file, finished,
    now,              \* the clock
    onefile,          \* whether binaries go into the PKG
    content, mtime,   \* of the sources; that of the binary is source
    option,           \* OPTION entry of the EXE in the .spec file
    target, step,     \* the target being built, and how far it is
    pure,             \* Analysis.pure: is the module in it?
    dependencies,     \* PKG.dependencies: is the passed-on entry in it?
    guts,             \* the saved guts of each target
    product,          \* the files that the targets make
    dist,             \* what the build's COLLECT has made
    settled           \* no change since a build was finished (history)

Cache == INSTANCE BinCache

cache == <<pc, builds, strict, source, index, index_whole, cache_index, file, finished>>
work == <<guts, product, dist>>
user == <<now, onefile, content, mtime, option>>
vars == <<cache, user, target, step, pure, dependencies, work, settled>>

Sources == {"script", "module", "binary"}
Targets == {"analysis", "pyz", "pkg", "exe"}
Products == {"pyz", "pkg", "exe"}

NoBinary == Cache!Absent
Program == [module : 0..MaxContent, script : 0..MaxContent, option : 0..MaxOption,
            binary : Cache!Files]
Nothing == [module |-> 0, script |-> 0, option |-> 0, binary |-> NoBinary]

\* A file has no time of modification if it does not exist; one that is being
\* written has no content yet.
Missing == [content |-> Nothing, mtime |-> 0]
Partial == [content |-> Nothing, mtime |-> now]
NoGuts == [mtime |-> 0, pure |-> FALSE, option |-> 0, mtm |-> 0]
NoDist == [program |-> Nothing, passed_on |-> FALSE]

Init ==
    /\ Cache!Init
    /\ now = 1 /\ onefile \in OneFileModes
    /\ content = [s \in {"script", "module"} |-> 1]
    /\ mtime = [s \in Sources |-> 1] /\ option = 1
    /\ target = "none" /\ step = "idle"
    /\ pure = FALSE /\ dependencies = FALSE
    /\ guts = [t \in Targets |-> NoGuts] /\ product = [p \in Products |-> Missing]
    /\ dist = NoDist /\ settled = FALSE

-----------------------------------------------------------------------------
(* Between builds.                                                         *)

Idle == step \in {"idle", "done"}
LaterSecond == /\ \A t \in Targets : guts[t].mtime < now
               /\ \A p \in Products : product[p].mtime < now

Moves(old, max) == {n \in 1..max : n > old \/ (Reverts /\ n # old)}

Tick ==
    /\ Idle \/ step \in {"check", "save"}
    /\ now < MaxTime /\ now' = now + 1
    /\ UNCHANGED <<cache, onefile, content, mtime, option, target, step, pure,
                   dependencies, work, settled>>

Changed == step' = "idle" /\ settled' = FALSE /\ pure' = FALSE /\ dependencies' = FALSE
           /\ UNCHANGED <<now, onefile, target, dist>>

EditSource(s) ==
    /\ Idle /\ LaterSecond
    /\ \E n \in Moves(content[s], MaxContent) : content' = [content EXCEPT ![s] = n]
    /\ mtime' = [mtime EXCEPT ![s] = now]
    /\ Changed /\ UNCHANGED <<cache, option, guts, product>>

ChangeBinary ==
    /\ Idle /\ LaterSecond /\ Cache!ChangeSource
    /\ mtime' = [mtime EXCEPT !["binary"] = now]
    /\ Changed /\ UNCHANGED <<content, option, guts, product>>

EditSpec ==
    /\ Idle /\ LaterSecond /\ option' \in Moves(option, MaxOption)
    /\ Changed /\ UNCHANGED <<cache, content, mtime, guts, product>>

\* The user removes the executable from the dist directory.
RemoveExe ==
    /\ Idle /\ LaterSecond /\ onefile /\ product["exe"] # Missing
    /\ product' = [product EXCEPT !["exe"] = Missing]
    /\ Changed /\ UNCHANGED <<cache, content, mtime, option, guts>>

\* --clean empties the cache and the work directory, where a onedir program has
\* its executable.
Clean ==
    /\ Idle /\ LaterSecond /\ Cache!Clean
    /\ guts' = [t \in Targets |-> NoGuts]
    /\ product' = [p \in Products |->
                     IF p = "exe" /\ onefile THEN product[p] ELSE Missing]
    /\ Changed /\ UNCHANGED <<content, mtime, option>>

StartBuild ==
    /\ Idle /\ LaterSecond /\ builds < MaxBuilds
    /\ target' = "analysis" /\ step' = "check" /\ pure' = FALSE /\ dependencies' = FALSE
    /\ dist' = NoDist
    /\ UNCHANGED <<cache, user, guts, product, settled>>

-----------------------------------------------------------------------------
(* Target.__postinit__: whether a target must be assembled.                *)

Newer(time, t) == time > guts[t].mtime

AnalysisOutdated ==
    \/ Newer(mtime["script"], "analysis") \/ Newer(mtime["binary"], "analysis")
    \/ guts["analysis"].pure /\ Newer(mtime["module"], "analysis")

PyzOutdated ==
    \/ guts["pyz"].pure # pure
    \/ pure /\ Newer(mtime["module"], "pyz")

PkgOutdated ==
    \/ guts["pkg"].option # option
    \/ Newer(product["pyz"].mtime, "pkg") \/ Newer(mtime["script"], "pkg")
    \/ onefile /\ Newer(mtime["binary"], "pkg")

\* Mutants: the PKG is not looked at; one from the same second counts as newer.
ExeOutdatedAlone ==
    \/ product["exe"] = Missing \/ guts["exe"].option # option
    \/ guts["exe"].mtm # product["exe"].mtime

ExeOutdatedAtOnce ==
    \/ product["exe"] = Missing \/ guts["exe"].option # option
    \/ guts["exe"].mtm # product["exe"].mtime
    \/ guts["exe"].mtm <= guts["pkg"].mtime

ExeOutdated ==
    \/ product["exe"] = Missing \/ guts["exe"].option # option
    \/ guts["exe"].mtm # product["exe"].mtime
    \/ guts["exe"].mtm < guts["pkg"].mtime

Outdated(t) ==
    \/ guts[t] = NoGuts
    \/ CASE t = "analysis" -> AnalysisOutdated
         [] t = "pyz" -> PyzOutdated
         [] t = "pkg" -> PkgOutdated
         [] t = "exe" -> ExeOutdated

Proceed(t) ==
    CASE t = "analysis" -> target' = "pyz" /\ step' = "check" /\ settled' = settled
      [] t = "pyz" -> target' = "pkg" /\ step' = "check" /\ settled' = settled
      [] t = "pkg" -> target' = "exe" /\ step' = "check" /\ settled' = settled
      [] t = "exe" -> IF onefile THEN target' = "none" /\ step' = "done" /\ settled' = TRUE
                      ELSE target' = "collect" /\ step' = "assemble" /\ settled' = settled

\* An up-to-date Analysis takes the lists from its guts; no other target takes
\* anything.
UpToDate(t) ==
    /\ target = t /\ step = "check" /\ ~Outdated(t)
    /\ Proceed(t)
    /\ pure' = IF t = "analysis" THEN guts[t].pure ELSE pure
    /\ UNCHANGED <<cache, user, dependencies, work>>

Rebuild(t) ==
    /\ target = t /\ step = "check" /\ Outdated(t)
    /\ step' = "assemble"
    /\ UNCHANGED <<cache, user, target, pure, dependencies, work, settled>>

-----------------------------------------------------------------------------
(* assemble.                                                               *)

At(t, s) == target = t /\ step = s

AssembleAnalysis ==
    /\ At("analysis", "assemble")
    /\ pure' = (content["script"] \in Importing)
    /\ step' = "save"
    /\ UNCHANGED <<cache, user, target, dependencies, work, settled>>

\* The binary goes into the PKG of a onefile program, and into the directory of
\* a onedir program, by way of the cache.
ProcessBinary ==
    /\ At(IF onefile THEN "pkg" ELSE "collect", "assemble")
    /\ Cache!StartBuild
    /\ step' = "process"
    /\ UNCHANGED <<user, target, pure, dependencies, work, settled>>

CacheStep ==
    /\ step = "process"
    /\ \/ Cache!LoadIndex \/ Cache!Lookup \/ Cache!RemoveOld \/ Cache!CopyFile
       \/ Cache!Process \/ Cache!OpenIndex \/ Cache!WriteIndex
    /\ UNCHANGED <<user, target, step, pure, dependencies, work, settled>>

\* The archive, or the executable, is opened for writing.
Open(t) ==
    /\ \/ t \in {"pyz", "exe"} /\ At(t, "assemble") /\ UNCHANGED cache
       \/ t = "pkg" /\ ~onefile /\ At(t, "assemble") /\ UNCHANGED cache
       \/ t = "pkg" /\ At(t, "process") /\ Cache!Collect /\ file # NoBinary
    /\ product' = [product EXCEPT ![t] = Partial]
    /\ step' = "write"
    /\ UNCHANGED <<user, target, pure, dependencies, guts, dist, settled>>

\* What each is made of: the PYZ of modules, the PKG of the PYZ, the script, the
\* option, and the binary; the EXE of the PKG.
Contents(t) ==
    CASE t = "pyz" -> [Nothing EXCEPT !.module = IF pure THEN content["module"] ELSE 0]
      [] t = "pkg" -> [module |-> product["pyz"].content.module, script |-> content["script"],
                       option |-> option, binary |-> IF onefile THEN file ELSE NoBinary]
      [] t = "exe" -> product["pkg"].content

\* The PKG of a onedir program passes entries on that only COLLECT may have.
Write(t) ==
    /\ At(t, "write")
    /\ product' = [product EXCEPT ![t] = [content |-> Contents(t), mtime |-> now]]
    /\ dependencies' = (dependencies \/ (t = "pkg" /\ ~onefile))
    /\ step' = "save"
    /\ UNCHANGED <<cache, user, target, pure, guts, dist, settled>>

SaveGuts(t) ==
    /\ At(t, "save")
    /\ guts' = [guts EXCEPT ![t] =
                  [mtime |-> now, pure |-> t \in {"analysis", "pyz"} /\ pure,
                   option |-> IF t \in {"pkg", "exe"} THEN option ELSE 0,
                   mtm |-> IF t = "exe" THEN product["exe"].mtime ELSE 0]]
    /\ Proceed(t)
    /\ UNCHANGED <<cache, user, pure, dependencies, product, dist>>

\* COLLECT copies the executable, the binary, and the entries passed on.
Collect ==
    /\ At("collect", "process") /\ Cache!Collect /\ file # NoBinary
    /\ dist' = [program |-> [product["exe"].content EXCEPT !.binary = file],
                passed_on |-> dependencies]
    /\ target' = "none" /\ step' = "done" /\ settled' = TRUE
    /\ UNCHANGED <<user, pure, dependencies, guts, product>>

-----------------------------------------------------------------------------
(* Failures.                                                               *)

Ends == target' = "none" /\ step' = "idle" /\ pure' = FALSE /\ dependencies' = FALSE
        /\ UNCHANGED <<user, product, dist, settled>>

\* The cache raises, or has no file to collect.
CacheFails ==
    /\ step = "process"
    /\ \/ Cache!LoadIndexFails \/ Cache!RemoveOldFails \/ Cache!ValidationFails
       \/ Cache!Collect /\ file = NoBinary
    /\ Ends /\ UNCHANGED guts

\* Anything else raises, or the user interrupts.  save_py_data_struct truncates
\* the guts before it writes them: they are then taken for bad.
Interrupted ==
    /\ ~Idle
    /\ IF step = "process" THEN Cache!Interrupted ELSE UNCHANGED cache
    /\ guts' \in {guts} \cup
         IF step = "save" THEN {[guts EXCEPT ![target] = NoGuts]} ELSE {}
    /\ Ends

\* The bounds are reached.
Terminated == Idle /\ (builds = MaxBuilds \/ ~LaterSecond) /\ UNCHANGED vars

Next ==
    \/ Tick \/ (\E s \in {"script", "module"} : EditSource(s)) \/ ChangeBinary
    \/ EditSpec \/ RemoveExe \/ Clean \/ StartBuild
    \/ \E t \in Targets : UpToDate(t) \/ Rebuild(t) \/ SaveGuts(t)
    \/ \E t \in Products : Open(t) \/ Write(t)
    \/ AssembleAnalysis \/ ProcessBinary \/ CacheStep \/ Collect
    \/ CacheFails \/ Interrupted \/ Terminated

Spec == Init /\ [][Next]_vars

-----------------------------------------------------------------------------
TypeOK ==
    /\ Cache!TypeOK
    /\ now \in 1..MaxTime /\ onefile \in BOOLEAN
    /\ content \in [{"script", "module"} -> 1..MaxContent]
    /\ mtime \in [Sources -> 1..MaxTime] /\ option \in 1..MaxOption
    /\ target \in Targets \cup {"none", "collect"}
    /\ step \in {"idle", "done", "check", "assemble", "process", "write", "save"}
    /\ pure \in BOOLEAN /\ dependencies \in BOOLEAN /\ settled \in BOOLEAN
    /\ guts \in [Targets -> [mtime : 0..MaxTime, pure : BOOLEAN, option : 0..MaxOption,
                             mtm : 0..MaxTime]]
    /\ product \in [Products -> [content : Program, mtime : 0..MaxTime]]
    /\ dist \in [program : Program, passed_on : BOOLEAN]

\* What a build without any old file would make.
CleanBuild ==
    [module |-> IF content["script"] \in Importing THEN content["module"] ELSE 0,
     script |-> content["script"], option |-> option,
     binary |-> [content |-> source, processed |-> TRUE]]

\* Whatever earlier builds left behind, and wherever they were interrupted, a
\* build that is finished has made what a clean build would have made: every
\* change of a source or of the .spec file has come through all the targets
\* that the saved guts let the build skip.  (If sources only move on, and the
\* script does not take up again an import that it has given up.)
FinishedIsCurrent ==
    step = "done" =>
        (IF onefile THEN product["exe"].content ELSE dist.program) = CleanBuild

\* A PYZ that is not built again holds what it would hold if it were: "Returns
\* True if rebuild/assemble is required." (_check_guts, datastruct.py:191).
UpToDateIsWhole ==
    At("pkg", "check") => product["pyz"].content = Contents("pyz")

\* Nothing but COLLECT is built again if nothing has changed since a build was
\* finished (the mtimes that the chain compares are in the right order).
QuietIfSettled == (settled /\ step \in {"assemble", "process", "write", "save"}) =>
                      target = "collect"

\* What BinCache says of the cache holds in a chain of targets as well, wherever
\* else in it a build fails: an entry of the index stands for a processing that
\* was finished, and PKG or COLLECT gets the binary as it is now, processed.
IndexedWasProcessed == Cache!IndexedWasProcessed
CollectedIsCurrent == Cache!CollectedIsCurrent

\* Entries that EXE was given and must not embed are passed to the COLLECT via
\* PKG.dependencies, in every build.
CollectsPassedOn == (step = "done" /\ ~onefile) => dist.passed_on
=============================================================================
