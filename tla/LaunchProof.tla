------------------------------ MODULE LaunchProof ------------------------------
(***************************************************************************)
(* Proofs about Launch, for any number of programs and processes: what a   *)
(* process takes itself for, and which directory, screen and library path  *)
(* it has, are those of its own instance, its directory stays, and the     *)
(* library path that it puts back is the user's.                           *)
(***************************************************************************)
EXTENDS Launch, TLAPS, NaturalsInduction, WellFoundedInduction

-----------------------------------------------------------------------------
(* The invariant: what the environment of a process says, given how the    *)
(* process came into being.                                                *)

\* A new instance has its own number.
New == {"shell", "restart", "other"}

OwnHome(r) == IF r.prog \in OneFile THEN Temp(r.instance) ELSE Installed(r.prog)
OwnVariable(r) == IF r.prog \in OneFile THEN Temp(r.instance) ELSE NoDir

First(path, dir) == path # <<>> /\ Head(path) = dir

\* The environment is one for the program itself, or it will be reset.
Inherits(r) == ~r.env.reset /\ r.env.archive = r.prog

\* The onedir program that has executed itself, and the child of a onefile one.
RestartedOnedir(r) ==
    /\ r.how \in New /\ r.prog \notin OneFile /\ Inherits(r)
    /\ r.env.level = "0" /\ r.env.home = NoDir /\ r.env.splash = NoPort
    /\ First(r.env.lib, Installed(r.prog))

ForkedChild(r) ==
    /\ r.how = "fork" /\ r.prog \in OneFile /\ Inherits(r)
    /\ r.env.level = "0" /\ r.env.home = Temp(r.instance)
    /\ r.env.splash \in {NoPort, Port(r.instance)}
    /\ First(r.env.lib, Temp(r.instance))

StartedWorker(r) ==
    /\ r.how = "worker" /\ Inherits(r)
    /\ r.env.level = "1" /\ r.env.home = OwnVariable(r)
    /\ First(r.env.lib, OwnHome(r))

BootOK(r) ==
    /\ r.level = "unknown"
    /\ \/ r.how \in New /\ ~Inherits(r)
       \/ RestartedOnedir(r) \/ ForkedChild(r) \/ StartedWorker(r)

ParentPCs == {"extract", "fork", "wait", "cleanup"}

ParentOK(r) ==
    /\ r.how \in New /\ r.prog \in OneFile /\ Inherits(r)
    /\ r.level = "parent" /\ r.env.level = "0"
    /\ r.env.splash \in {NoPort, Port(r.instance)}
    /\ r.pc # "extract" =>
           r.env.home = Temp(r.instance) /\ First(r.env.lib, Temp(r.instance))

AppOK(r) ==
    /\ r.how \in IF r.prog \in OneFile THEN {"fork", "worker"} ELSE New \cup {"worker"}
    /\ r.level = IF r.how = "worker" THEN "subprocess" ELSE "main"
    /\ Inherits(r) /\ r.env.level = "1"
    /\ r.home = OwnHome(r) /\ r.env.home = OwnVariable(r)
    /\ First(r.env.lib, OwnHome(r))
    /\ r.prog \in WithSplash =>
           IF r.how = "worker" THEN r.env.splash = Suppressed
           ELSE r.env.splash \in {NoPort, Port(r.instance)}

ProcOK(p, r) ==
    /\ r.how \in New => r.instance = p
    /\ r.pc = "none" <=> r.how = "none"
    /\ r.pc # "none" => r.prog \in Programs
    /\ r.pc = "boot" => BootOK(r)
    /\ r.pc \in ParentPCs => ParentOK(r)
    /\ r.pc = "app" => AppOK(r)

LocalInv == \A p \in Procs : ProcOK(p, proc[p])

\* Who has a directory.
DirsInv ==
    /\ \A p \in Procs : proc[p].pc \in ParentPCs => p \in dirs
    /\ \A p \in dirs : proc[p].how \in New

\* Families: the child of a parent, and the workers of an application.
Live(q) == proc[q].pc \in {"boot", "app"}

ForkInv(q) ==
    proc[q].how = "fork" =>
        LET p == proc[q].parent IN
        /\ p \in Procs /\ p # q
        /\ proc[q].instance = p /\ proc[q].prog = proc[p].prog
        /\ proc[p].pc \in {"wait", "cleanup", "exited", "killed"}
        /\ Live(q) => proc[p].pc \in {"wait", "killed"} /\ p \in dirs

WorkerInv(q) ==
    (proc[q].how = "worker" /\ Live(q)) =>
        LET p == proc[q].parent IN
        /\ p \in Procs /\ p < q /\ proc[p].pc = "app"
        /\ proc[q].instance = proc[p].instance /\ proc[q].prog = proc[p].prog

FamilyInv ==
    /\ \A q \in Procs : ForkInv(q) /\ WorkerInv(q)
    /\ \A q, s \in Procs :
         (proc[q].how = "fork" /\ proc[s].how = "fork" /\ proc[q].parent = proc[s].parent)
             => q = s
    /\ \A q, s \in Procs : (q < s /\ proc[q].pc = "none") => proc[s].pc = "none"

Inv == TypeOK /\ LocalInv /\ DirsInv /\ FamilyInv

-----------------------------------------------------------------------------
(* The operators on environments.                                          *)

LEMMA ResetFacts ==
    ASSUME NEW env \in Envs, NEW g \in Programs, NEW e, e = ResetEnvironment(env, g)
    PROVE  /\ e \in Envs /\ ~e.reset /\ e.archive = g
           /\ e.lib = env.lib /\ e.lib_orig = env.lib_orig
           /\ (env.reset \/ env.archive # g) =>
                  e.home = NoDir /\ e.level = "" /\ e.splash = NoPort
           /\ ~(env.reset \/ env.archive # g) =>
                  e.home = env.home /\ e.level = env.level /\ e.splash = env.splash
BY DEF ResetEnvironment, Envs

LEMMA LevelFacts ==
    ASSUME NEW env \in Envs, NEW e, e = StoreLevel(env, LevelOf(env))
    PROVE  /\ e \in Envs /\ e.reset = env.reset /\ e.archive = env.archive
           /\ e.lib = env.lib /\ e.lib_orig = env.lib_orig
           /\ e.home = env.home /\ e.splash = env.splash
           /\ e.level = IF env.level = "" THEN "0" ELSE "1"
           /\ LevelOf(env) = IF env.level = "" THEN "parent"
                             ELSE IF env.level = "0" THEN "main" ELSE "subprocess"
BY DEF StoreLevel, LevelOf, Envs

LEMMA PathFacts ==
    ASSUME NEW env \in Envs, NEW dir \in Dirs, NEW e, e = SetLibraryPath(env, dir)
    PROVE  /\ e \in Envs /\ e.reset = env.reset /\ e.archive = env.archive
           /\ e.home = env.home /\ e.splash = env.splash /\ e.level = env.level
           /\ First(e.lib, dir)
<1> DEFINE D == Dirs \cup {UserDir}
<1>1. env.lib \in Seq(D) /\ env.lib_orig \in Seq(D)
  BY DEF Envs
<1>2. <<dir>> \in Seq(D) /\ First(<<dir>>, dir)
  BY DEF First
<1>3. <<dir>> \o env.lib \in Seq(D) /\ First(<<dir>> \o env.lib, dir)
  <2>1. <<dir>> \o env.lib \in Seq(D) /\ Len(<<dir>> \o env.lib) = Len(env.lib) + 1
    BY <1>1, <1>2
  <2>2. (<<dir>> \o env.lib)[1] = dir
    BY <1>1, <1>2
  <2>3. QED
    BY <1>1, <2>1, <2>2 DEF First
<1> HIDE DEF D
<1>4. CASE env.lib = <<>>
  <2>1. e = [env EXCEPT !.lib = <<dir>>]
    BY <1>4 DEF SetLibraryPath
  <2>2. e \in Envs
    BY <1>2, <2>1 DEF Envs, D
  <2>3. QED
    BY <1>2, <2>1, <2>2 DEF Envs
<1>5. CASE env.lib # <<>>
  <2>1. e = [env EXCEPT !.lib = <<dir>> \o env.lib, !.lib_orig = env.lib]
    BY <1>5 DEF SetLibraryPath
  <2>2. e \in Envs
    BY <1>1, <1>3, <2>1 DEF Envs, D
  <2>3. QED
    BY <1>3, <2>1, <2>2 DEF Envs
<1>6. QED
  BY <1>4, <1>5

LEMMA SplashFacts ==
    ASSUME NEW env \in Envs, NEW p \in Procs, NEW g \in Programs, NEW level,
           NEW e \in SplashEnvironments(env, p, g, level)
    PROVE  /\ e \in Envs /\ e.reset = env.reset /\ e.archive = env.archive
           /\ e.home = env.home /\ e.lib = env.lib /\ e.level = env.level
           /\ g \notin WithSplash => e.splash = env.splash
           /\ (g \in WithSplash /\ level = "subprocess") => e.splash = Suppressed
           /\ (level = "main" /\ g \in OneFile) => e.splash = env.splash
           /\ level # "subprocess" => e.splash \in {env.splash, Port(p)}
BY ZenonT(60) DEF SplashEnvironments, Envs, Ports

\* What a booting process makes of its environment.
LEMMA BootFacts ==
    ASSUME TypeOK, LocalInv, NEW p \in Procs, Booting(p)
    PROVE  /\ proc[p] \in ProcType /\ proc[p].prog \in Programs /\ BootOK(proc[p])
           /\ proc[p].how # "none"
           /\ ChildEnv(p) \in Envs /\ ~ChildEnv(p).reset
           /\ ChildEnv(p).archive = proc[p].prog /\ ChildEnv(p).lib = proc[p].env.lib
           /\ ~Inherits(proc[p]) =>
                  /\ BootLevel(p) = "parent" /\ ChildEnv(p).level = "0"
                  /\ ChildEnv(p).home = NoDir /\ ChildEnv(p).splash = NoPort
           /\ (Inherits(proc[p]) /\ proc[p].env.level # "") =>
                  /\ BootLevel(p) = IF proc[p].env.level = "0" THEN "main" ELSE "subprocess"
                  /\ ChildEnv(p).level = "1"
                  /\ ChildEnv(p).home = proc[p].env.home
                  /\ ChildEnv(p).splash = proc[p].env.splash
<1>1. /\ proc[p] \in ProcType /\ proc[p].prog \in Programs /\ BootOK(proc[p])
      /\ proc[p].how # "none" /\ proc[p].env \in Envs
  BY DEF TypeOK, LocalInv, ProcOK, Booting, ProcType
<1> DEFINE b == BootEnv(p)
<1> DEFINE c == ChildEnv(p)
<1>2. /\ b = ResetEnvironment(proc[p].env, proc[p].prog)
      /\ c = StoreLevel(b, LevelOf(b)) /\ BootLevel(p) = LevelOf(b)
  BY DEF ChildEnv, BootLevel, BootEnv
<1> HIDE DEF b, c
<1>3. /\ b \in Envs /\ ~b.reset /\ b.archive = proc[p].prog /\ b.lib = proc[p].env.lib
      /\ ~Inherits(proc[p]) => b.home = NoDir /\ b.level = "" /\ b.splash = NoPort
      /\ Inherits(proc[p]) =>
             /\ b.home = proc[p].env.home /\ b.level = proc[p].env.level
             /\ b.splash = proc[p].env.splash
  <2> DEFINE old == proc[p].env
  <2> DEFINE prg == proc[p].prog
  <2>1. old \in Envs /\ prg \in Programs /\ b = ResetEnvironment(old, prg)
    BY <1>1, <1>2
  <2>2. /\ b \in Envs /\ ~b.reset /\ b.archive = prg /\ b.lib = old.lib
        /\ (old.reset \/ old.archive # prg) =>
               b.home = NoDir /\ b.level = "" /\ b.splash = NoPort
        /\ ~(old.reset \/ old.archive # prg) =>
               b.home = old.home /\ b.level = old.level /\ b.splash = old.splash
    <3> HIDE DEF old, prg
    <3>1. QED
      BY <2>1 DEF ResetEnvironment, Envs
  <2>3. QED
    BY <2>2, Zenon DEF Inherits
<1>4. b.level \in {"", "0", "1"}
  BY <1>3 DEF Envs
<1>5. /\ c \in Envs /\ ~c.reset /\ c.archive = proc[p].prog /\ c.lib = proc[p].env.lib
      /\ c.home = b.home /\ c.splash = b.splash
      /\ c.level = IF b.level = "" THEN "0" ELSE "1"
      /\ BootLevel(p) = IF b.level = "" THEN "parent"
                        ELSE IF b.level = "0" THEN "main" ELSE "subprocess"
  BY <1>2, <1>3, LevelFacts, ZenonT(60)
<1>6. QED
  BY <1>1, <1>3, <1>4, <1>5 DEF c

-----------------------------------------------------------------------------
(* Frames: what is left to show of a step that changes one process.        *)

\* Only p changes.
Only(p) == \A s \in Procs : s # p => proc'[s] = proc[s]

LEMMA LocalFrame ==
    ASSUME TypeOK, LocalInv, NEW p \in Procs, Only(p), DOMAIN proc' = Procs,
           proc' = [s \in Procs |-> proc'[s]],
           proc'[p] \in ProcType, ProcOK(p, proc'[p]), dirs' \subseteq Procs
    PROVE  TypeOK' /\ LocalInv'
<1>1. \A s \in Procs : proc'[s] \in ProcType
  BY DEF TypeOK, Only
<1>2. proc' \in [Procs -> ProcType]
  BY <1>1
<1>3. \A s \in Procs : ProcOK(s, proc'[s])
  BY DEF LocalInv, Only
<1>4. QED
  BY <1>2, <1>3 DEF TypeOK, LocalInv

\* A process that does not change its family, and on which no other depends.
LEMMA FamilyFrame ==
    ASSUME FamilyInv, NEW p \in Procs, Only(p), dirs \ {p} \subseteq dirs',
           /\ proc'[p].how = proc[p].how /\ proc'[p].prog = proc[p].prog
           /\ proc'[p].parent = proc[p].parent /\ proc'[p].instance = proc[p].instance,
           proc[p].pc # "none", proc'[p].pc # "none",
           proc'[p].pc \in {"boot", "app"} => Live(p),
           proc[p].pc \in {"wait", "cleanup", "exited", "killed"} =>
               proc'[p].pc \in {"wait", "cleanup", "exited", "killed"},
           \A q \in Procs : (proc[q].how = "worker" /\ proc[q].parent = p /\ Live(q)) =>
               proc'[p].pc = "app",
           \A q \in Procs : (proc[q].how = "fork" /\ proc[q].parent = p /\ Live(q)) =>
               proc'[p].pc \in {"wait", "killed"} /\ p \in dirs'
    PROVE  FamilyInv'
<1>1. \A s \in Procs : /\ proc'[s].how = proc[s].how /\ proc'[s].prog = proc[s].prog
                       /\ proc'[s].parent = proc[s].parent
                       /\ proc'[s].instance = proc[s].instance
                       /\ (Live(s))' => Live(s)
                       /\ proc'[s].pc = "none" <=> proc[s].pc = "none"
  BY DEF Only, Live
<1>2. ASSUME NEW q \in Procs PROVE (ForkInv(q))'
  <2>1. ForkInv(q)
    BY DEF FamilyInv
  <2>2. CASE proc[q].how # "fork"
    BY <1>1, <2>2 DEF ForkInv
  <2>3. CASE proc[q].how = "fork" /\ proc[q].parent = p
    BY <1>1, <2>1, <2>3 DEF ForkInv
  <2>4. CASE proc[q].how = "fork" /\ proc[q].parent # p
    BY <1>1, <2>1, <2>4 DEF ForkInv, Only
  <2>5. QED
    BY <2>2, <2>3, <2>4
<1>3. ASSUME NEW q \in Procs PROVE (WorkerInv(q))'
  <2>1. WorkerInv(q)
    BY DEF FamilyInv
  <2>2. CASE ~(proc[q].how = "worker" /\ Live(q))
    BY <1>1, <2>2 DEF WorkerInv
  <2>3. CASE proc[q].how = "worker" /\ Live(q) /\ proc[q].parent = p
    BY <1>1, <2>1, <2>3 DEF WorkerInv
  <2>4. CASE proc[q].how = "worker" /\ Live(q) /\ proc[q].parent # p
    BY <1>1, <2>1, <2>4 DEF WorkerInv, Only
  <2>5. QED
    BY <2>2, <2>3, <2>4
<1>4. QED
  BY <1>1, <1>2, <1>3 DEF FamilyInv

-----------------------------------------------------------------------------
(* The initial state, and the ends of processes.                           *)

LEMMA CleanFacts ==
    ASSUME NEW path \in UserPaths \cup {<<>>}, NEW e, e = CleanEnv(path)
    PROVE  e \in Envs /\ ~e.reset /\ e.archive = NoProgram
<1>1. path \in Seq({UserDir})
  <2>1. UserPaths \subseteq Seq({UserDir})
    BY LaunchAssumption
  <2>2. <<>> \in Seq({UserDir})
    OBVIOUS
  <2>3. QED
    BY <2>1, <2>2
<1>2. path \in Seq(Dirs \cup {UserDir}) /\ <<>> \in Seq(Dirs \cup {UserDir})
  BY <1>1
<1>3. QED
  BY <1>2 DEF CleanEnv, Envs

LEMMA UnusedFacts ==
    ASSUME NEW p \in Procs
    PROVE  Unused \in ProcType /\ ProcOK(p, Unused)
<1>1. CleanEnv(<<>>) \in Envs
  BY CleanFacts
<1>2. Unused \in ProcType
  BY <1>1 DEF Unused, ProcType
<1>3. ProcOK(p, Unused)
  BY DEF Unused, ProcOK, New, ParentPCs
<1>4. QED
  BY <1>2, <1>3

LEMMA InitInv == Init => Inv
<1> SUFFICES ASSUME Init PROVE Inv
  OBVIOUS
<1>1. proc = [p \in Procs |-> Unused] /\ dirs = {}
  BY DEF Init
<1>2. TypeOK
  BY <1>1, UnusedFacts DEF TypeOK
<1>3. LocalInv
  BY <1>1, UnusedFacts DEF LocalInv
<1>4. \A p \in Procs : proc[p].pc = "none" /\ proc[p].how = "none"
  BY <1>1 DEF Unused
<1>5. DirsInv
  BY <1>1, <1>4 DEF DirsInv, ParentPCs
<1>6. FamilyInv
  BY <1>4 DEF FamilyInv, ForkInv, WorkerInv
<1>7. QED
  BY <1>2, <1>3, <1>5, <1>6 DEF Inv

LEMMA EndFacts ==
    ASSUME TypeOK, NEW p \in Procs, ProcOK(p, proc[p]), proc[p].pc # "none",
           NEW pc \in Ended, NEW e, e = EndOf(p, pc)
    PROVE  /\ e \in ProcType /\ ProcOK(p, e) /\ e.pc = pc
           /\ e.how = proc[p].how /\ e.prog = proc[p].prog
           /\ e.parent = proc[p].parent /\ e.instance = proc[p].instance
<1>1. CleanEnv(<<>>) \in Envs
  BY CleanFacts
<1>2. proc[p] \in ProcType
  BY DEF TypeOK
<1>3. /\ e \in ProcType /\ e.pc = pc
      /\ e.how = proc[p].how /\ e.prog = proc[p].prog
      /\ e.parent = proc[p].parent /\ e.instance = proc[p].instance
  BY <1>1, <1>2 DEF EndOf, ProcType
<1>4. ProcOK(p, e)
  BY <1>2, <1>3 DEF ProcOK, Ended, ParentPCs
<1>5. QED
  BY <1>3, <1>4

\* A running process ends; its directory may go with it.
LEMMA EndStep ==
    ASSUME Inv, NEW p \in Procs, proc[p].pc \in Running, NEW pc \in Ended,
           proc' = [proc EXCEPT ![p] = EndOf(p, pc)],
           dirs \ {p} \subseteq dirs', dirs' \subseteq dirs,
           proc[p].pc \in {"wait", "cleanup"} => pc # "failed",
           \A q \in Procs : ~(proc[q].how = "worker" /\ proc[q].parent = p /\ Live(q)),
           \A q \in Procs : (proc[q].how = "fork" /\ proc[q].parent = p /\ Live(q)) =>
               pc = "killed" /\ p \in dirs'
    PROVE  Inv'
<1>1. TypeOK /\ LocalInv /\ DirsInv /\ FamilyInv /\ ProcOK(p, proc[p])
  BY DEF Inv, LocalInv
<1>2. proc[p].pc # "none"
  BY DEF Running
<1>3. proc'[p] = EndOf(p, pc) /\ Only(p) /\ proc' = [s \in Procs |-> proc'[s]]
      /\ DOMAIN proc' = Procs
  BY <1>1 DEF TypeOK, Only
<1>4. /\ proc'[p] \in ProcType /\ ProcOK(p, proc'[p]) /\ proc'[p].pc = pc
      /\ proc'[p].how = proc[p].how /\ proc'[p].prog = proc[p].prog
      /\ proc'[p].parent = proc[p].parent /\ proc'[p].instance = proc[p].instance
  BY <1>1, <1>2, <1>3, EndFacts
<1>5. TypeOK' /\ LocalInv'
  <2>1. dirs' \subseteq Procs
    BY <1>1 DEF TypeOK
  <2>2. QED
    BY <1>1, <1>3, <1>4, <2>1, LocalFrame
<1>6. DirsInv'
  BY <1>1, <1>3, <1>4 DEF DirsInv, Only, Ended, ParentPCs, TypeOK
<1>7. FamilyInv'
  <2>1. pc \in {"exited", "failed", "killed"}
    BY DEF Ended
  <2>2. /\ proc'[p].pc \notin {"boot", "app"} /\ proc'[p].pc # "none"
        /\ proc[p].pc \in {"wait", "cleanup", "exited", "killed"} =>
               proc'[p].pc \in {"wait", "cleanup", "exited", "killed"}
    BY <1>4, <2>1 DEF Running
  <2>3. QED
    BY <1>1, <1>2, <1>3, <1>4, <2>2, FamilyFrame
<1>8. QED
  BY <1>5, <1>6, <1>7 DEF Inv

\* Only an application has workers, and only a waiting parent a living child.
LEMMA Childless ==
    ASSUME Inv, NEW p \in Procs
    PROVE  /\ proc[p].pc # "app" =>
                \A q \in Procs : ~(proc[q].how = "worker" /\ proc[q].parent = p /\ Live(q))
           /\ proc[p].pc \notin {"wait", "killed"} =>
                \A q \in Procs : ~(proc[q].how = "fork" /\ proc[q].parent = p /\ Live(q))
BY DEF Inv, FamilyInv, ForkInv, WorkerInv

LEMMA BootFailsStep == ASSUME Inv, NEW p \in Procs, BootFails(p) PROVE Inv'
BY Childless, EndStep DEF BootFails, Booting, Running, Ended

LEMMA ExtractFailsStep == ASSUME Inv, NEW p \in Procs, ExtractFails(p) PROVE Inv'
BY Childless, EndStep DEF ExtractFails, Running, Ended

LEMMA CleanupStep == ASSUME Inv, NEW p \in Procs, Cleanup(p) PROVE Inv'
BY Childless, EndStep DEF Cleanup, Running, Ended

LEMMA AppExitsStep == ASSUME Inv, NEW p \in Procs, AppExits(p) PROVE Inv'
<1>1. \A q \in Procs : ~(proc[q].how = "worker" /\ proc[q].parent = p /\ Live(q))
  BY DEF AppExits, Live, Ended
<1>2. QED
  BY <1>1, Childless, EndStep DEF AppExits, Running, Ended

LEMMA KillStep == ASSUME Inv, NEW p \in Procs, Kill(p) PROVE Inv'
<1>1. proc[p].pc # "app"
  BY DEF Kill, Inv, LocalInv, ProcOK, AppOK
<1>2. \A q \in Procs : (proc[q].how = "fork" /\ proc[q].parent = p /\ Live(q)) => p \in dirs
  BY DEF Inv, FamilyInv, ForkInv
<1>3. QED
  BY <1>1, <1>2, Childless, EndStep DEF Kill, Ended

-----------------------------------------------------------------------------
(* Steps in which a process goes on.                                       *)

LEMMA ChangeStep ==
    ASSUME Inv, NEW p \in Procs, proc[p].pc \in Running \ {"app"},
           proc[p].pc = "wait" =>
             \A q \in Procs : ~(proc[q].how = "fork" /\ proc[q].parent = p /\ Live(q)),
           NEW r \in ProcType, proc' = [proc EXCEPT ![p] = r],
           r.how = proc[p].how, r.prog = proc[p].prog, r.parent = proc[p].parent,
           r.instance = proc[p].instance, r.pc \in Running, ProcOK(p, r),
           r.pc \in {"boot", "app"} => Live(p),
           proc[p].pc \in {"wait", "cleanup"} => r.pc = "cleanup",
           dirs' \in {dirs, dirs \cup {p}},
           p \in dirs' => proc[p].how \in New,
           r.pc \in ParentPCs => p \in dirs'
    PROVE  Inv'
<1>1. TypeOK /\ LocalInv /\ DirsInv /\ FamilyInv /\ proc[p] \in ProcType
  BY DEF Inv, TypeOK
<1>2. proc'[p] = r /\ Only(p) /\ proc' = [s \in Procs |-> proc'[s]] /\ DOMAIN proc' = Procs
  BY <1>1 DEF TypeOK, Only
<1>5. TypeOK' /\ LocalInv'
  <2>1. dirs' \subseteq Procs
    BY <1>1 DEF TypeOK
  <2>2. QED
    BY <1>1, <1>2, <2>1, LocalFrame
<1>6. DirsInv'
  BY <1>1, <1>2 DEF DirsInv, Only, TypeOK
<1>7. FamilyInv'
  <2>1. /\ proc[p].pc # "none" /\ r.pc # "none" /\ proc[p].pc # "killed"
        /\ proc[p].pc # "exited"
    BY DEF Running
  <2>2. proc[p].pc \in {"wait", "cleanup", "exited", "killed"} =>
            proc'[p].pc \in {"wait", "cleanup", "exited", "killed"}
    BY <1>2, <2>1
  <2>3. /\ \A q \in Procs : ~(proc[q].how = "worker" /\ proc[q].parent = p /\ Live(q))
        /\ \A q \in Procs : ~(proc[q].how = "fork" /\ proc[q].parent = p /\ Live(q))
    BY <2>1, Childless
  <2>4. dirs \ {p} \subseteq dirs'
    OBVIOUS
  <2>5. QED
    BY <1>1, <1>2, <2>1, <2>2, <2>3, <2>4, FamilyFrame
<1>8. QED
  BY <1>5, <1>6, <1>7 DEF Inv

LEMMA BootKind ==
    ASSUME Inv, NEW p \in Procs, Booting(p)
    PROVE  /\ BootLevel(p) = "parent" => proc[p].how \in New /\ ~Inherits(proc[p])
           /\ BootLevel(p) # "parent" =>
                \/ RestartedOnedir(proc[p]) /\ BootLevel(p) = "main"
                \/ ForkedChild(proc[p]) /\ BootLevel(p) = "main"
                \/ StartedWorker(proc[p]) /\ BootLevel(p) = "subprocess"
<1>1. BootOK(proc[p])
  BY BootFacts DEF Inv
<1>2. CASE proc[p].how \in New /\ ~Inherits(proc[p])
  BY <1>2, BootFacts DEF Inv
<1>3. CASE RestartedOnedir(proc[p])
  BY <1>3, BootFacts DEF Inv, RestartedOnedir
<1>4. CASE ForkedChild(proc[p])
  BY <1>4, BootFacts DEF Inv, ForkedChild
<1>5. CASE StartedWorker(proc[p])
  BY <1>5, BootFacts DEF Inv, StartedWorker
<1>6. QED
  BY <1>1, <1>2, <1>3, <1>4, <1>5 DEF BootOK

LEMMA BootParentStep == ASSUME Inv, NEW p \in Procs, BootParent(p) PROVE Inv'
<1>1. /\ Booting(p) /\ proc[p].prog \in OneFile /\ BootLevel(p) = "parent"
      /\ dirs' = dirs \cup {p}
  BY DEF BootParent
<1>2. PICK env \in SplashEnvironments(ChildEnv(p), p, proc[p].prog, "parent") :
          proc' = [proc EXCEPT ![p].pc = "extract", ![p].env = env,
                               ![p].level = "parent", ![p].home = Temp(p)]
  BY DEF BootParent
<1>3. /\ proc[p] \in ProcType /\ proc[p].prog \in Programs
      /\ ChildEnv(p) \in Envs /\ ~ChildEnv(p).reset /\ ChildEnv(p).archive = proc[p].prog
      /\ ChildEnv(p).level = "0" /\ ChildEnv(p).splash = NoPort
      /\ proc[p].how \in New /\ proc[p].instance = p
  BY <1>1, BootFacts, BootKind DEF Inv, LocalInv, ProcOK
<1>4. /\ env \in Envs /\ ~env.reset /\ env.archive = proc[p].prog /\ env.level = "0"
      /\ env.splash \in {NoPort, Port(p)}
  BY <1>2, <1>3, SplashFacts
<1> DEFINE r == [proc[p] EXCEPT !.pc = "extract", !.env = env, !.level = "parent",
                                !.home = Temp(p)]
<1>5. /\ r \in ProcType /\ r.parent = proc[p].parent
      /\ r.pc = "extract" /\ r.env = env /\ r.level = "parent" /\ r.how = proc[p].how
      /\ r.prog = proc[p].prog /\ r.instance = proc[p].instance
  BY <1>3, <1>4 DEF ProcType, Running, Dirs
<1>6. proc' = [proc EXCEPT ![p] = r]
  BY <1>2, <1>3 DEF ProcType
<1> HIDE DEF r
<1>7. ParentOK(r)
  BY <1>1, <1>3, <1>4, <1>5 DEF ParentOK, Inherits
<1>8. ProcOK(p, r)
  BY <1>1, <1>3, <1>5, <1>7 DEF ProcOK, New
<1>9. /\ proc[p].pc \in Running \ {"app"} /\ proc[p].pc \notin {"wait", "cleanup"}
      /\ r.pc \in Running /\ r.pc \notin {"boot", "app"}
  BY <1>1, <1>5 DEF Booting, Running
<1>10. QED
  BY <1>1, <1>3, <1>5, <1>6, <1>8, <1>9, ChangeStep

LEMMA BootChildStep == ASSUME Inv, NEW p \in Procs, BootChild(p) PROVE Inv'
<1>1. /\ Booting(p) /\ proc[p].prog \in OneFile /\ BootLevel(p) # "parent"
      /\ dirs' = dirs
  BY DEF BootChild
<1>2. PICK env \in SplashEnvironments(ChildEnv(p), p, proc[p].prog, BootLevel(p)) :
          proc' = [proc EXCEPT ![p].pc = IF env.home = NoDir THEN "failed" ELSE "app",
                               ![p].env = env, ![p].level = BootLevel(p),
                               ![p].home = env.home]
  BY DEF BootChild
<1>3. /\ proc[p] \in ProcType /\ proc[p].prog \in Programs
      /\ \/ ForkedChild(proc[p]) /\ BootLevel(p) = "main"
         \/ StartedWorker(proc[p]) /\ BootLevel(p) = "subprocess"
  BY <1>1, BootFacts, BootKind DEF Inv, RestartedOnedir
<1>4. /\ ChildEnv(p) \in Envs /\ ~ChildEnv(p).reset /\ ChildEnv(p).archive = proc[p].prog
      /\ ChildEnv(p).level = "1" /\ ChildEnv(p).home = Temp(proc[p].instance)
      /\ ChildEnv(p).splash = proc[p].env.splash
      /\ First(ChildEnv(p).lib, Temp(proc[p].instance))
  BY <1>1, <1>3, BootFacts DEF Inv, ForkedChild, StartedWorker, OwnHome, OwnVariable
<1>5. /\ env \in Envs /\ ~env.reset /\ env.archive = proc[p].prog /\ env.level = "1"
      /\ env.home = Temp(proc[p].instance) /\ First(env.lib, Temp(proc[p].instance))
      /\ proc[p].prog \in WithSplash =>
             env.splash = IF BootLevel(p) = "main" THEN proc[p].env.splash ELSE Suppressed
  BY <1>1, <1>2, <1>3, <1>4, SplashFacts
<1>6. env.home # NoDir
  BY <1>5 DEF Temp, NoDir
<1> DEFINE r == [proc[p] EXCEPT !.pc = "app", !.env = env, !.level = BootLevel(p),
                                !.home = env.home]
<1>7. /\ r \in ProcType /\ r.parent = proc[p].parent
      /\ r.pc = "app" /\ r.env = env /\ r.level = BootLevel(p) /\ r.how = proc[p].how
      /\ r.prog = proc[p].prog /\ r.instance = proc[p].instance /\ r.home = env.home
  <2>1. env.home \in Dirs \cup {NoDir}
    BY <1>5 DEF Envs, Dirs
  <2>2. QED
    BY <1>3, <1>5, <2>1 DEF ProcType, Running
<1>8. proc' = [proc EXCEPT ![p] = r]
  BY <1>2, <1>3, <1>6 DEF ProcType
<1> HIDE DEF r
<1>9. AppOK(r)
  <2>1. CASE ForkedChild(proc[p]) /\ BootLevel(p) = "main"
    BY <1>1, <1>5, <1>7, <2>1 DEF AppOK, ForkedChild, Inherits, OwnHome, OwnVariable
  <2>2. CASE StartedWorker(proc[p]) /\ BootLevel(p) = "subprocess"
    BY <1>1, <1>5, <1>7, <2>2 DEF AppOK, StartedWorker, Inherits, OwnHome, OwnVariable
  <2>3. QED
    BY <1>3, <2>1, <2>2
<1>10. ProcOK(p, r)
  BY <1>1, <1>3, <1>7, <1>9 DEF ProcOK, New, Inv, LocalInv, ParentPCs, Booting
<1>11. /\ proc[p].pc \in Running \ {"app"} /\ proc[p].pc \notin {"wait", "cleanup"}
       /\ r.pc \in Running /\ Live(p) /\ r.pc \notin ParentPCs
  BY <1>1, <1>7 DEF Booting, Running, Live, ParentPCs
<1>12. p \in dirs => proc[p].how \in New
  BY DEF Inv, DirsInv
<1>13. QED
  BY <1>1, <1>7, <1>8, <1>10, <1>11, <1>12, ChangeStep

LEMMA BootOnedirStep == ASSUME Inv, NEW p \in Procs, BootOnedir(p) PROVE Inv'
<1>1. /\ Booting(p) /\ proc[p].prog \notin OneFile /\ BootLevel(p) # "parent"
      /\ dirs' = dirs
  BY DEF BootOnedir
<1>2. PICK env \in SplashEnvironments(ChildEnv(p), p, proc[p].prog, BootLevel(p)) :
          proc' = [proc EXCEPT ![p].pc = "app", ![p].env = env,
                               ![p].level = BootLevel(p), ![p].home = Installed(proc[p].prog)]
  BY DEF BootOnedir
<1>3. /\ proc[p] \in ProcType /\ proc[p].prog \in Programs
      /\ \/ RestartedOnedir(proc[p]) /\ BootLevel(p) = "main"
         \/ StartedWorker(proc[p]) /\ BootLevel(p) = "subprocess"
      /\ proc[p].how \in New => proc[p].instance = p
  BY <1>1, BootFacts, BootKind DEF Inv, ForkedChild, LocalInv, ProcOK
<1>4. /\ ChildEnv(p) \in Envs /\ ~ChildEnv(p).reset /\ ChildEnv(p).archive = proc[p].prog
      /\ ChildEnv(p).level = "1" /\ ChildEnv(p).home = NoDir
      /\ ChildEnv(p).splash = proc[p].env.splash
      /\ First(ChildEnv(p).lib, Installed(proc[p].prog))
  BY <1>1, <1>3, BootFacts DEF Inv, RestartedOnedir, StartedWorker, OwnHome, OwnVariable
<1>5. /\ env \in Envs /\ ~env.reset /\ env.archive = proc[p].prog /\ env.level = "1"
      /\ env.home = NoDir /\ First(env.lib, Installed(proc[p].prog))
      /\ (proc[p].prog \in WithSplash /\ BootLevel(p) = "subprocess") =>
             env.splash = Suppressed
      /\ BootLevel(p) = "main" => env.splash \in {proc[p].env.splash, Port(p)}
  BY <1>1, <1>2, <1>3, <1>4, SplashFacts
<1> DEFINE r == [proc[p] EXCEPT !.pc = "app", !.env = env, !.level = BootLevel(p),
                                !.home = Installed(proc[p].prog)]
<1>7. /\ r \in ProcType /\ r.parent = proc[p].parent
      /\ r.pc = "app" /\ r.env = env /\ r.level = BootLevel(p) /\ r.how = proc[p].how
      /\ r.prog = proc[p].prog /\ r.instance = proc[p].instance
      /\ r.home = Installed(proc[p].prog)
  BY <1>3, <1>5 DEF ProcType, Running, Dirs
<1>8. proc' = [proc EXCEPT ![p] = r]
  BY <1>2, <1>3 DEF ProcType
<1> HIDE DEF r
<1>9. AppOK(r)
  <2>1. CASE RestartedOnedir(proc[p]) /\ BootLevel(p) = "main"
    BY <1>1, <1>3, <1>5, <1>7, <2>1
    DEF AppOK, RestartedOnedir, Inherits, OwnHome, OwnVariable, New
  <2>2. CASE StartedWorker(proc[p]) /\ BootLevel(p) = "subprocess"
    BY <1>1, <1>5, <1>7, <2>2 DEF AppOK, StartedWorker, Inherits, OwnHome, OwnVariable
  <2>3. QED
    BY <1>3, <2>1, <2>2
<1>10. ProcOK(p, r)
  BY <1>1, <1>3, <1>7, <1>9 DEF ProcOK, New, Inv, LocalInv, ParentPCs, Booting
<1>11. /\ proc[p].pc \in Running \ {"app"} /\ proc[p].pc \notin {"wait", "cleanup"}
       /\ r.pc \in Running /\ Live(p) /\ r.pc \notin ParentPCs
  BY <1>1, <1>7 DEF Booting, Running, Live, ParentPCs
<1>12. p \in dirs => proc[p].how \in New
  BY DEF Inv, DirsInv
<1>13. QED
  BY <1>1, <1>7, <1>8, <1>10, <1>11, <1>12, ChangeStep

LEMMA RestartOnedirStep == ASSUME Inv, NEW p \in Procs, RestartOnedir(p) PROVE Inv'
<1>1. /\ Booting(p) /\ proc[p].prog \notin OneFile /\ BootLevel(p) = "parent"
      /\ dirs' = dirs
  BY DEF RestartOnedir
<1> DEFINE env == SetLibraryPath(ChildEnv(p), Installed(proc[p].prog))
<1> DEFINE r == [proc[p] EXCEPT !.env = env]
<1>2. /\ proc[p] \in ProcType /\ proc[p].prog \in Programs
      /\ ChildEnv(p) \in Envs /\ ~ChildEnv(p).reset /\ ChildEnv(p).archive = proc[p].prog
      /\ ChildEnv(p).level = "0" /\ ChildEnv(p).home = NoDir /\ ChildEnv(p).splash = NoPort
      /\ proc[p].how \in New /\ proc[p].level = "unknown"
  BY <1>1, BootFacts, BootKind DEF Inv, BootOK
<1>3. Installed(proc[p].prog) \in Dirs
  BY <1>2 DEF Dirs
<1>4. /\ env \in Envs /\ ~env.reset /\ env.archive = proc[p].prog /\ env.level = "0"
      /\ env.home = NoDir /\ env.splash = NoPort
      /\ First(env.lib, Installed(proc[p].prog))
  BY <1>2, <1>3, PathFacts
<1>5. proc' = [proc EXCEPT ![p] = r]
  BY <1>2 DEF ProcType, RestartOnedir
<1> HIDE DEF env
<1>6. /\ r \in ProcType /\ r.parent = proc[p].parent
      /\ r.pc = "boot" /\ r.env = env /\ r.level = "unknown" /\ r.how = proc[p].how
      /\ r.prog = proc[p].prog /\ r.instance = proc[p].instance
  BY <1>1, <1>2, <1>4 DEF ProcType, Booting
<1> HIDE DEF r
<1>7. BootOK(r)
  BY <1>1, <1>2, <1>4, <1>6 DEF BootOK, RestartedOnedir, Inherits
<1>8. ProcOK(p, r)
  BY <1>1, <1>2, <1>6, <1>7 DEF ProcOK, New, Inv, LocalInv, ParentPCs, Booting
<1>9. /\ proc[p].pc \in Running \ {"app"} /\ proc[p].pc \notin {"wait", "cleanup"}
      /\ r.pc \in Running /\ Live(p) /\ r.pc \notin ParentPCs
  BY <1>1, <1>6 DEF Booting, Running, Live, ParentPCs
<1>10. QED
  BY <1>1, <1>2, <1>5, <1>6, <1>8, <1>9, ChangeStep

LEMMA ExtractStep == ASSUME Inv, NEW p \in Procs, Extract(p) PROVE Inv'
<1>1. proc[p].pc = "extract" /\ dirs' = dirs
  BY DEF Extract
<1> DEFINE path == SetLibraryPath(proc[p].env, Temp(p))
<1> DEFINE env == [path EXCEPT !.home = Temp(p)]
<1> DEFINE r == [proc[p] EXCEPT !.pc = "fork", !.env = env]
<1>2. /\ proc[p] \in ProcType /\ ParentOK(proc[p]) /\ proc[p].instance = p
      /\ p \in dirs /\ proc[p].how \in New /\ proc[p].env \in Envs
  BY <1>1 DEF Inv, TypeOK, LocalInv, ProcOK, ParentOK, ParentPCs, DirsInv, ProcType
<1>3. /\ path \in Envs /\ path.reset = proc[p].env.reset
      /\ path.archive = proc[p].env.archive /\ path.splash = proc[p].env.splash
      /\ path.level = proc[p].env.level /\ First(path.lib, Temp(p))
  BY <1>2, PathFacts DEF Dirs
<1>4. proc' = [proc EXCEPT ![p] = r]
  BY <1>2 DEF ProcType, Extract
<1> HIDE DEF path
<1>5. /\ env \in Envs /\ env.reset = proc[p].env.reset
      /\ env.archive = proc[p].env.archive /\ env.splash = proc[p].env.splash
      /\ env.level = proc[p].env.level /\ First(env.lib, Temp(p)) /\ env.home = Temp(p)
  BY <1>3 DEF Envs
<1> HIDE DEF env
<1>6. /\ r \in ProcType /\ r.parent = proc[p].parent
      /\ r.pc = "fork" /\ r.env = env /\ r.level = proc[p].level /\ r.how = proc[p].how
      /\ r.prog = proc[p].prog /\ r.instance = proc[p].instance
  BY <1>2, <1>5 DEF ProcType, Running
<1> HIDE DEF r
<1>7. ParentOK(r)
  BY <1>2, <1>5, <1>6 DEF ParentOK, Inherits
<1>8. ProcOK(p, r)
  BY <1>1, <1>2, <1>6, <1>7 DEF ProcOK, New, Inv, LocalInv
<1>9. /\ proc[p].pc \in Running \ {"app"} /\ proc[p].pc \notin {"wait", "cleanup"}
      /\ r.pc \in Running /\ r.pc \notin {"boot", "app"}
  BY <1>1, <1>6 DEF Running
<1>10. QED
  BY <1>1, <1>2, <1>4, <1>6, <1>8, <1>9, ChangeStep

\* To the clean-up, when there is no child or none that still runs.
LEMMA ToCleanupStep ==
    ASSUME Inv, NEW p \in Procs, proc[p].pc \in {"fork", "wait"},
           proc' = [proc EXCEPT ![p].pc = "cleanup"], dirs' = dirs,
           \A q \in Procs : ~(proc[q].how = "fork" /\ proc[q].parent = p /\ Live(q))
    PROVE  Inv'
<1> DEFINE r == [proc[p] EXCEPT !.pc = "cleanup"]
<1>1. /\ proc[p] \in ProcType /\ ParentOK(proc[p]) /\ p \in dirs /\ proc[p].how \in New
  BY DEF Inv, TypeOK, LocalInv, ProcOK, ParentOK, ParentPCs, DirsInv
<1>2. proc' = [proc EXCEPT ![p] = r]
  BY <1>1 DEF ProcType
<1>3. /\ r \in ProcType /\ r.parent = proc[p].parent
      /\ r.pc = "cleanup" /\ r.env = proc[p].env /\ r.level = proc[p].level
      /\ r.how = proc[p].how /\ r.prog = proc[p].prog /\ r.instance = proc[p].instance
  BY <1>1 DEF ProcType, Running
<1> HIDE DEF r
<1>4. ParentOK(r)
  BY <1>1, <1>3 DEF ParentOK, Inherits
<1>5. ProcOK(p, r)
  BY <1>1, <1>3, <1>4 DEF ProcOK, New, Inv, LocalInv
<1>6. proc[p].pc \in Running \ {"app"} /\ r.pc \in Running /\ r.pc \notin {"boot", "app"}
  BY <1>3 DEF Running
<1>7. QED
  BY <1>1, <1>2, <1>3, <1>5, <1>6, ChangeStep

LEMMA ForkFailsStep == ASSUME Inv, NEW p \in Procs, ForkFails(p) PROVE Inv'
BY Childless, ToCleanupStep DEF ForkFails

LEMMA WaitStep == ASSUME Inv, NEW p \in Procs, Wait(p) PROVE Inv'
<1>1. \A q \in Procs : ~(proc[q].how = "fork" /\ proc[q].parent = p /\ Live(q))
  <2> SUFFICES ASSUME NEW q \in Procs, proc[q].how = "fork", proc[q].parent = p, Live(q)
               PROVE  FALSE
    OBVIOUS
  <2>1. /\ ChildOf(p) \in Procs /\ proc[ChildOf(p)].parent = p
        /\ proc[ChildOf(p)].how = "fork"
    BY DEF ChildOf
  <2>2. ChildOf(p) = q
    BY <2>1 DEF Inv, FamilyInv
  <2>3. QED
    BY <2>2 DEF Wait, Live, Ended
<1>2. QED
  BY <1>1, ToCleanupStep DEF Wait

-----------------------------------------------------------------------------
(* Steps in which a process comes into being.                              *)

\* Nobody is related to a process that is not there yet.
LEMMA FreshFacts ==
    ASSUME Inv, NEW q \in Procs, Fresh(q)
    PROVE  /\ proc[q].pc = "none" /\ proc[q].how = "none" /\ q \notin dirs
           /\ \A s \in Procs : (proc[s].how = "fork" \/ (proc[s].how = "worker" /\ Live(s)))
                 => proc[s].parent # q
           /\ \A s \in Procs : proc[s].pc # "none" => s < q
<1>1. proc[q].pc = "none" /\ proc[q].how = "none"
  BY DEF Fresh, Inv, LocalInv, ProcOK
<1>2. q \notin dirs
  BY <1>1 DEF Inv, DirsInv, New
<1>3. \A s \in Procs : (proc[s].how = "fork" \/ (proc[s].how = "worker" /\ Live(s)))
         => proc[s].parent # q
  BY <1>1 DEF Inv, FamilyInv, ForkInv, WorkerInv
<1>4. ASSUME NEW s \in Procs, proc[s].pc # "none" PROVE s < q
  <2>1. s # q /\ ~(q < s)
    BY <1>1, <1>4 DEF Inv, FamilyInv
  <2>2. s \in Nat /\ q \in Nat
    BY LaunchAssumption DEF Procs
  <2>3. QED
    BY <2>1, <2>2
<1>5. QED
  BY <1>1, <1>2, <1>3, <1>4

\* After its birth, the earlier processes are still the first ones.
LEMMA StillFirst ==
    ASSUME Inv, NEW q \in Procs, Fresh(q), proc'[q].pc # "none",
           \A s \in Procs : s # q => (proc'[s].pc = "none" <=> proc[s].pc = "none")
    PROVE  \A s, t \in Procs : (s < t /\ proc'[s].pc = "none") => proc'[t].pc = "none"
<1> SUFFICES ASSUME NEW s \in Procs, NEW t \in Procs, s < t, proc'[s].pc = "none"
             PROVE  proc'[t].pc = "none"
  OBVIOUS
<1>1. s # q /\ proc[s].pc = "none"
  OBVIOUS
<1>2. proc[t].pc = "none"
  BY <1>1 DEF Inv, FamilyInv
<1>3. CASE t = q
  <2>1. s \in 1..(q - 1)
    BY <1>3, LaunchAssumption DEF Procs
  <2>2. QED
    BY <1>1, <2>1 DEF Fresh
<1>4. QED
  BY <1>2, <1>3

\* A new process, or a worker of a running application.
LEMMA BirthStep ==
    ASSUME Inv, NEW q \in Procs, Fresh(q), NEW r \in ProcType,
           proc' = [proc EXCEPT ![q] = r], dirs' = dirs,
           r.pc = "boot", r.how \in New \cup {"worker"}, ProcOK(q, r),
           r.how = "worker" => /\ r.parent \in Procs /\ proc[r.parent].pc = "app"
                               /\ r.instance = proc[r.parent].instance
                               /\ r.prog = proc[r.parent].prog
    PROVE  Inv'
<1>1. TypeOK /\ LocalInv /\ DirsInv /\ FamilyInv
  BY DEF Inv
<1>2. proc'[q] = r /\ Only(q) /\ proc' = [s \in Procs |-> proc'[s]] /\ DOMAIN proc' = Procs
  BY <1>1 DEF TypeOK, Only
<1>3. TypeOK' /\ LocalInv'
  <2>1. dirs' \subseteq Procs
    BY <1>1 DEF TypeOK
  <2>2. QED
    BY <1>1, <1>2, <2>1, LocalFrame
<1>4. DirsInv'
  BY <1>1, <1>2, FreshFacts DEF DirsInv, Only, ParentPCs, TypeOK
<1>5. FamilyInv'
  <2>1. r.how # "fork"
    BY DEF New
  <2>2. ASSUME NEW s \in Procs PROVE (ForkInv(s))'
    <3>1. CASE s = q
      BY <1>2, <2>1, <3>1 DEF ForkInv
    <3>2. CASE s # q /\ proc[s].how = "fork"
      BY <1>1, <1>2, <3>2, FreshFacts DEF FamilyInv, ForkInv, Only, Live
    <3>3. CASE s # q /\ proc[s].how # "fork"
      BY <1>2, <3>3 DEF ForkInv, Only
    <3>4. QED
      BY <3>1, <3>2, <3>3
  <2>3. ASSUME NEW s \in Procs PROVE (WorkerInv(s))'
    <3>1. CASE s = q /\ r.how = "worker"
      <4>1. r.parent \in Procs /\ r.parent < q /\ r.parent # q
        BY <3>1, FreshFacts
      <4>2. proc'[r.parent] = proc[r.parent]
        BY <1>2, <4>1 DEF Only
      <4>3. QED
        BY <1>2, <3>1, <4>1, <4>2 DEF WorkerInv
    <3>2. CASE s = q /\ r.how # "worker"
      BY <1>2, <3>2 DEF WorkerInv
    <3>3. CASE s # q /\ proc[s].how = "worker" /\ Live(s)
      BY <1>1, <1>2, <3>3, FreshFacts DEF FamilyInv, WorkerInv, Only, Live
    <3>4. CASE s # q /\ ~(proc[s].how = "worker" /\ Live(s))
      BY <1>2, <3>4 DEF WorkerInv, Only, Live
    <3>5. QED
      BY <3>1, <3>2, <3>3, <3>4
  <2>4. \A s, t \in Procs :
          (proc'[s].how = "fork" /\ proc'[t].how = "fork" /\ proc'[s].parent = proc'[t].parent)
              => s = t
    BY <1>1, <1>2, <2>1 DEF FamilyInv, Only
  <2>5. \A s, t \in Procs : (s < t /\ proc'[s].pc = "none") => proc'[t].pc = "none"
    BY <1>2, StillFirst DEF Only
  <2>6. QED
    BY <2>2, <2>3, <2>4, <2>5 DEF FamilyInv
<1>6. QED
  BY <1>3, <1>4, <1>5 DEF Inv

LEMMA ShellStartsStep == ASSUME Inv, NEW q \in Procs, ShellStarts(q) PROVE Inv'
<1>1. PICK g \in Programs, path \in UserPaths :
        proc' = [proc EXCEPT ![q] =
                   [Unused EXCEPT !.pc = "boot", !.prog = g, !.how = "shell",
                                  !.instance = q, !.env = CleanEnv(path), !.user = path]]
  BY DEF ShellStarts
<1>2. Fresh(q) /\ dirs' = dirs
  BY DEF ShellStarts
<1> DEFINE r == [Unused EXCEPT !.pc = "boot", !.prog = g, !.how = "shell",
                               !.instance = q, !.env = CleanEnv(path), !.user = path]
<1>3. /\ CleanEnv(path) \in Envs /\ CleanEnv(path).archive = NoProgram
      /\ Unused \in ProcType /\ Unused.level = "unknown"
  BY CleanFacts, UnusedFacts DEF Unused
<1>4. /\ r \in ProcType /\ r.pc = "boot" /\ r.prog = g /\ r.how = "shell"
      /\ r.instance = q /\ r.env = CleanEnv(path) /\ r.level = "unknown"
  BY <1>3 DEF ProcType, Running
<1> HIDE DEF r
<1>5. BootOK(r)
  <2>1. r.env.archive # r.prog
    BY <1>3, <1>4, LaunchAssumption
  <2>2. QED
    BY <1>4, <2>1 DEF BootOK, Inherits, New
<1>6. ProcOK(q, r) /\ r.how \in New \cup {"worker"} /\ r.how # "worker"
  BY <1>4, <1>5 DEF ProcOK, New, ParentPCs
<1>7. proc' = [proc EXCEPT ![q] = r]
  BY <1>1 DEF r
<1>8. QED
  BY <1>2, <1>4, <1>6, <1>7, BirthStep

LEMMA SpawnStep == ASSUME Inv, NEW p \in Procs, NEW q \in Procs, Spawn(p, q) PROVE Inv'
<1> DEFINE e(how) == [proc[p].env EXCEPT
                        !.reset = (how = "restart"),
                        !.lib = IF how = "other" THEN RestoredPath(proc[p].env)
                                ELSE proc[p].env.lib]
<1> DEFINE new(g, how) ==
      [Unused EXCEPT !.pc = "boot", !.prog = g, !.how = how, !.parent = p,
                     !.instance = IF how = "worker" THEN proc[p].instance ELSE q,
                     !.env = e(how), !.user = proc[p].user]
<1>1. /\ proc[p].pc = "app" /\ Fresh(q) /\ dirs' = dirs
  BY DEF Spawn
<1>2. PICK g \in Programs, how \in {"worker", "restart", "other"} :
        /\ how = "other" <=> g # proc[p].prog
        /\ proc' = [proc EXCEPT ![q] = new(g, how)]
  BY ZenonT(60) DEF Spawn
<1>3. /\ proc[p] \in ProcType /\ AppOK(proc[p]) /\ proc[p].env \in Envs
      /\ Unused \in ProcType /\ Unused.level = "unknown"
  BY <1>1, UnusedFacts DEF Inv, TypeOK, LocalInv, ProcOK, ParentPCs, ProcType, Unused
<1> DEFINE env == e(how)
<1> DEFINE r == new(g, how)
<1>4. /\ env \in Envs /\ env.reset = (how = "restart")
      /\ env.archive = proc[p].env.archive /\ env.home = proc[p].env.home
      /\ env.level = proc[p].env.level
      /\ how # "other" => env.lib = proc[p].env.lib
  BY <1>2, <1>3 DEF Envs, RestoredPath
<1>5. proc' = [proc EXCEPT ![q] = r]
  BY <1>2
<1> HIDE DEF env
<1>6. /\ r \in ProcType /\ r.pc = "boot" /\ r.prog = g /\ r.how = how
      /\ r.parent = p /\ r.env = env /\ r.level = "unknown"
      /\ r.instance = IF how = "worker" THEN proc[p].instance ELSE q
  <2>1. r = [Unused EXCEPT !.pc = "boot", !.prog = g, !.how = how, !.parent = p,
                     !.instance = IF how = "worker" THEN proc[p].instance ELSE q,
                     !.env = env, !.user = proc[p].user]
    BY DEF env
  <2> DEFINE i == IF how = "worker" THEN proc[p].instance ELSE q
  <2>2. i \in Procs \cup {0} /\ proc[p].user \in UserPaths \cup {<<>>}
    BY <1>3 DEF ProcType
  <2>3. /\ g \in Programs
        /\ how \in {"none", "shell", "fork", "worker", "restart", "other"}
    OBVIOUS
  <2> HIDE DEF r, i, new, e
  <2>4. r = [Unused EXCEPT !.pc = "boot", !.prog = g, !.how = how, !.parent = p,
                     !.instance = i, !.env = env, !.user = proc[p].user]
    BY <2>1 DEF i
  <2>5. /\ r \in ProcType /\ r.pc = "boot" /\ r.prog = g /\ r.how = how
        /\ r.parent = p /\ r.env = env /\ r.level = "unknown" /\ r.instance = i
    BY <1>3, <1>4, <2>2, <2>3, <2>4 DEF ProcType, Running
  <2>6. QED
    BY <2>5 DEF i
<1> HIDE DEF r, e, new
<1>7. proc[p].env.archive = proc[p].prog
  BY <1>3 DEF AppOK, Inherits
<1>8. CASE how = "worker"
  <2>1. StartedWorker(r)
    BY <1>2, <1>3, <1>4, <1>6, <1>7, <1>8
    DEF StartedWorker, AppOK, Inherits, OwnHome, OwnVariable
  <2>2. ProcOK(q, r)
    BY <1>2, <1>6, <1>8, <2>1 DEF ProcOK, BootOK, New, ParentPCs
  <2>3. /\ r.how \in New \cup {"worker"} /\ r.parent \in Procs /\ proc[r.parent].pc = "app"
        /\ r.instance = proc[r.parent].instance /\ r.prog = proc[r.parent].prog
    BY <1>1, <1>2, <1>6, <1>8
  <2>4. QED
    BY <1>1, <1>5, <1>6, <2>2, <2>3, BirthStep
<1>9. CASE how # "worker"
  <2>1. ~Inherits(r)
    BY <1>2, <1>4, <1>6, <1>7, <1>9 DEF Inherits
  <2>2. how \in New
    BY <1>2, <1>9 DEF New
  <2>3. ProcOK(q, r)
    BY <1>2, <1>6, <1>9, <2>1, <2>2 DEF ProcOK, BootOK, New, ParentPCs
  <2>4. QED
    BY <1>1, <1>5, <1>6, <1>9, <2>2, <2>3, BirthStep
<1>10. QED
  BY <1>8, <1>9

LEMMA ForkStep == ASSUME Inv, NEW p \in Procs, NEW q \in Procs, Fork(p, q) PROVE Inv'
<1> DEFINE r == [proc[p] EXCEPT !.pc = "wait"]
<1> DEFINE c == [Unused EXCEPT !.pc = "boot", !.prog = proc[p].prog, !.how = "fork",
                               !.parent = p, !.instance = proc[p].instance,
                               !.env = proc[p].env, !.user = proc[p].user]
<1>1. /\ proc[p].pc = "fork" /\ Fresh(q) /\ dirs' = dirs
  BY DEF Fork
<1>2. /\ TypeOK /\ LocalInv /\ DirsInv /\ FamilyInv
      /\ proc[p] \in ProcType /\ ParentOK(proc[p]) /\ proc[p].instance = p /\ p \in dirs
      /\ proc[p].env \in Envs /\ proc[p].prog \in Programs
      /\ Unused \in ProcType /\ Unused.level = "unknown"
  BY <1>1, UnusedFacts
  DEF Inv, TypeOK, LocalInv, ProcOK, ParentOK, ParentPCs, DirsInv, ProcType, Unused
<1>3. /\ p # q /\ p < q /\ proc[q].how = "none" /\ q \notin dirs
  BY <1>1, FreshFacts
<1>4. /\ r \in ProcType /\ r.parent = proc[p].parent
      /\ r.pc = "wait" /\ r.env = proc[p].env /\ r.level = proc[p].level
      /\ r.how = proc[p].how /\ r.prog = proc[p].prog /\ r.instance = proc[p].instance
  BY <1>2 DEF ProcType, Running
<1>5. /\ c \in ProcType /\ c.pc = "boot" /\ c.prog = proc[p].prog /\ c.how = "fork"
      /\ c.parent = p /\ c.instance = p /\ c.env = proc[p].env /\ c.level = "unknown"
  BY <1>2, ZenonT(60) DEF ProcType, Running
<1>6. proc' = [proc EXCEPT ![p] = r, ![q] = c]
  BY <1>2, <1>3 DEF Fork, ProcType
<1> HIDE DEF r, c
<1>7. /\ proc'[p] = r /\ proc'[q] = c /\ proc' \in [Procs -> ProcType]
      /\ \A s \in Procs : (s # p /\ s # q) => proc'[s] = proc[s]
  BY <1>2, <1>3, <1>4, <1>5, <1>6 DEF TypeOK
<1>8. ProcOK(p, r)
  <2>1. ParentOK(r)
    BY <1>1, <1>2, <1>4 DEF ParentOK, Inherits
  <2>2. QED
    BY <1>1, <1>2, <1>4, <2>1 DEF ProcOK, New, LocalInv, ParentPCs
<1>9. ProcOK(q, c)
  <2>1. ForkedChild(c)
    BY <1>1, <1>2, <1>5 DEF ForkedChild, ParentOK, Inherits
  <2>2. QED
    BY <1>2, <1>5, <2>1 DEF ProcOK, BootOK, New, ParentPCs
<1>10. TypeOK'
  BY <1>1, <1>2, <1>7 DEF TypeOK
<1>11. LocalInv'
  BY <1>2, <1>7, <1>8, <1>9 DEF LocalInv
<1>12. DirsInv'
  BY <1>1, <1>2, <1>3, <1>4, <1>5, <1>7 DEF DirsInv, ParentPCs, TypeOK
<1>13. FamilyInv'
  <2>1. \A s \in Procs : proc[s].how = "fork" => proc[s].parent # p
    BY <1>1, <1>2 DEF FamilyInv, ForkInv
  <2>2. ASSUME NEW s \in Procs PROVE (ForkInv(s))'
    <3>1. CASE s = q
      BY <1>1, <1>2, <1>3, <1>4, <1>5, <1>7, <3>1 DEF ForkInv
    <3>2. CASE s = p
      BY <1>2, <1>4, <1>7, <3>2 DEF ForkInv, ParentOK, New
    <3>3. CASE s # q /\ s # p /\ proc[s].how = "fork"
      <4>1. ForkInv(s) /\ proc[s].parent # q /\ proc[s].parent # p
        BY <1>1, <1>2, <2>1, <3>3, FreshFacts DEF FamilyInv
      <4>2. QED
        BY <1>1, <1>7, <3>3, <4>1 DEF ForkInv, Live
    <3>4. CASE s # q /\ s # p /\ proc[s].how # "fork"
      BY <1>7, <3>4 DEF ForkInv
    <3>5. QED
      BY <3>1, <3>2, <3>3, <3>4
  <2>3. ASSUME NEW s \in Procs PROVE (WorkerInv(s))'
    <3>1. CASE s = q
      BY <1>5, <1>7, <3>1 DEF WorkerInv
    <3>2. CASE s = p
      BY <1>2, <1>4, <1>7, <3>2 DEF WorkerInv, ParentOK, New
    <3>3. CASE s # q /\ s # p /\ proc[s].how = "worker" /\ Live(s)
      <4>1. WorkerInv(s) /\ proc[s].parent # q /\ proc[s].parent # p
        BY <1>1, <1>2, <3>3, FreshFacts DEF FamilyInv, WorkerInv
      <4>2. QED
        BY <1>7, <3>3, <4>1 DEF WorkerInv
    <3>4. CASE s # q /\ s # p /\ ~(proc[s].how = "worker" /\ Live(s))
      BY <1>7, <3>4 DEF WorkerInv, Live
    <3>5. QED
      BY <3>1, <3>2, <3>3, <3>4
  <2>4. \A s, t \in Procs :
          (proc'[s].how = "fork" /\ proc'[t].how = "fork" /\ proc'[s].parent = proc'[t].parent)
              => s = t
    BY <1>2, <1>4, <1>5, <1>7, <2>1 DEF FamilyInv, ParentOK, New
  <2>5. \A s, t \in Procs : (s < t /\ proc'[s].pc = "none") => proc'[t].pc = "none"
    BY <1>1, <1>4, <1>5, <1>7, StillFirst
  <2>6. QED
    BY <2>2, <2>3, <2>4, <2>5 DEF FamilyInv
<1>14. QED
  BY <1>10, <1>11, <1>12, <1>13 DEF Inv

-----------------------------------------------------------------------------
(* The invariant holds, and what follows from it.                          *)

LEMMA NextInv == Inv /\ [Next]_vars => Inv'
<1> SUFFICES ASSUME Inv, [Next]_vars PROVE Inv'
  OBVIOUS
<1>1. ASSUME NEW p \in Procs, Step(p) PROVE Inv'
  BY <1>1, BootParentStep, BootChildStep, RestartOnedirStep, BootOnedirStep,
     ExtractFailsStep, ExtractStep, WaitStep, CleanupStep, ForkStep DEF Step
<1>2. ASSUME NEW p \in Procs, AppExits(p) PROVE Inv'
  BY <1>2, AppExitsStep
<1>3. ASSUME NEW p \in Procs, Environment(p) PROVE Inv'
  BY <1>3, ShellStartsStep, BootFailsStep, ForkFailsStep, KillStep, SpawnStep
  DEF Environment
<1>4. ASSUME UNCHANGED vars PROVE Inv'
  BY <1>4 DEF vars, Inv, TypeOK, LocalInv, DirsInv, FamilyInv, ForkInv, WorkerInv, Live
<1>5. QED
  BY <1>1, <1>2, <1>3, <1>4 DEF Next, Terminated

\* What the environment of every process says of it is true of how it came into
\* being: a new instance, the child of a parent, or a worker.
THEOREM Invariance == Spec => []Inv
<1>1. QED
  BY InitInv, NextInv, PTL DEF Spec

\* Every variable keeps its type.
THEOREM TypeCorrect == Spec => []TypeOK
<1>1. Inv => TypeOK
  BY DEF Inv
<1>2. QED
  BY <1>1, Invariance, PTL

LEMMA Role == Inv => LevelIsRole
BY DEF Inv, LocalInv, ProcOK, LevelIsRole, Runs, AppOK, New

\* A process takes itself for a worker exactly if the same program spawned it
\* as one, through any chain of programs, workers and restarts.
THEOREM LevelIsTrue == Spec => []LevelIsRole
<1>1. QED
  BY Role, Invariance, PTL

LEMMA Home == Inv => HomeOfInstance
BY DEF Inv, LocalInv, ProcOK, HomeOfInstance, Runs, AppOK, OwnHome

\* A process runs from the directory of its own instance.
THEOREM RunsAtHome == Spec => []HomeOfInstance
<1>1. QED
  BY Home, Invariance, PTL

LEMMA Unpacks == Inv => UnpacksOnce
BY DEF Inv, LocalInv, ProcOK, DirsInv, UnpacksOnce, TypeOK

\* Only the top-level process of an instance makes a directory.
THEOREM UnpackedOnce == Spec => []UnpacksOnce
<1>1. QED
  BY Unpacks, Invariance, PTL

LEMMA Screen == Inv => SplashOfInstance
BY DEF Inv, LocalInv, ProcOK, SplashOfInstance, Runs, AppOK

\* A program talks to the screen of its own instance, and its workers to none.
THEOREM OwnScreen == Spec => []SplashOfInstance
<1>1. QED
  BY Screen, Invariance, PTL

LEMMA Libraries == Inv => OwnLibrariesFirst
BY DEF Inv, LocalInv, ProcOK, OwnLibrariesFirst, Runs, AppOK, OwnHome, First

\* The directory of the program is the first one in its library path.
THEOREM FindsOwnLibraries == Spec => []OwnLibrariesFirst
<1>1. QED
  BY Libraries, Invariance, PTL

\* The instance of a running onefile program has a parent process that has not
\* cleaned up: the first process of the instance that still runs is its child,
\* since the spawner of a running worker is an earlier one.
LEMMA Stays == Inv => HomeExists
<1> SUFFICES ASSUME Inv, NEW a \in Procs, Runs(a), proc[a].prog \in OneFile
             PROVE  \E q \in dirs : proc[a].home = Temp(q) /\ proc[q].prog = proc[a].prog
  BY DEF HomeExists
<1> DEFINE Kin == {q \in Procs : /\ Live(q) /\ proc[q].how \in {"fork", "worker"}
                                 /\ proc[q].instance = proc[a].instance
                                 /\ proc[q].prog = proc[a].prog}
<1>1. /\ AppOK(proc[a]) /\ proc[a].how \in {"fork", "worker"}
      /\ proc[a].home = Temp(proc[a].instance)
  BY DEF Inv, LocalInv, ProcOK, Runs, AppOK, OwnHome
<1>2. a \in Kin
  BY <1>1 DEF Runs, Live
<1>3. Kin \subseteq Nat
  BY LaunchAssumption DEF Procs
<1>4. PICK m \in Kin : \A q \in Kin : ~(q < m)
  <2>1. IsWellFoundedOn(OpToRel(<, Nat), Nat)
    BY NatLessThanWellFounded
  <2>2. PICK m \in Kin : \A q \in Kin : ~(<<q, m>> \in OpToRel(<, Nat))
    BY <1>2, <1>3, <2>1, WFMin
  <2>3. QED
    BY <1>3, <2>2 DEF OpToRel
<1>5. CASE proc[m].how = "fork"
  <2>1. /\ proc[m].instance \in dirs
        /\ proc[proc[m].instance].prog = proc[m].prog
    BY <1>4, <1>5 DEF Inv, FamilyInv, ForkInv
  <2>2. QED
    BY <1>1, <1>4, <2>1
<1>6. CASE proc[m].how = "worker"
  <2> DEFINE s == proc[m].parent
  <2>1. /\ s \in Procs /\ s < m /\ proc[s].pc = "app"
        /\ proc[s].instance = proc[a].instance /\ proc[s].prog = proc[a].prog
    BY <1>4, <1>6 DEF Inv, FamilyInv, WorkerInv
  <2>2. proc[s].how \in {"fork", "worker"}
    BY <2>1 DEF Inv, LocalInv, ProcOK, AppOK
  <2>3. s \in Kin
    BY <2>1, <2>2 DEF Live
  <2>4. QED
    BY <1>4, <2>1, <2>3
<1>7. QED
  BY <1>4, <1>5, <1>6

\* The directory of a onefile program, made for the same program, is there as
\* long as the program or a worker of it runs.
THEOREM HomeStays == Spec => []HomeExists
<1>1. QED
  BY Stays, Invariance, PTL

-----------------------------------------------------------------------------
(* The user's library path.                                                *)

\* Before pyi_main sets the library path, the path is the user's; after that,
\* its copy is.
UserPath(r) == r.env.lib = r.user /\ r.env.lib_orig \in {<<>>, r.user}
UserCopy(r) == r.env.lib_orig = r.user

PathOK(r) ==
    /\ r.pc = "extract" \/ (r.pc = "boot" /\ ~Inherits(r)) => UserPath(r)
    /\ r.pc \in {"fork", "wait", "app"} \/ (r.pc = "boot" /\ Inherits(r)) => UserCopy(r)

PathInv ==
    /\ \A p \in Procs \ OfRestart : PathOK(proc[p])
    /\ \A p \in Procs : proc[p].pc = "none" => proc[p].parent = 0

\* A restarted program, and what one of its kind starts.
LEMMA RestartFacts ==
    \A p \in Procs : proc[p].how = "restart" \/ proc[p].parent \in OfRestart => p \in OfRestart
<1> SUFFICES ASSUME NEW p \in Procs,
                    proc[p].how = "restart" \/ proc[p].parent \in OfRestart,
                    NEW S \in SUBSET Procs, Descends(S)
             PROVE  p \in S
  BY DEF OfRestart
<1>1. OfRestart \subseteq S
  BY DEF OfRestart
<1>2. QED
  BY <1>1 DEF Descends

\* Steps do not change what a process comes from.
LEMMA RestartStep ==
    ASSUME \A p \in Procs : \/ proc'[p].how = proc[p].how /\ proc'[p].parent = proc[p].parent
                            \/ proc[p].how = "none" /\ proc[p].parent = 0
    PROVE  OfRestart \subseteq OfRestart'
<1> SUFFICES ASSUME NEW p \in OfRestart, NEW S \in SUBSET Procs, Descends(S)'
             PROVE  p \in S
  BY DEF OfRestart, Procs
<1>1. 0 \notin Procs
  BY LaunchAssumption DEF Procs
<1>2. Descends(S)
  BY <1>1 DEF Descends, Procs
<1>3. QED
  BY <1>2 DEF OfRestart

LEMMA PathCopy ==
    ASSUME NEW env \in Envs, NEW dir, NEW e, e = SetLibraryPath(env, dir)
    PROVE  e.lib_orig = IF env.lib = <<>> THEN env.lib_orig ELSE env.lib
BY DEF SetLibraryPath, Envs

LEMMA BootPaths ==
    ASSUME Inv, NEW p \in Procs, Booting(p)
    PROVE  /\ ChildEnv(p) \in Envs
           /\ ChildEnv(p).lib = proc[p].env.lib /\ ChildEnv(p).lib_orig = proc[p].env.lib_orig
<1>1. proc[p].env \in Envs /\ proc[p].prog \in Programs
  BY BootFacts DEF Inv, ProcType
<1> DEFINE b == BootEnv(p)
<1>2. b = ResetEnvironment(proc[p].env, proc[p].prog) /\ ChildEnv(p) = StoreLevel(b, LevelOf(b))
  BY DEF BootEnv, BootLevel, ChildEnv
<1> HIDE DEF b
<1>3. b \in Envs /\ b.lib = proc[p].env.lib /\ b.lib_orig = proc[p].env.lib_orig
  <2> DEFINE old == proc[p].env
             prg == proc[p].prog
  <2>1. old \in Envs /\ prg \in Programs /\ b = ResetEnvironment(old, prg)
    BY <1>1, <1>2
  <2> HIDE DEF old, prg
  <2>2. b \in Envs /\ b.lib = old.lib /\ b.lib_orig = old.lib_orig
    BY <2>1 DEF ResetEnvironment, Envs
  <2>3. QED
    BY <2>2 DEF old
<1>4. ChildEnv(p) \in Envs /\ ChildEnv(p).lib = b.lib /\ ChildEnv(p).lib_orig = b.lib_orig
  BY <1>2, <1>3, LevelFacts
<1>5. QED
  BY <1>3, <1>4

LEMMA SplashPaths ==
    ASSUME NEW env \in Envs, NEW p, NEW g, NEW level, NEW e \in SplashEnvironments(env, p, g, level)
    PROVE  e.lib = env.lib /\ e.lib_orig = env.lib_orig
BY DEF SplashEnvironments, Envs

\* A process that goes on.
LEMMA PathChange ==
    ASSUME Inv, PathInv, NEW p \in Procs, proc[p].pc # "none", NEW r,
           proc' = [proc EXCEPT ![p] = r],
           r.how = proc[p].how, r.parent = proc[p].parent, r.pc # "none",
           PathOK(proc[p]) => PathOK(r)
    PROVE  PathInv'
<1>1. /\ proc'[p] = r /\ \A s \in Procs : s # p => proc'[s] = proc[s]
  BY DEF Inv, TypeOK
<1>2. OfRestart \subseteq OfRestart'
  BY <1>1, RestartStep
<1>3. \A s \in Procs : s \notin OfRestart' => PathOK(proc'[s])
  BY <1>1, <1>2 DEF PathInv
<1>4. \A s \in Procs : proc'[s].pc = "none" => proc'[s].parent = 0
  BY <1>1 DEF PathInv
<1>5. QED
  BY <1>3, <1>4 DEF PathInv, Procs, PathOK, UserPath, UserCopy, Inherits

\* A process that comes into being, of another one's doing or the user's.
LEMMA PathBirth ==
    ASSUME Inv, PathInv, NEW q \in Procs, proc[q].pc = "none", NEW r, proc'[q] = r,
           \A s \in Procs : s # q =>
             /\ proc'[s].how = proc[s].how /\ proc'[s].parent = proc[s].parent
             /\ proc'[s].pc = "none" => proc[s].pc = "none"
             /\ PathOK(proc[s]) => PathOK(proc'[s]),
           r.pc # "none",
           r.how # "restart" /\ (r.parent \in Procs => PathOK(proc[r.parent])) => PathOK(r)
    PROVE  PathInv'
<1>1. proc[q].how = "none" /\ proc[q].parent = 0
  BY DEF Inv, LocalInv, ProcOK, PathInv
<1>2. OfRestart \subseteq OfRestart'
  BY <1>1, RestartStep
<1>3. ASSUME NEW s \in Procs, s \notin OfRestart' PROVE PathOK(proc'[s])
  <2>1. CASE s # q
    BY <1>2, <1>3, <2>1 DEF PathInv
  <2>2. CASE s = q
    <3>1. proc'[q].how # "restart" /\ proc'[q].parent \notin OfRestart'
      <4>1. (\A p \in Procs : proc[p].how = "restart" \/ proc[p].parent \in OfRestart
                              => p \in OfRestart)'
        BY RestartFacts, PTL
      <4>2. QED
        BY <1>3, <2>2, <4>1 DEF Procs
    <3>2. r.parent \in Procs => PathOK(proc[r.parent])
      BY <1>2, <3>1 DEF PathInv
    <3>3. QED
      BY <2>2, <3>1, <3>2
  <2>3. QED
    BY <2>1, <2>2
<1>4. \A s \in Procs : proc'[s].pc = "none" => proc'[s].parent = 0
  BY DEF PathInv
<1>5. QED
  BY <1>3, <1>4 DEF PathInv, Procs, PathOK, UserPath, UserCopy, Inherits

LEMMA PathInit == Init => PathInv
<1> SUFFICES ASSUME Init PROVE PathInv
  OBVIOUS
<1>1. \A p \in Procs : proc[p] = Unused
  BY DEF Init
<1>2. \A p \in Procs : proc[p].pc = "none" /\ proc[p].parent = 0
  BY <1>1 DEF Unused
<1>3. QED
  BY <1>2 DEF PathInv, PathOK

LEMMA PathBoots ==
    ASSUME Inv, PathInv, NEW p \in Procs,
           BootParent(p) \/ BootChild(p) \/ BootOnedir(p)
    PROVE  PathInv'
<1>1. /\ Booting(p) /\ proc[p] \in ProcType
      /\ ChildEnv(p) \in Envs /\ ChildEnv(p).lib = proc[p].env.lib
      /\ ChildEnv(p).lib_orig = proc[p].env.lib_orig
      /\ BootLevel(p) = "parent" => ~Inherits(proc[p])
      /\ BootLevel(p) # "parent" => Inherits(proc[p])
  BY BootPaths, BootKind
  DEF BootParent, BootChild, BootOnedir, RestartedOnedir, ForkedChild, StartedWorker, Inv, TypeOK
<1>2. ASSUME NEW env \in SplashEnvironments(ChildEnv(p), p, proc[p].prog, BootLevel(p)),
             NEW pc, NEW home,
             proc' = [proc EXCEPT ![p].pc = pc, ![p].env = env, ![p].level = BootLevel(p),
                                  ![p].home = home],
             pc \in {"extract", "app", "failed"}, pc = "extract" <=> BootLevel(p) = "parent"
      PROVE  PathInv'
  <2>1. env.lib = proc[p].env.lib /\ env.lib_orig = proc[p].env.lib_orig
    BY <1>1, SplashPaths
  <2> DEFINE r == [proc[p] EXCEPT !.pc = pc, !.env = env, !.level = BootLevel(p), !.home = home]
  <2>2. /\ r.pc = pc /\ r.env = env /\ r.how = proc[p].how /\ r.parent = proc[p].parent
        /\ r.user = proc[p].user
    BY <1>1 DEF ProcType
  <2>3. proc' = [proc EXCEPT ![p] = r]
    BY <1>1, <1>2 DEF ProcType
  <2> HIDE DEF r
  <2>4. proc[p].pc = "boot" /\ r.pc # "none"
    BY <1>1, <1>2, <2>2 DEF Booting
  <2>5. PathOK(proc[p]) => PathOK(r)
    BY <1>1, <1>2, <2>1, <2>2, <2>4 DEF PathOK, UserPath, UserCopy
  <2>6. QED
    BY <2>2, <2>3, <2>4, <2>5, PathChange
<1>3. CASE BootParent(p)
  <2>1. BootLevel(p) = "parent"
    BY <1>3 DEF BootParent
  <2>2. PICK env \in SplashEnvironments(ChildEnv(p), p, proc[p].prog, BootLevel(p)) :
          proc' = [proc EXCEPT ![p].pc = "extract", ![p].env = env,
                               ![p].level = BootLevel(p), ![p].home = Temp(p)]
    BY <1>3, <2>1 DEF BootParent
  <2>3. "extract" \in {"extract", "app", "failed"} /\ ("extract" = "extract" <=> BootLevel(p) = "parent")
    BY <2>1
  <2>4. QED
    BY <1>2, <2>2, <2>3
<1>4. CASE BootChild(p)
  <2>1. PICK env \in SplashEnvironments(ChildEnv(p), p, proc[p].prog, BootLevel(p)) :
          proc' = [proc EXCEPT ![p].pc = IF env.home = NoDir THEN "failed" ELSE "app",
                               ![p].env = env, ![p].level = BootLevel(p),
                               ![p].home = env.home]
    BY <1>4 DEF BootChild
  <2>2. (IF env.home = NoDir THEN "failed" ELSE "app") \in {"app", "failed"}
        /\ BootLevel(p) # "parent"
    BY <1>4 DEF BootChild
  <2>3. QED
    BY <1>2, <2>1, <2>2
<1>5. CASE BootOnedir(p)
  <2>1. PICK env \in SplashEnvironments(ChildEnv(p), p, proc[p].prog, BootLevel(p)) :
          proc' = [proc EXCEPT ![p].pc = "app", ![p].env = env,
                               ![p].level = BootLevel(p), ![p].home = Installed(proc[p].prog)]
    BY <1>5 DEF BootOnedir
  <2>2. BootLevel(p) # "parent"
    BY <1>5 DEF BootOnedir
  <2>3. QED
    BY <1>2, <2>1, <2>2
<1>6. QED
  BY <1>3, <1>4, <1>5

LEMMA PathSet ==
    ASSUME Inv, PathInv, NEW p \in Procs, RestartOnedir(p) \/ Extract(p)
    PROVE  PathInv'
<1>1. proc[p] \in ProcType /\ proc[p].env \in Envs
  BY DEF Inv, TypeOK, ProcType
<1>2. CASE RestartOnedir(p)
  <2>1. /\ Booting(p) /\ ChildEnv(p) \in Envs /\ ChildEnv(p).lib = proc[p].env.lib
        /\ ChildEnv(p).lib_orig = proc[p].env.lib_orig /\ ~Inherits(proc[p])
    BY <1>2, BootPaths, BootKind DEF RestartOnedir
  <2> DEFINE dir == Installed(proc[p].prog)
             env == SetLibraryPath(ChildEnv(p), dir)
             r == [proc[p] EXCEPT !.env = env]
  <2>2. proc' = [proc EXCEPT ![p] = r]
    BY <1>1, <1>2 DEF RestartOnedir, ProcType
  <2>3. env.lib_orig = IF proc[p].env.lib = <<>> THEN proc[p].env.lib_orig ELSE proc[p].env.lib
    BY <2>1, PathCopy
  <2> HIDE DEF env
  <2>4. /\ r.pc = proc[p].pc /\ r.env = env /\ r.how = proc[p].how
        /\ r.parent = proc[p].parent /\ r.user = proc[p].user /\ r.prog = proc[p].prog
    BY <1>1 DEF ProcType
  <2>5. ~ChildEnv(p).reset /\ ChildEnv(p).archive = proc[p].prog /\ proc[p].prog \in Programs
    BY <2>1, BootFacts DEF Inv
  <2>6. env.reset = ChildEnv(p).reset /\ env.archive = ChildEnv(p).archive
    BY <2>1 DEF env, SetLibraryPath, Envs
  <2>7. Inherits(r)
    BY <2>4, <2>5, <2>6 DEF Inherits
  <2> HIDE DEF r
  <2>8. proc[p].pc = "boot"
    BY <2>1 DEF Booting
  <2>9. PathOK(proc[p]) => PathOK(r)
    BY <2>1, <2>3, <2>4, <2>7, <2>8 DEF PathOK, UserPath, UserCopy
  <2>10. QED
    BY <2>2, <2>4, <2>8, <2>9, PathChange
<1>3. CASE Extract(p)
  <2> DEFINE path == SetLibraryPath(proc[p].env, Temp(p))
             env == [path EXCEPT !.home = Temp(p)]
             r == [proc[p] EXCEPT !.pc = "fork", !.env = env]
  <2>1. proc[p].pc = "extract" /\ proc' = [proc EXCEPT ![p] = r]
    BY <1>1, <1>3 DEF Extract, ProcType
  <2>2. path.lib_orig = IF proc[p].env.lib = <<>> THEN proc[p].env.lib_orig ELSE proc[p].env.lib
    BY <1>1, PathCopy
  <2>3. path \in Envs
    BY <1>1, PathFacts DEF Dirs
  <2> HIDE DEF path
  <2>4. env.lib_orig = path.lib_orig
    BY <2>3 DEF Envs
  <2> HIDE DEF env
  <2>5. /\ r.pc = "fork" /\ r.env = env /\ r.how = proc[p].how
        /\ r.parent = proc[p].parent /\ r.user = proc[p].user
    BY <1>1 DEF ProcType
  <2> HIDE DEF r
  <2>6. PathOK(proc[p]) => PathOK(r)
    BY <2>1, <2>2, <2>4, <2>5 DEF PathOK, UserPath, UserCopy
  <2>7. QED
    BY <2>1, <2>5, <2>6, PathChange
<1>4. QED
  BY <1>2, <1>3

\* Ends, and the way there.
LEMMA PathEnds ==
    ASSUME Inv, PathInv, NEW p \in Procs,
           \/ BootFails(p) \/ ExtractFails(p) \/ ForkFails(p) \/ Wait(p)
           \/ Cleanup(p) \/ AppExits(p) \/ Kill(p)
    PROVE  PathInv'
<1>1. proc[p] \in ProcType
  BY DEF Inv, TypeOK
<1>2. CASE ForkFails(p) \/ Wait(p)
  <2> DEFINE r == [proc[p] EXCEPT !.pc = "cleanup"]
  <2>1. proc[p].pc \in {"fork", "wait"} /\ proc' = [proc EXCEPT ![p] = r]
    BY <1>1, <1>2 DEF ForkFails, Wait, ProcType
  <2>2. r.pc = "cleanup" /\ r.how = proc[p].how /\ r.parent = proc[p].parent
    BY <1>1 DEF ProcType
  <2> HIDE DEF r
  <2>3. PathOK(r)
    BY <2>2 DEF PathOK
  <2>4. QED
    BY <2>1, <2>2, <2>3, PathChange
<1>3. CASE ~(ForkFails(p) \/ Wait(p))
  <2>1. PICK pc \in Ended : proc' = [proc EXCEPT ![p] = EndOf(p, pc)]
    BY <1>3 DEF BootFails, ExtractFails, Cleanup, AppExits, Kill, Ended
  <2>2. proc[p].pc # "none"
    BY <1>3 DEF BootFails, Booting, ExtractFails, Cleanup, AppExits, Kill, Running
  <2> DEFINE r == EndOf(p, pc)
  <2>3. r.pc = pc /\ r.how = proc[p].how /\ r.parent = proc[p].parent
    BY <1>1 DEF ProcType, EndOf
  <2>4. proc' = [proc EXCEPT ![p] = r]
    BY <2>1
  <2> HIDE DEF r
  <2>5. PathOK(r) /\ r.pc # "none"
    BY <2>3 DEF PathOK, Ended
  <2>6. QED
    BY <2>2, <2>3, <2>4, <2>5, PathChange
<1>4. QED
  BY <1>2, <1>3

LEMMA PathShell == ASSUME Inv, PathInv, NEW q \in Procs, ShellStarts(q) PROVE PathInv'
<1>1. PICK g \in Programs, path \in UserPaths :
        proc' = [proc EXCEPT ![q] =
                   [Unused EXCEPT !.pc = "boot", !.prog = g, !.how = "shell",
                                  !.instance = q, !.env = CleanEnv(path), !.user = path]]
  BY DEF ShellStarts
<1> DEFINE r == [Unused EXCEPT !.pc = "boot", !.prog = g, !.how = "shell",
                               !.instance = q, !.env = CleanEnv(path), !.user = path]
<1>2. Fresh(q) /\ proc[q].pc = "none" /\ Unused \in ProcType
  BY UnusedFacts DEF ShellStarts, Fresh
<1>3. /\ CleanEnv(path).archive = NoProgram /\ CleanEnv(path).lib = path
      /\ CleanEnv(path).lib_orig = <<>>
  BY DEF CleanEnv
<1>4. /\ r.pc = "boot" /\ r.prog = g /\ r.how = "shell" /\ r.env = CleanEnv(path)
      /\ r.user = path
  BY DEF Unused
<1>5. proc' = [proc EXCEPT ![q] = r]
  BY <1>1
<1> HIDE DEF r
<1>6. proc'[q] = r /\ \A s \in Procs : s # q => proc'[s] = proc[s]
  BY <1>5 DEF Inv, TypeOK
<1>7. ~Inherits(r)
  BY <1>3, <1>4, LaunchAssumption DEF Inherits
<1>8. PathOK(r)
  BY <1>3, <1>4, <1>7 DEF PathOK, UserPath
<1>9. QED
  BY <1>2, <1>4, <1>6, <1>8, PathBirth

LEMMA PathSpawn ==
    ASSUME Inv, PathInv, NEW p \in Procs, NEW q \in Procs, Spawn(p, q)
    PROVE  PathInv'
<1> DEFINE e(how) == [proc[p].env EXCEPT
                        !.reset = (how = "restart"),
                        !.lib = IF how = "other" THEN RestoredPath(proc[p].env)
                                ELSE proc[p].env.lib]
<1> DEFINE new(g, how) ==
      [Unused EXCEPT !.pc = "boot", !.prog = g, !.how = how, !.parent = p,
                     !.instance = IF how = "worker" THEN proc[p].instance ELSE q,
                     !.env = e(how), !.user = proc[p].user]
<1>1. proc[p].pc = "app" /\ Fresh(q) /\ proc[q].pc = "none"
  BY DEF Spawn, Fresh
<1>2. PICK g \in Programs, how \in {"worker", "restart", "other"} :
        /\ how = "other" <=> g # proc[p].prog
        /\ proc' = [proc EXCEPT ![q] = new(g, how)]
  BY ZenonT(60) DEF Spawn
<1>3. proc[p].env \in Envs /\ proc[p].env.archive = proc[p].prog /\ ~proc[p].env.reset
  BY <1>1 DEF Inv, TypeOK, LocalInv, ProcOK, AppOK, Inherits, ProcType
<1> DEFINE env == e(how)
<1> DEFINE r == new(g, how)
<1>4. /\ env.reset = (how = "restart") /\ env.archive = proc[p].env.archive
      /\ env.lib_orig = proc[p].env.lib_orig
      /\ how = "other" => env.lib = proc[p].env.lib_orig
  BY <1>2, <1>3 DEF Envs, RestoredPath
<1>5. proc' = [proc EXCEPT ![q] = r]
  BY <1>2
<1> HIDE DEF env, e
<1>6. /\ r.pc = "boot" /\ r.prog = g /\ r.how = how /\ r.parent = p /\ r.env = env
      /\ r.user = proc[p].user
  BY DEF env, Unused
<1> HIDE DEF r, new
<1>7. proc'[q] = r /\ \A s \in Procs : s # q => proc'[s] = proc[s]
  BY <1>5 DEF Inv, TypeOK
<1>8. PathOK(proc[p]) => env.lib_orig = proc[p].user
  BY <1>1, <1>4 DEF PathOK, UserCopy
<1>9. CASE how = "worker"
  <2>1. Inherits(r)
    BY <1>2, <1>3, <1>4, <1>6, <1>9 DEF Inherits
  <2>2. PathOK(proc[p]) => PathOK(r)
    BY <1>6, <1>8, <2>1 DEF PathOK, UserCopy
  <2>3. QED
    BY <1>1, <1>6, <1>7, <2>2, PathBirth
<1>10. CASE how = "other"
  <2>1. ~Inherits(r)
    BY <1>2, <1>3, <1>4, <1>6, <1>10 DEF Inherits
  <2>2. PathOK(proc[p]) => PathOK(r)
    BY <1>4, <1>6, <1>8, <1>10, <2>1 DEF PathOK, UserPath
  <2>3. QED
    BY <1>1, <1>6, <1>7, <2>2, PathBirth
<1>11. CASE how = "restart"
  BY <1>1, <1>6, <1>7, <1>11, PathBirth
<1>12. QED
  BY <1>9, <1>10, <1>11

LEMMA PathFork ==
    ASSUME Inv, PathInv, NEW p \in Procs, NEW q \in Procs, Fork(p, q)
    PROVE  PathInv'
<1> DEFINE r == [proc[p] EXCEPT !.pc = "wait"]
<1> DEFINE c == [Unused EXCEPT !.pc = "boot", !.prog = proc[p].prog, !.how = "fork",
                               !.parent = p, !.instance = proc[p].instance,
                               !.env = proc[p].env, !.user = proc[p].user]
<1>1. proc[p].pc = "fork" /\ Fresh(q) /\ proc[q].pc = "none" /\ p # q
  BY DEF Fork, Fresh
<1>2. proc[p] \in ProcType /\ Inherits(proc[p])
  BY <1>1 DEF Inv, TypeOK, LocalInv, ProcOK, ParentOK, ParentPCs
<1>3. /\ r.pc = "wait" /\ r.how = proc[p].how /\ r.parent = proc[p].parent
      /\ r.env = proc[p].env /\ r.user = proc[p].user
  BY <1>2 DEF ProcType
<1>4. /\ c.pc = "boot" /\ c.how = "fork" /\ c.parent = p /\ c.env = proc[p].env
      /\ c.user = proc[p].user /\ c.prog = proc[p].prog
  BY DEF Unused
<1>5. proc' = [proc EXCEPT ![p] = r, ![q] = c]
  BY <1>1, <1>2 DEF Fork, ProcType
<1> HIDE DEF r, c
<1>6. /\ proc'[p] = r /\ proc'[q] = c
      /\ \A s \in Procs : s # p /\ s # q => proc'[s] = proc[s]
  BY <1>1, <1>5 DEF Inv, TypeOK
<1>7. PathOK(proc[p]) => PathOK(r) /\ PathOK(c)
  BY <1>1, <1>2, <1>3, <1>4 DEF PathOK, UserCopy, Inherits
<1>8. QED
  BY <1>1, <1>3, <1>4, <1>6, <1>7, PathBirth

LEMMA PathNext == Inv /\ PathInv /\ [Next]_vars => PathInv'
<1> SUFFICES ASSUME Inv, PathInv, [Next]_vars PROVE PathInv'
  OBVIOUS
<1>1. ASSUME NEW p \in Procs, Step(p) \/ AppExits(p) \/ Environment(p) PROVE PathInv'
  <2>1. ASSUME NEW q \in Procs, Fork(p, q) \/ Spawn(p, q) PROVE PathInv'
    BY <2>1, PathFork, PathSpawn
  <2>2. CASE BootParent(p) \/ BootChild(p) \/ BootOnedir(p)
    BY <2>2, PathBoots
  <2>3. CASE RestartOnedir(p) \/ Extract(p)
    BY <2>3, PathSet
  <2>4. CASE \/ BootFails(p) \/ ExtractFails(p) \/ ForkFails(p) \/ Wait(p)
             \/ Cleanup(p) \/ AppExits(p) \/ Kill(p)
    BY <2>4, PathEnds
  <2>5. CASE ShellStarts(p)
    BY <2>5, PathShell
  <2>6. QED
    BY <1>1, <2>1, <2>2, <2>3, <2>4, <2>5 DEF Step, Environment
<1>2. CASE UNCHANGED vars
  BY <1>2 DEF vars, PathInv, PathOK, UserPath, UserCopy, Inherits, OfRestart, Descends, Procs
<1>3. QED
  BY <1>1, <1>2 DEF Next, Terminated

\* The library path that a program puts back is the user's, whatever started
\* it, as long as no program on the way to it restarted itself.
THEOREM KeepsUserPath == Spec => []RestoresUserPath
<1>1. PathInv => RestoresUserPath
  BY DEF PathInv, PathOK, UserCopy, RestoresUserPath, RestoredPath, Runs
<1>2. QED
  BY <1>1, PathInit, PathNext, Invariance, PTL DEF Spec
=============================================================================
