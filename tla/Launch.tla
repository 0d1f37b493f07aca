------------------------------- MODULE Launch -------------------------------
(***************************************************************************)
(* How frozen programs start and end on Linux and other POSIX systems but  *)
(* macOS (bootloader/src/pyi_main.c, pyi_utils_posix.c): the processes of  *)
(* several programs, the environment variables each inherits from the one  *)
(* that spawned it, and the temporary directories of onefile programs.     *)
(*                                                                         *)
(* A process decides alone, from its environment and its archive, what it  *)
(* is: the parent of a onefile application, the main application process,  *)
(* or a worker subprocess.  Processes share the file system only, so a     *)
(* step of one up to its next effect on a directory or a process is one    *)
(* action.  The programs' own behaviour (what they spawn) is a choice.     *)
(***************************************************************************)
EXTENDS Naturals, Sequences, FiniteSets

CONSTANTS
    MaxProcs,         \* bound: how many processes there are
    MaxShells,        \* bound: how many of them a user may start from a shell
    MaxKills,         \* bound: how many of them are killed (SIGKILL)
    Programs,         \* the archives: values of _PYI_ARCHIVE_FILE
    OneFile,          \* those with extractable entries
    WithSplash,       \* those with a splash screen
    NoProgram,        \* _PYI_ARCHIVE_FILE is not set
    UserPaths,        \* values of LD_LIBRARY_PATH in the user's shell
    Restarts          \* whether programs restart themselves

VARIABLES
    proc,             \* the processes, in the order of their creation
    dirs              \* creators of the temporary directories that exist

vars == <<proc, dirs>>

Procs == 1..MaxProcs

Temp(p) == <<"temp", p>>          \* the directory that mkdtemp made for p
Installed(g) == <<"installed", g>>  \* the directory of a onedir program
NoDir == <<"none", 0>>
UserDir == <<"user", 0>>          \* a directory that the user has in the path
Port(p) == <<"port", p>>          \* of the splash screen of p
NoPort == <<"none", 0>>
Suppressed == <<"zero", 0>>

ASSUME LaunchAssumption ==
    /\ MaxProcs \in Nat /\ MaxShells \in Nat /\ MaxKills \in Nat
    /\ OneFile \subseteq Programs /\ WithSplash \subseteq Programs
    /\ NoProgram \notin Programs
    /\ UserPaths \subseteq Seq({UserDir})
    /\ Restarts \in BOOLEAN

\* LD_LIBRARY_PATH and its copy are sequences, <<>> if not set.
CleanEnv(path) ==
    [reset |-> FALSE, archive |-> NoProgram, home |-> NoDir, level |-> "",
     splash |-> NoPort, lib |-> path, lib_orig |-> <<>>]

Unused == [pc |-> "none", prog |-> NoProgram, how |-> "none", parent |-> 0,
           instance |-> 0, env |-> CleanEnv(<<>>), level |-> "unknown",
           home |-> NoDir, user |-> <<>>]

Running == {"boot", "extract", "fork", "wait", "cleanup", "app"}
Ended == {"exited", "failed", "killed"}

\* A process that has ended leaves no environment; whose child it was, and of
\* which program, is remembered.
EndOf(p, pc) ==
    [proc[p] EXCEPT !.pc = pc, !.env = CleanEnv(<<>>), !.home = NoDir,
                    !.user = <<>>, !.level = "unknown"]

Init == proc = [p \in Procs |-> Unused] /\ dirs = {}

-----------------------------------------------------------------------------
(* The environment, as pyi_main reads and changes it.                      *)

\* Mutant: PYINSTALLER_RESET_ENVIRONMENT is not unset.
ResetEnvironmentStays(env, g) ==
    IF env.reset \/ env.archive # g
    THEN [env EXCEPT !.archive = g, !.home = NoDir, !.level = "", !.splash = NoPort]
    ELSE env

\* Mutant: the request is not heard.
ResetEnvironmentUnheard(env, g) ==
    IF env.archive # g
    THEN [env EXCEPT !.reset = FALSE, !.archive = g, !.home = NoDir,
                     !.level = "", !.splash = NoPort]
    ELSE [env EXCEPT !.reset = FALSE]

\* Mutant: the port of another splash screen is kept.
ResetEnvironmentKeepsPort(env, g) ==
    IF env.reset \/ env.archive # g
    THEN [env EXCEPT !.reset = FALSE, !.archive = g, !.home = NoDir, !.level = ""]
    ELSE env

\* PYINSTALLER_RESET_ENVIRONMENT is unset once it is read.  Without it, the
\* environment of a process with the same archive is kept.
ResetEnvironment(env, g) ==
    IF env.reset \/ env.archive # g
    THEN [env EXCEPT !.reset = FALSE, !.archive = g, !.home = NoDir,
                     !.level = "", !.splash = NoPort]
    ELSE env

\* _PYI_PARENT_PROCESS_LEVEL: what the parent was says what this one is.
LevelOf(env) ==
    CASE env.level = ""  -> "parent"
      [] env.level = "0" -> "main"
      [] env.level = "1" -> "subprocess"

\* Mutants: the levels beyond the worker's are counted; a main process says that
\* it is a parent.
StoreLevelCounts(env, level) ==
    CASE level = "parent"     -> [env EXCEPT !.level = "0"]
      [] level = "main"       -> [env EXCEPT !.level = "1"]
      [] level = "subprocess" -> [env EXCEPT !.level = "2"]

StoreLevelMixedUp(env, level) ==
    IF level = "subprocess" THEN env ELSE [env EXCEPT !.level = "0"]

StoreLevel(env, level) ==
    CASE level = "parent"     -> [env EXCEPT !.level = "0"]
      [] level = "main"       -> [env EXCEPT !.level = "1"]
      [] level = "subprocess" -> env

\* Mutants: the directory is appended; the copy is made after the change.
SetLibraryPathAppends(env, dir) ==
    IF env.lib = <<>>
    THEN [env EXCEPT !.lib = <<dir>>]
    ELSE [env EXCEPT !.lib = env.lib \o <<dir>>, !.lib_orig = env.lib]

SetLibraryPathCopiesLate(env, dir) ==
    IF env.lib = <<>>
    THEN [env EXCEPT !.lib = <<dir>>]
    ELSE [env EXCEPT !.lib = <<dir>> \o env.lib, !.lib_orig = <<dir>> \o env.lib]

\* pyi_utils_set_library_search_path.
SetLibraryPath(env, dir) ==
    IF env.lib = <<>>
    THEN [env EXCEPT !.lib = <<dir>>]
    ELSE [env EXCEPT !.lib = <<dir>> \o env.lib, !.lib_orig = env.lib]

\* What pyi_splash_start (with its Tcl script) and _pyi_main_setup_splash_screen
\* leave in _PYI_SPLASH_IPC; the screen of an eligible process may fail.  That
\* the user suppresses the screen is left out.
SplashEnvironments(env, p, g, level) ==
    IF g \notin WithSplash THEN {env}
    ELSE IF level = "subprocess" THEN {[env EXCEPT !.splash = Suppressed]}
    ELSE IF (g \in OneFile) = (level = "parent")
         THEN {env, [env EXCEPT !.splash = Port(p)]}
         ELSE {env}

-----------------------------------------------------------------------------
(* Processes come into being.                                              *)

Fresh(q) == /\ proc[q].pc = "none"
            /\ \A r \in 1..(q - 1) : proc[r].pc # "none"

\* The user starts a program from a shell, with a library path or without.
ShellStarts(q) ==
    /\ Fresh(q) /\ Cardinality({p \in Procs : proc[p].how = "shell"}) < MaxShells
    /\ \E g \in Programs, path \in UserPaths :
         proc' = [proc EXCEPT ![q] =
                    [Unused EXCEPT !.pc = "boot", !.prog = g, !.how = "shell",
                                   !.instance = q, !.env = CleanEnv(path), !.user = path]]
    /\ UNCHANGED dirs

\* The application p starts a process: another program, a worker through
\* sys.executable, or a new instance of itself with PYINSTALLER_RESET_ENVIRONMENT.
\* A program that follows the documentation restores the library path first
\* when the new process is another program.  instance is what the documentation
\* says of the new process: a worker belongs to the instance of its spawner.
RestoredPath(env) == env.lib_orig

Spawn(p, q) ==
    /\ proc[p].pc = "app" /\ Fresh(q)
    /\ \E g \in Programs, how \in {"worker", "restart", "other"} :
         /\ how = "other" <=> g # proc[p].prog
         /\ how = "restart" => Restarts
         /\ LET env == proc[p].env IN
            proc' = [proc EXCEPT ![q] =
              [Unused EXCEPT
                !.pc = "boot", !.prog = g, !.how = how, !.parent = p,
                !.instance = IF how = "worker" THEN proc[p].instance ELSE q,
                !.env = [env EXCEPT
                           !.reset = (how = "restart"),
                           !.lib = IF how = "other" THEN RestoredPath(env) ELSE env.lib],
                !.user = proc[p].user]]
    /\ UNCHANGED dirs

-----------------------------------------------------------------------------
(* pyi_main, up to the point where the kind of process is known.           *)

\* The environment after the reset, and the level it implies.
BootEnv(p) == ResetEnvironment(proc[p].env, proc[p].prog)
BootLevel(p) == LevelOf(BootEnv(p))
ChildEnv(p) == StoreLevel(BootEnv(p), BootLevel(p))

Booting(p) == proc[p].pc = "boot"

\* The parent process of a onefile program makes its temporary directory and
\* sets the splash screen up.
BootParent(p) ==
    /\ Booting(p) /\ proc[p].prog \in OneFile /\ BootLevel(p) = "parent"
    /\ \E env \in SplashEnvironments(ChildEnv(p), p, proc[p].prog, "parent") :
         proc' = [proc EXCEPT ![p].pc = "extract", ![p].env = env,
                              ![p].level = "parent", ![p].home = Temp(p)]
    /\ dirs' = dirs \cup {p}

\* A child process of a onefile program uses the directory it is told of.
BootChild(p) ==
    /\ Booting(p) /\ proc[p].prog \in OneFile /\ BootLevel(p) # "parent"
    /\ \E env \in SplashEnvironments(ChildEnv(p), p, proc[p].prog, BootLevel(p)) :
         proc' = [proc EXCEPT ![p].pc = IF env.home = NoDir THEN "failed" ELSE "app",
                              ![p].env = env, ![p].level = BootLevel(p),
                              ![p].home = env.home]
    /\ UNCHANGED dirs

\* Mutant: the program is executed with the environment it was started with.
RestartOnedirOldEnvironment(p) ==
    /\ Booting(p) /\ proc[p].prog \notin OneFile /\ BootLevel(p) = "parent"
    /\ UNCHANGED <<proc, dirs>>

\* A onedir program sets the library path and executes itself again,
\* _pyi_main_handle_posix_onedir.
RestartOnedir(p) ==
    /\ Booting(p) /\ proc[p].prog \notin OneFile /\ BootLevel(p) = "parent"
    /\ proc' = [proc EXCEPT ![p].env = SetLibraryPath(ChildEnv(p), Installed(proc[p].prog))]
    /\ UNCHANGED dirs

BootOnedir(p) ==
    /\ Booting(p) /\ proc[p].prog \notin OneFile /\ BootLevel(p) # "parent"
    /\ \E env \in SplashEnvironments(ChildEnv(p), p, proc[p].prog, BootLevel(p)) :
         proc' = [proc EXCEPT ![p].pc = "app", ![p].env = env,
                              ![p].level = BootLevel(p), ![p].home = Installed(proc[p].prog)]
    /\ UNCHANGED dirs

\* The archive cannot be opened, the temporary directory cannot be made, or
\* the program cannot be executed again.
BootFails(p) ==
    /\ Booting(p)
    /\ proc' = [proc EXCEPT ![p] = EndOf(p, "failed")]
    /\ UNCHANGED dirs

-----------------------------------------------------------------------------
(* _pyi_main_onefile_parent.                                               *)

\* Extraction, or setting the library path, fails: main returns at once.
ExtractFails(p) ==
    /\ proc[p].pc = "extract"
    /\ proc' = [proc EXCEPT ![p] = EndOf(p, "failed")]
    /\ UNCHANGED dirs

\* Extract, set the library path, set _PYI_APPLICATION_HOME_DIR.
Extract(p) ==
    /\ proc[p].pc = "extract"
    /\ proc' = [proc EXCEPT ![p].pc = "fork",
                            ![p].env = [SetLibraryPath(proc[p].env, Temp(p))
                                          EXCEPT !.home = Temp(p)]]
    /\ UNCHANGED dirs

\* fork and execvp of the same executable.
Fork(p, q) ==
    /\ proc[p].pc = "fork" /\ Fresh(q)
    /\ proc' = [proc EXCEPT
         ![p].pc = "wait",
         ![q] = [Unused EXCEPT !.pc = "boot", !.prog = proc[p].prog, !.how = "fork",
                               !.parent = p, !.instance = proc[p].instance,
                               !.env = proc[p].env, !.user = proc[p].user]]
    /\ UNCHANGED dirs

\* Mutant: main returns at once.
ForkFailsAtOnce(p) ==
    /\ proc[p].pc = "fork"
    /\ proc' = [proc EXCEPT ![p] = EndOf(p, "exited")]
    /\ UNCHANGED dirs

ForkFails(p) ==
    /\ proc[p].pc = "fork"
    /\ proc' = [proc EXCEPT ![p].pc = "cleanup"]
    /\ UNCHANGED dirs

ChildOf(p) == CHOOSE q \in Procs : proc[q].parent = p /\ proc[q].how = "fork"

\* Mutant: a failing waitpid is taken for the end of the child.
WaitFails(p) ==
    /\ proc[p].pc = "wait"
    /\ proc' = [proc EXCEPT ![p].pc = "cleanup"]
    /\ UNCHANGED dirs

Wait(p) ==
    /\ proc[p].pc = "wait" /\ proc[ChildOf(p)].pc \in Ended
    /\ proc' = [proc EXCEPT ![p].pc = "cleanup"]
    /\ UNCHANGED dirs

\* Remove the directory; then the process ends, of a signal if its child did.
Cleanup(p) ==
    /\ proc[p].pc = "cleanup"
    /\ dirs' = dirs \ {p}
    /\ proc' = [proc EXCEPT ![p] = EndOf(p, "exited")]

-----------------------------------------------------------------------------
(* The programs, and the user.                                             *)

\* A program ends when its workers have ended: those which outlive it have to
\* be independent instances (doc/common-issues-and-pitfalls.rst).
AppExits(p) ==
    /\ proc[p].pc = "app"
    /\ \A q \in Procs : (proc[q].parent = p /\ proc[q].how = "worker") => proc[q].pc \in Ended
    /\ proc' = [proc EXCEPT ![p] = EndOf(p, "exited")]
    /\ UNCHANGED dirs

\* The parent process of a onefile program is killed; nobody cleans up.
Kill(p) ==
    /\ proc[p].level = "parent" /\ proc[p].pc \in Running
    /\ Cardinality({q \in Procs : proc[q].pc = "killed"}) < MaxKills
    /\ proc' = [proc EXCEPT ![p] = EndOf(p, "killed")]
    /\ UNCHANGED dirs

Step(p) == \/ BootParent(p) \/ BootChild(p) \/ RestartOnedir(p) \/ BootOnedir(p)
           \/ ExtractFails(p) \/ Extract(p) \/ Wait(p) \/ Cleanup(p)
           \/ \E q \in Procs : Fork(p, q)

Environment(p) == \/ ShellStarts(p) \/ BootFails(p) \/ ForkFails(p) \/ Kill(p)
                  \/ \E q \in Procs : Spawn(p, q)

Terminated == (\A p \in Procs : proc[p].pc \notin Running) /\ UNCHANGED vars

Next == \/ \E p \in Procs : Step(p) \/ AppExits(p) \/ Environment(p)
        \/ Terminated

\* Every process is scheduled, and every program ends; where no process can be
\* created any more, fork fails.
Fairness == \A p \in Procs : WF_vars(Step(p) \/ ForkFails(p) \/ AppExits(p))

Spec == Init /\ [][Next]_vars
FairSpec == Spec /\ Fairness

-----------------------------------------------------------------------------
Dirs == {Temp(p) : p \in Procs} \cup {Installed(g) : g \in Programs}
Ports == {Port(p) : p \in Procs}

Envs == [reset : BOOLEAN, archive : Programs \cup {NoProgram},
         home : {Temp(p) : p \in Procs} \cup {NoDir}, level : {"", "0", "1"},
         splash : Ports \cup {NoPort, Suppressed}, lib : Seq(Dirs \cup {UserDir}),
         lib_orig : Seq(Dirs \cup {UserDir})]

ProcType ==
    [pc : Running \cup Ended \cup {"none"}, prog : Programs \cup {NoProgram},
     how : {"none", "shell", "fork", "worker", "restart", "other"},
     parent : Procs \cup {0}, instance : Procs \cup {0}, env : Envs,
     level : {"unknown", "parent", "main", "subprocess"},
     home : Dirs \cup {NoDir}, user : UserPaths \cup {<<>>}]

TypeOK == proc \in [Procs -> ProcType] /\ dirs \subseteq Procs

Runs(p) == proc[p].pc = "app"

\* Every process that runs a program is told by its environment what it is, as
\* the documentation has it: a worker if the same program spawned it, and the
\* application process of a new instance if a shell, another program or a
\* restart did (the level that pyi_main infers).
LevelIsRole ==
    \A p \in Procs : Runs(p) =>
        (proc[p].level = "subprocess" <=> proc[p].how = "worker")

\* It runs from the directory of its own instance: never from that of another
\* program, nor of the instance that it was told to be independent of.
HomeOfInstance ==
    \A p \in Procs : Runs(p) =>
        proc[p].home = IF proc[p].prog \in OneFile THEN Temp(proc[p].instance)
                       ELSE Installed(proc[p].prog)

\* That directory is not removed while the program runs.
HomeExists ==
    \A p \in Procs : (Runs(p) /\ proc[p].prog \in OneFile) =>
        \E q \in dirs : proc[p].home = Temp(q) /\ proc[q].prog = proc[p].prog

\* An instance unpacks once: no process below its top-level one takes itself
\* for a parent, which would be an endless spawn loop.
UnpacksOnce == \A p \in dirs : proc[p].instance = p

\* A program talks to the splash screen of its own instance only; the workers
\* of a program with a screen are told that there is none.
SplashOfInstance ==
    \A p \in Procs : (Runs(p) /\ proc[p].prog \in WithSplash) =>
        IF proc[p].how = "worker" THEN proc[p].env.splash = Suppressed
        ELSE proc[p].env.splash \in {NoPort, Port(proc[p].instance)}

\* The program finds its own libraries before all others.
OwnLibrariesFirst ==
    \A p \in Procs : Runs(p) =>
        proc[p].env.lib # <<>> /\ Head(proc[p].env.lib) = proc[p].home

\* What the documentation says to put back into LD_LIBRARY_PATH before a system
\* program is started is the value that the user had, through any chain of
\* programs and workers, each of which changes the path and its copy, as long as
\* none of them restarts itself with the path as it is.
Descends(S) == \A p \in Procs : proc[p].how = "restart" \/ proc[p].parent \in S => p \in S
OfRestart == {p \in Procs : \A S \in SUBSET Procs : Descends(S) => p \in S}
RestoresUserPath ==
    \A p \in Procs \ OfRestart : Runs(p) => RestoredPath(proc[p].env) = proc[p].user

\* A process does not execute itself again and again (onedir programs restart
\* once, to have their library path respected).
EveryProcessStarts == \A p \in Procs : []<>(proc[p].pc # "boot")

\* The temporary directory is removed when the program has ended, unless the
\* parent process was killed, or could not extract the program and returned
\* without its clean-up.
DirectoryRemoved ==
    \A p \in Procs : []<>(p \notin dirs \/ proc[p].pc \in {"killed", "failed"})
=============================================================================
