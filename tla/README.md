# A TLA+ verification of PyInstaller

PyInstaller bundles a Python program with its interpreter and libraries. A
Python program (`PyInstaller/`) analyses and builds; a C program
(`bootloader/src/`) is the executable that users run. This directory holds TLA+
modules that model the concurrent, failing and stateful parts of both, the TLC
runs that check them, and proofs checked by TLAPS.

## The system

| Component | State it keeps | Operations | Interacts through | What is hard | What makes it correct |
|---|---|---|---|---|---|
| Splash screen (`pyi_splash.c`, `pyi_splashlib.c`, the Tcl script, `pyi_splash` module) | `SPLASH_CONTEXT`, three mutexes, two conditions, the event queue of the Tcl thread, `_PYI_SPLASH_IPC`, a TCP connection | start, update text, finalize; connect, update, close | threads, event queue, socket, environment | two threads that start, end and unload libraries under each other; asynchronous events; a thread that cannot be created | no call into unloaded libraries, texts in order, no deadlock, libraries released before their files are removed |
| Process start-up (`pyi_main.c`) | environment variables, temporary directories, the tree of processes | reset, infer the level, re-execute, extract, fork, wait, clean up | inherited environment, file system, `waitpid` | a process knows only its environment, which comes from any other process | each process knows its role and its directory; directories live as long as they are used and no longer |
| Child process and signals (`pyi_utils_posix.c`), Apple events (`pyi_apple_events.c`) | dispositions of signals, one deferred event, the child's status | fork, install, wait or poll, forward, resend, reset, clean up | signals, event queue, `waitpid` | a signal or an event between any two steps, when the other process is not there yet or not any more | the parent ends after and like its child; no document is lost, opened twice or out of order |
| Extraction and scripts (`pyi_launch.c`, `pyi_multipkg.c`, `pyi_archive.c`) | the archive, a pool of other archives | extract entries, run scripts | calls, screen updates | failure half-way, buffers that die | everything is extracted or the program does not start |
| Isolated subprocesses (`isolated/_parent.py`, `_child.py`) | a child process, two pipes and their handles | enter, call, exit; run commands | pipes, `wait`, `kill` | death at any time, interrupts, a child that does not exit | answers go to their calls, nothing is left behind |
| Cache of processed binaries (`process_collected_binary`) | `index.dat` and a file per name | look up, copy, process, save | file system, across builds | failure between two writes of one fact | only processed files of the right content are collected |
| Build targets (`datastruct.py`, `api.py`, `build_main.py`) | `*.toc` files ("guts"), outputs, times of modification | check guts, assemble, save | file system, across builds, between targets | staleness, coarse times, interrupted writes | a rebuild gives what a clean build gives, and rebuilds nothing without need |
| Analysis and hooks (`modulegraph.py`, `analysis.py`, `imphook.py`) | a graph of modules, a cache of hooks | import, exclude, run hooks until nothing changes, add run-time hooks | recursion, hooks' lists | cycles, failures half-way, a fixpoint over a cache that shrinks | what is collected is what code and hooks ask for; the loop ends |
| Binary dependencies (`bindepend.py`) | a worklist | resolve libraries | platform tools | cycles, symbolic links | closure, no duplicates |
| Archives (`archive/*.py`, `pyimod01_archive.py`, `pyi_archive.c`) | files | write, read | layout | offsets, duplicates | what is written is what is read |
| Frozen importer (`pyimod02_importers.py`) | the tree of frozen modules, `sys.path_hooks` | find, load | import system | namespace packages, fallback | finds what was collected, and leaves the rest |
| Windows processes | a hidden window, a job object | shutdown handling | window messages | a bounded time to clean up | clean-up in time |
| Rest: embedding, paths, spec files, platform tools, hooks | little | straight-line | calls | – | – |

The parts meet as follows. A build goes through the targets, whose Analysis runs
the module graph and its hooks (calls to isolated subprocesses) and whose PKG or
COLLECT goes through the cache. The program that it makes starts up as a tree of
processes: the onefile parent extracts, with a splash screen in a second thread,
forks its child, forwards signals and Apple events to it, waits, takes the
screen down and removes the directory. Child, workers and other programs
know of all this only what their environment tells them.

`PROJECT.json` lists every component with its files and its status, and the
hazards of this code at their lines. Vendored code (`waflib`, `zlib`) and the
hooks, which are data on other packages, are left aside.

## The modules

| Module | Models | Composed of |
|---|---|---|
| `Splash` | the two threads of the splash screen and the application that uses it | – |
| `SplashPromise` | what a screen promises, abstractly | implemented by `Splash` |
| `Launch` | the tree of processes, their environments and directories | – |
| `Child` | the onefile parent and its child from fork to exit, signals, Apple events | – |
| `Isolated` | both ends of the pipe protocol | – |
| `BuildParameters`, `BinCache` | the cache of processed binaries | a part of `Build` |
| `Build` | a chain of targets over builds | `INSTANCE BinCache` |
| `ModGraph` | the import graph, post-graph hooks, run-time hooks | – |
| `*Proof` | theorems about `Splash`, `Launch`, `Child`, `Isolated`, `BinCache`, `Build`, `ModGraph` | `SplashPromiseProof` extends `SplashProof`; `BuildProof` uses `INSTANCE BinCacheProof` |
| `MC*` | values of the constants for TLC | – |

Each definition that models code is mapped to its lines in `PROJECT.json`.
Definitions named "Mutant" in a comment are not part of a model: each changes
one definition the way a bug would, and shows that a property notices.

### `Splash`, `SplashPromise`

`Splash` is the screen. `boot` is the place of the main thread, from loading the
libraries to the removal of the temporary directory; `thread` is the place of the
Tcl thread in `_splash_init`. The fields of `SPLASH_CONTEXT` keep their names
(`interp`, `exit_main_loop`, `dlls_fully_loaded`, `thread_joinable`,
`thread_id`). A mutex is its holder; a thread that waits on a condition
has a waiting state (`waiting_start`, `waiting_exit`), and a notification
that finds nobody waiting is lost, as in Tcl. `queue` is the event queue, `sock`
what the application wrote into its connection. The texts are numbered in the
order in which they are sent; a text is displayed when the event is serviced, and
an entry of another archive is displayed from `name_buffer`, which the extraction
loop reuses. The actions follow the two functions: the setup
(`LoadLibraries` … `Started`), the extraction loop (`ExtractEntry`), the
finalization (`Finalize` … `FreeContext`), with `FinalizePartial` for libraries
that were never completely loaded, and the thread (`TclLockContext` … `ThreadEnds`).
`ret` is where `pyi_splash_finalize` returns to, because three callers use it.

`SplashPromise` is the abstract screen: it appears once or never, displays texts
one by one in order, disappears once, and is gone when the program is over.
`Splash` implements it with `phase`, `screen_state` and `status_text` as the
refinement mapping (`ImplementsPromise`). The promise is about safety;
`EventuallyDone` is stated in `Splash`.

### `Launch`

The processes of several frozen programs on Linux or another POSIX system. `proc`
has for each process its place, program and environment; `dirs` is the set of
temporary directories. An environment is a record: `reset` is
`PYINSTALLER_RESET_ENVIRONMENT`, `archive` is `_PYI_ARCHIVE_FILE`, `home` is
`_PYI_APPLICATION_HOME_DIR`, `level` is `_PYI_PARENT_PROCESS_LEVEL`, `splash` is
`_PYI_SPLASH_IPC`, `lib` and `lib_orig` are `LD_LIBRARY_PATH` and its copy.
`ResetEnvironment`, `LevelOf`, `StoreLevel`, `SetLibraryPath` and
`SplashEnvironments` are the pieces of `pyi_main` that read and write them;
the actions compose them (`BootParent`, `BootChild`, `RestartOnedir`,
`BootOnedir`, `Extract`, `Fork`, `Wait`, `Cleanup`). The fields `how`,
`instance` and `user` are not in the code: they record how a process came to be,
which instance the documentation says it belongs to, and the user's library
path, for the properties to compare with. A process that has ended keeps only how it
ended, its program and its parent (`EndOf`), so that TLC does not tell apart states
that no process can.

What programs do is a choice: spawn another program with a restored library path,
a worker through `sys.executable`, or a restart as in
`doc/common-issues-and-pitfalls.rst`. A program ends after its workers, as that
page asks of programs.

### `Child`

`parent` is the place of the onefile parent, from the set-up of its event handlers
to its end; `child` the state of its child. `caught` are the signals that are on
their way to the parent, which its handler (`Handle`) or its death (`DieOf`) takes
at any place; `signals` remembers whether each was sent to the process or to the
group, and `hits` how often it reached the child. With `mode.windowed`, `Poll`,
`Resend`, `Pump` and `Activate` are the steps of the wait loop; `pending_event` is the one
deferred event. An event has a kind and a number, and what the child was asked to
do is `pyi_argv` (argv emulation) and then `delivered`. `mode.autoreap` is a
parent that was started with SIGCHLD ignored, whose `waitpid` fails.

### `Isolated`

`user` is where the code with the `with` block is, `raising` the exception on its
way, `handles` the open ends of the pipes, `child` the state of the child, and
`to_child` and `to_parent` what is in the pipes. A command carries the number of
its call, and an answer the number of its command, so that `returned` tells
whether a call got its own answer. `Partial` is an answer that was cut off by the
death of the child.

### `BinCache`, `Build`

`BinCache` is `process_collected_binary` for one destination name over many builds.
`index` and `index_whole` are `index.dat`, `file` is the file in the cache,
`cache_index` is what the build has loaded, `pc` is where it is. Any build may be
interrupted between any two steps, strict validation may fail, and the source may
change between builds. `finished` is a history variable: the contents that were
ever processed to the end.

`Build` is a whole program that is built again and again: `target` and `step` say
which target is checked, assembled, processed, written or saved; `guts` and
`product` are the files, each with its time of modification in seconds;
`Outdated` is what `_check_guts` of each target compares. Between builds, sources,
options, the executable and the directories change, and any build may fail or be
interrupted at any step, with half-written products, guts and index. `Build` holds an
instance of `BinCache` as the cache that PKG (onefile) or COLLECT (onedir) goes through,
so that failures of the targets and of the cache meet.

### `ModGraph`

The nested calls of `_process_imports`, `_safe_import_hook` and `_load_module` are
a `stack` of frames; `nodes` is what each name is in the graph and `edges` are the
references. `Suppress` is an import that hooks exclude, `Descend` the next missing
package or module of a dotted name, `DescendAttr` a submodule in a from-list,
`MissBase` and `Link` the ends of an import. Around it, `phase` is the place of
`Analysis.assemble`: the script, the user's hidden imports, the iterations over the
cache of hooks (`SkipHook`, `IgnoreHook`, `RunHook`, `EndIteration`), and the
run-time hooks. `order` is the order in which the file system lists the hooks; TLC
tries all.

## The runs

| Run | Question | Result |
|---|---|---|
| `splash` | Do the two threads, the application and a user who closes the window get along, also when the thread cannot be created, and is this the abstract screen? | types, no call into unloaded libraries, join before unload, no early start, texts in order, release before wipe; the main thread always finishes; `SplashPromise` is implemented |
| `splash_create_failure` | Is `dlls_fully_loaded` to be trusted? | no: after a failed `Tcl_CreateThread` the screen is finalized twice, the second time through pointers into a library that is unloaded |
| `splash_dependency_text` | Does the screen show names of entries only? | no: for entries of other archives it may show a buffer that is gone |
| `launch` | Does each process know what it is, and run from its own directory, whoever spawned it? Does every process start, does every directory go, is the user's library path known? | yes, but for directories of parents that were killed or failed to extract, and for the path after a restart |
| `child` | Who ends first and with which status, whatever signals come when; is each document opened once? | parent after child, as the child; with the exceptions stated in the properties |
| `isolated` | Do answers go to their calls, does every way out clean up, does everything end? | yes, except for a write to a dead child |
| `build` | Is what a finished build makes current, whatever changed and failed before? Is anything built again without need? Do the invariants of the cache hold in a whole build? | yes, as long as sources and options only move on |
| `build_interrupted` | Is a PYZ that is taken over from an earlier build whole, if the script gives an import up and takes it up again? | no: a PYZ whose writing was interrupted in between is taken for that of the guts |
| `build_passed_on` | Does COLLECT get the entries that EXE must not embed in every build? | no: only if the PKG was assembled in this build |
| `bincache_validation` | Does the cache keep unprocessed files out if a source goes back to an older content? | no: the old entry outlives its file |
| `modgraph` | Is what is collected what code and hooks ask for, for all small projects and all orders of hooks? Are hooks run once, and does it end? | yes, between two closures (below) |
| `modgraph_exclusion` | Do exclusions of a package's hook apply to all its submodules? | no: not to those that come in after the hook was run |

The runs that end in a violation each check one statement of the documentation,
of a comment or of a test; `PROJECT.json` quotes it under "findings".

`CollectsClosure` compares the graph with two definitions by closure that know nothing of
stacks and iterations: all that would be collected if every exclusion applied must be there,
and nothing that would not be there if none did. That it has a gap, for excluded imports,
is what `modgraph_exclusion` shows. An import that fails half-way, because a later package of its
dotted name is missing, leaves what was found of it in the graph without a reference, and a later import
that asks for such a part finds it there; so what may be there includes what was found of failing imports
(`Part`, `Kept`). Both closures are least closed sets, not recursions, so that one can
prove about them.

### Bounds, and why they are enough

- `splash`: two entries and one text of the application. Order needs two texts in
  one channel and one in the other; the threads meet once at the start and once at the
  end, whatever the number of entries. Both kinds of threads (joinable or not) are in, and
  threads that cannot be created.
- `launch`: four processes: a onefile instance has two, and what they spawn are the third
  and the fourth, so that an environment is inherited across every pair of relations; a
  onefile and a onedir program, both with a screen, since the archive in the environment is
  either one's own or not; one shell, with and without a library path, and one killed
  parent. The theorems are for any number.
- `child`: two signals, each to the parent or the group, and two events: one that is
  deferred and one behind it. All modes (windowed, argv emulation, ignored signals,
  SIGCHLD ignored) are in.
- `isolated`: two blocks and three calls: a call follows another one of its block that ended
  well or with an error, and the next block follows whatever the first one left over: an answer,
  an interrupt, a dead child, or open handles.
- `build`: three builds, two contents of each source, two values of the option, three
  seconds: a build that fails, one that is half up to date, and one that must notice it.
  The clock may advance or not between a product and its guts.
- `bincache_validation`, `build_*`, `splash_*`: the smallest
  values with the behaviour.
- `modgraph`: a script, a package with a submodule, two modules, a name that is no module
  and a run-time hook, with all combinations of two or three lists of imports for each and
  of hidden and excluded imports for the hooks: cycles between package and submodule, names
  missing before they are asked for as attributes, an import that fails and is asked for again, hooks that bring in modules whose hooks
  bring in the first's submodule.

The bounds are constants that guards of the environment's actions name
(`MaxProcs`, `MaxShells`, `MaxKills`, `MaxSignals`, `MaxEvents`, `MaxCalls`,
`MaxContexts`, `MaxBuilds`, `MaxTime`, `NumAppTexts`); none is in an action of the code.
`Terminated` is the stuttering of a system that is through, so that deadlock stays checked in
every run.

### Fairness

- `Splash`: both threads are scheduled (weak fairness of each as a whole, since each is
  sequential), and the application exits at some time. The user need not close the window.
- `Launch`: every process is scheduled, and every program ends; no fairness for the
  environment (`Spawn`, `Kill`, failures), except that `fork` fails where the bound leaves no
  process: an artefact of the bound that the code must survive anyway.
- `Child`: the parent is scheduled, and a child that was forked gets as far as to receive
  events or ends; the program need not end, and no signal need come.
- `Isolated`: both processes run, and a function that is called returns or dies. A child
  that lingers after the last command, because of a thread that a function left, need
  not end: that is what the timeouts of `__exit__` are for. They are part of
  the fairness of `Waiting`: a timeout does expire.
- `ModGraph`: the analysis is one sequential program that runs on.
- `Build` has no liveness property: builds may be interrupted.

## What is proved

Every safety property that a passing run checks, and the refinement of `SplashPromise`, are proved for every
value of the constants, under the assumptions named in the modules. Few of them are
inductive; each proof has an invariant whose parts are named and commented
in the module, and one lemma for the initial states and one for the steps, by action.

- `SplashProof`: `TypeOK` (inductive by itself); `CallsOnlyLoadedTcl`, `JoinedBeforeUnload`,
  `StartedAfterScript`, `ReleasedBeforeWipe`. Whether a library may be
  unloaded at some step depends on where the other thread is, which depends on who
  held a mutex when. `Inv` says who holds which mutex and how long the interpreter lives
  (`MutexInv`), which places of the main thread imply which libraries (`LoadedInv`), what a
  finalization finds and returns to (`FinalizeInv`, `RetInv`), and where the Tcl thread may be
  for each place of the main thread around both waits (`HandshakeInv`). The last is the
  heart: a main thread that waits for the exit implies a Tcl thread that has yet to notify
  it, and one that is past the wait implies a Tcl thread with no call into the libraries left.
  The theorems include threads that cannot be created; `NoCallIntoUnloadedTcl` without the
  restriction of `CallsOnlyLoadedTcl` is what `splash_create_failure` refutes.
- `SplashPromiseProof`: `TextsInOrder` and `ImplementsPromise`, for archives without entries of
  other archives (`Dependencies = {}`, which the run has too: `splash_dependency_text` shows what their text
  may be). `TextsInv` says that the texts in the event queue follow the one on the screen, those in the
  connection follow those in the queue, up to the last one sent, and that what ends a queue or
  connection is the last in it; `WindowInv` and `ReturnInv` say when there can be a window and a wipe. With them, and
  `Inv` of `SplashProof`, every step of `Splash` is a step of `SplashPromise` or a stutter, by action.
- `LaunchProof`: `TypeOK`, `LevelIsRole`, `HomeOfInstance`, `HomeExists`, `UnpacksOnce`,
  `SplashOfInstance`, `OwnLibrariesFirst`, for any number of programs and processes that spawn
  each other in any way. The invariant has a part about each process alone (`ProcOK`): a booting
  process either has an environment that it will reset, and then is a new instance, or one of
  three that are its own: that of a onedir program that has executed itself, of a onefile child,
  or of a worker; and so on for each place. Whether a directory stays is about families
  (`FamilyInv`): a living forked child has a parent that waits or was killed, a living worker has an
  earlier spawner that runs the same program. `HomeExists` then follows by descent: the
  earliest living process of an instance is not a worker, so it is the child of a parent
  that still has its directory. `RestoresUserPath` has an invariant of its own (`PathInv`): the path is the
  user's until a process has set it, and its copy is the user's from then on; a worker inherits the copy
  with the changed path, another program the restored path, and a process that will reset its
  environment never has an own directory in its path unless a restart led to it. What comes of a restart
  (`OfRestart`) is a least set, so that only its closure is needed.
- `ChildProof`: `TypeOK`, `ChildHasDirectory`, `EndsLikeChild`, `SignalledOnce`, `OpensInOrder`. `ParentInv` says
  for each place of the parent which handlers, child, directory and status there may be;
  `SignalInv` that the handler's turn of a signal that is still on its way is not counted yet.
  `OrderInv` is about arguments, events sent, event deferred and queue joined into one sequence: forwarding,
  deferring and sending again leave it as it is, and what is put in or dropped is never a document. For this
  it adds that a request to activate, which takes the place of what is deferred, never finds a
  document there. The lemmas before it say what a join of sequences does to the set and the order of their documents.
- `IsolatedProof`: `TypeOK`, `ResultOfCall`, `LeavesNothing`. `PipeInv` says what the pipes may
  hold at each place of the child, `CallInv` where the one call under way is: after an
  interrupt no answer can be taken for that of a later call, because the exception leaves the
  block, and the next block has new pipes. `HandleInv` tracks the handles.
- `BinCacheProof`: types; `IndexedWasProcessed`, strengthened by `SavedInv` (a build about to
  write the index has finished its source); and, under `~Reverts` (with reverts,
  `bincache_validation` has a counterexample), `CollectedIsCurrent`, whose invariant adds `CacheInv`: an
  entry is never newer than the source, and if it is for the source, then the file is the
  processed source. So an entry that a failure leaves behind without its file is older than
  the source, and can never be hit again.
- `BuildProof`: `IndexIsTrue` and `CollectsCurrent` of the cache in `Build`, from the theorems of
  `BinCacheProof`. What carries these over says nothing about the code: `CacheRefinement` holds by how `Build`
  is composed, and `SameCache` identifies the two instances of `BinCache`.
  `TypeOK`. `QuietIfSettled` follows from an invariant on the times that the chain compares
  (`QuietInv`), which says nothing of contents and holds also if sources go back: no file is from the future, the
  targets that a build has behind it are fresh (`BehindInv`), and the one that it works at was found
  outdated (`WorkInv`), so that what it has still to look at is older than what it writes. `FinishedIsCurrent`
  adds contents (`ContentInv`): a target that is fresh was made of what there is now; for this the saved lists and options
  must be the present or older ones (`HistoryInv`). It assumes that sources and options only move on, and that
  the script does not take up an import again that it had given up (`~Reverts`, `ListsMoveOn`): `bincache_validation` and
  `build_interrupted` are counterexamples without. The runs have these restrictions too.
- `ModGraphProof`: `TypeOK`, `HookedOnce` and `CollectsClosure`, for every project: any names,
  imports (cyclic or not), hooks and orders of hooks. `Invariance` is about the machine: the frames on the
  stack are of distinct modules which are in the graph (`GraphInv`), and where the loop over the
  hooks is in its list, which shrinks while it runs (`HookInv`, `RanInv`). `CollectInvariance` is about what
  is collected. Upwards: whatever is in the graph, in the cache or under way is permitted by the larger
  closure (`FoundInv`, `SoundInv`, `HideInv`). Downwards: each import of a module that was scanned is
  satisfied, or is still to come in a frame on the stack (`AskInv`, `UpInv`), and each import that a hook or the
  user asks for is satisfied, or its turn is to come (`WantInv`); at the end nothing is to come, so what is
  in the graph is closed, and contains the least closed set. No induction over the closure is needed: one direction
  is a closed set that contains what is collected step by step, the other the leastness itself.

Model-checked only:

- liveness (`EventuallyDone`, `EveryProcessStarts`, `DirectoryRemoved`, `EndsAfterChild`,
  `EventsReachChild`, `ParentReturns`, `OrphanEnds`, `AnalysisEnds`): fairness and ENABLED are
  out of reach of the prover.

## What the models say about the code

Besides the findings, modelling met behaviour that no document promises otherwise, and that the
properties are stated around:

- If extraction fails, `_pyi_main_onefile_parent` returns without its clean-up (`pyi_main.c:766`); the
  temporary directory stays (`DirectoryRemoved` excepts it).
- The documented restart recipe passes `LD_LIBRARY_PATH` on as it is, so that the new instance
  overwrites `LD_LIBRARY_PATH_ORIG` with the directory of the first one (`pyi_utils_posix.c:418`;
  `RestoresUserPath` excepts restarts).
- A signal between the fork and the installation of the handlers, or after their reset, ends the
  parent before its clean-up (`EndsLikeChild` names the places). If the parent was started with SIGCHLD
  ignored, `waitpid` fails and the status of the child is lost.
- If the child of an isolated block dies between two calls, `__exit__` writes to the closed pipe outside of any `try`,
  raises, and leaves the handles of both pipes open (`isolated/_parent.py:267`), while
  `tests/unit/test_isolation.py:218` says that exiting closes them all (`LeavesNothing` excepts this way out).
- There is room for one deferred Apple event: the request to activate that follows a deferred request to
  reopen takes its place (`pyi_apple_events.c:207-219`).
- `RemoveOldFails` (`building/utils.py:224`): a build that was interrupted between removing and copying a
  cached file makes every later one of this source fail, until the cache is cleaned.
- Times are cut to seconds (`utils/misc.py:89`): a change in the same second as the build before it is not
  seen. `Build` lets changes follow in a later second.
- The guts of a PKG never look whether its file exists, and an interrupted write of it, followed by a return to
  the option of the guts, is taken for complete; that is why options only move on in `build`. The guts of an
  Analysis do not notice modules that appear, nor changes of hooks.
- Nodes that are not reachable from the script still have their hooks run.

## What is not modelled

- `Splash`: spurious wakeups of the two waits; the record behind a condition, which
  `pyi_splash_start` frees; errors of the application's socket.
- `Launch`: Windows and macOS; the
  screen that a user suppresses (`PYINSTALLER_SUPPRESS_SPLASH_SCREEN`), systemd's
  `LISTEN_PID`, `_PYI_LINUX_PROCESS_NAME`; a directory that cannot be removed; the death of
  processes other than onefile parents.
- `Child`: job control signals, a process id that is in use again when a signal is forwarded to it, errors of `AESendMessage` other than an absent process, the conversion of
  URLs and paths.
- `Isolated`: the no-op mode inside a child; an interrupt while `__exit__` waits; processes
  below the child, which hold its pipes; handle inheritance on Windows.
- `BinCache`, `Build`: two builds at a time; a source that changes during a build; names that differ
  in case only; the steps of the processing; `compile_pymodule` (`building/utils.py:662`), which may take a
  partially written `.pyc` of an interrupted build; `Tree`, `Splash`, `MERGE` and `BUNDLE`. MERGE rewrites
  lists in one sequential pass (its test by `endswith`, `api.py:1289`, is listed as a hazard).
- `ModGraph`: aliases, SWIG modules, star imports, `pre_safe_import_module` and `pre_find_module_path`
  hooks, `del_imports`, priorities between several hooks of one module.
- Binary dependencies, archives, the importer, Windows processes, embedding, the command line and the platform
  tools: sequential code over formats, tables or the output of external tools, with little state that one
  call leaves for another; their hazards are in parsing and layout, which a unit test reaches. The hooks and
  the vendored code are data and third parties.

## Plan

Done: `Splash` with `SplashPromise`, `Launch`, `Child`, `Isolated`, `BinCache` in `Build`, `ModGraph`, and the
proofs above. What is left, in this order:

1. `Isolated` with processes below the child that hold the pipes (hazard at `_parent.py:148`), with the
   theorem that answers still match.
2. `Splash` with spurious wakeups, as a choice of `Tcl_ConditionWait`, and what is left of `HandshakeInv`.
3. `PyiFrozenFinder` against the interpreter's own finder over small trees of packages, and the worklist of
   `bindepend` as a closure: the argument of `CollectsClosure` in a smaller form.
4. MERGE with the pool of archives of the bootloader, from the lists to the search at run time.
