------------------------------ MODULE BinCache ------------------------------
(***************************************************************************)
(* The cache of processed binaries (process_collected_binary of            *)
(* PyInstaller/building/utils.py), over builds that follow one another:    *)
(* on disk, an index from destination names to digests of sources, and a   *)
(* processed file per name.  One name is modelled, since the entries of    *)
(* different names meet only in the index file, which one build rewrites   *)
(* as a whole.  Contents of the source are numbered, and a digest is the   *)
(* number: SHA-1 tells all contents apart.                                 *)
(*                                                                         *)
(* A build may fail or be interrupted between any two steps.  Two builds   *)
(* do not run at the same time, and a source does not change during one.   *)
(***************************************************************************)
EXTENDS BuildParameters

VARIABLES
    pc,               \* where the build is
    builds,           \* builds so far
    strict,           \* strict_arch_validation
    source,           \* the content of src_name
    index,            \* index.dat: the digest of the entry, or None
    index_whole,      \* index.dat can be loaded
    cache_index,      \* what the build has loaded of it
    file,             \* cached_name
    finished          \* the contents whose processing has ever been finished

disk == <<index, index_whole, file>>
vars == <<pc, builds, strict, source, disk, cache_index, finished>>

None == 0
Contents == 1..MaxContent
Absent == [content |-> None, processed |-> FALSE]
Files == [content : 0..MaxContent, processed : BOOLEAN]

Init ==
    /\ pc = "idle" /\ builds = 0 /\ strict = FALSE /\ source = 1
    /\ index = None /\ index_whole = TRUE /\ cache_index = None
    /\ file = Absent /\ finished = {}

-----------------------------------------------------------------------------
(* Between builds.                                                         *)

\* The package that the source belongs to is updated, or downgraded.
ChangeSource ==
    /\ pc = "idle"
    /\ source' \in {c \in Contents : c > source \/ (Reverts /\ c # source)}
    /\ UNCHANGED <<pc, builds, strict, disk, cache_index, finished>>

\* The same name may be collected as an EXTENSION (strict) or as a BINARY.
StartBuild ==
    /\ pc = "idle" /\ builds < MaxBuilds
    /\ builds' = builds + 1 /\ pc' = "load"
    /\ strict' \in BOOLEAN
    /\ UNCHANGED <<source, disk, cache_index, finished>>

\* A build with --clean empties the cache first.
Clean ==
    /\ pc = "idle"
    /\ index' = None /\ index_whole' = TRUE /\ file' = Absent
    /\ UNCHANGED <<pc, builds, strict, source, cache_index, finished>>

-----------------------------------------------------------------------------
(* process_collected_binary.                                               *)

\* The function returns, or raises; its local variables are gone.
Ends == pc' = "idle" /\ strict' = FALSE /\ cache_index' = None

LoadIndex ==
    /\ pc = "load" /\ index_whole
    /\ cache_index' = index /\ pc' = "lookup"
    /\ UNCHANGED <<builds, strict, source, disk, finished>>

\* A corrupted index is left for the user to --clean.
LoadIndexFails ==
    /\ pc = "load" /\ ~index_whole
    /\ Ends /\ UNCHANGED <<builds, source, disk, finished>>

\* Mutant: the presence of an entry is enough.
HitByName == cache_index # None

Hit == cache_index = source

Lookup ==
    /\ pc = "lookup"
    /\ pc' = IF Hit THEN "collect"
             ELSE IF cache_index = None THEN "copy" ELSE "remove"
    /\ UNCHANGED <<builds, strict, source, disk, cache_index, finished>>

\* Mutant: the file is left where it is.
RemoveOldForgotten ==
    /\ pc = "remove" /\ file # Absent
    /\ pc' = "copy"
    /\ UNCHANGED <<builds, strict, source, disk, cache_index, finished>>

\* The entry is for another content.
RemoveOld ==
    /\ pc = "remove" /\ file # Absent
    /\ file' = Absent /\ pc' = "copy"
    /\ UNCHANGED <<builds, strict, source, index, index_whole, cache_index, finished>>

\* os.remove: there is no such file.
RemoveOldFails ==
    /\ pc = "remove" /\ file = Absent
    /\ Ends /\ UNCHANGED <<builds, source, disk, finished>>

\* Mutant: the index is updated before the file is processed.
CopyFileIndexed ==
    /\ pc = "copy"
    /\ file' = [content |-> source, processed |-> FALSE]
    /\ index' = source
    /\ pc' = "process"
    /\ UNCHANGED <<builds, strict, source, index_whole, cache_index, finished>>

CopyFile ==
    /\ pc = "copy"
    /\ file' = [content |-> source, processed |-> FALSE]
    /\ pc' = "process"
    /\ UNCHANGED <<builds, strict, source, index, index_whole, cache_index, finished>>

\* strip, UPX, and on macOS validation, rewriting of paths and signing.  Most of
\* what fails is only warned of, so that the file is as processed as can be.
Process ==
    /\ pc = "process"
    /\ strict => source \notin Incompatible
    /\ file' = [content |-> file.content, processed |-> TRUE]
    /\ finished' = finished \cup {source}
    /\ pc' = "save"
    /\ UNCHANGED <<builds, strict, source, index, index_whole, cache_index>>

\* The strict validation re-raises IncompatibleBinaryArchError.
ValidationFails ==
    /\ pc = "process"
    /\ strict /\ source \in Incompatible
    /\ Ends /\ UNCHANGED <<builds, source, disk, finished>>

\* save_py_data_struct: open(..., "w") truncates the index ...
OpenIndex ==
    /\ pc = "save"
    /\ index_whole' = FALSE /\ pc' = "write"
    /\ UNCHANGED <<builds, strict, source, index, file, cache_index, finished>>

\* ... and pprint writes it.
WriteIndex ==
    /\ pc = "write"
    /\ index' = source /\ index_whole' = TRUE /\ pc' = "collect"
    /\ UNCHANGED <<builds, strict, source, file, cache_index, finished>>

\* The caller copies the file, or reads it into the archive, or fails because
\* there is none; either way this build is done with it.
Collect ==
    /\ pc = "collect"
    /\ Ends /\ UNCHANGED <<builds, source, disk, finished>>

\* Ctrl+C, a full disk, a SystemError of the macOS tools, a killed process.
Interrupted ==
    /\ pc \notin {"idle", "load", "lookup"}
    /\ Ends /\ UNCHANGED <<builds, source, disk, finished>>

\* The bounds are reached.
Terminated == pc = "idle" /\ builds = MaxBuilds /\ UNCHANGED vars

Next ==
    \/ ChangeSource \/ StartBuild \/ Clean
    \/ LoadIndex \/ LoadIndexFails \/ Lookup
    \/ RemoveOld \/ RemoveOldFails \/ CopyFile
    \/ Process \/ ValidationFails \/ OpenIndex \/ WriteIndex
    \/ Collect \/ Interrupted \/ Terminated

Spec == Init /\ [][Next]_vars

-----------------------------------------------------------------------------
\* Types; a file whose entry is for another content is gone before the copy.
TypeOK ==
    /\ pc \in {"idle", "load", "lookup", "remove", "copy", "process", "save",
               "write", "collect"}
    /\ builds \in 0..MaxBuilds /\ strict \in BOOLEAN /\ source \in Contents
    /\ index \in 0..MaxContent /\ index_whole \in BOOLEAN
    /\ cache_index \in 0..MaxContent
    /\ file \in Files
    /\ finished \subseteq Contents
    /\ pc = "copy" /\ cache_index # None => file = Absent

\* An entry of the index is a promise that the content with that digest has
\* been processed to the end, in this or in an earlier build, whatever failed
\* or was interrupted (the order of copy, process and save in
\* process_collected_binary).
IndexedWasProcessed == index # None => index \in finished

\* As long as sources only move on, what a build collects is the source as it
\* is now, processed, whatever failed and interrupted builds left in the cache.
CollectedIsCurrent ==
    pc = "collect" => file = [content |-> source, processed |-> TRUE]

\* A build never picks up a file from the cache whose processing, and so the
\* validation of its architecture, has failed (doc/CHANGES.rst:883-889).  A file
\* that is missing does no harm: the caller checks that it is there.
NeverBypassesValidation ==
    pc = "collect" /\ file # Absent => file.processed
=============================================================================
