\* A submodule that comes in after the hook of its package was run.
SPECIFICATION Spec
CONSTANTS
    Names <- MCNames
    Path <- MCPath
    Packages <- MCPackages
    Exists <- MCExists
    Script = "s"
    RunTimeHook = "rt"
    Projects <- LateSubmodule
INVARIANT
    ExclusionsApply
