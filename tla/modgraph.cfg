\* All small projects of a package, its submodule and a module.
SPECIFICATION FairSpec
CONSTANTS
    Names <- MCNames
    Path <- MCPath
    Packages <- MCPackages
    Exists <- MCExists
    Script = "s"
    RunTimeHook = "rt"
    Projects <- MCProjects
INVARIANTS
    TypeOK
    HookedOnce
    CollectsClosure
PROPERTIES
    AnalysisEnds
