\* A onefile program and a onedir program, both with a splash screen, which start
\* each other, their workers and themselves anew.
SPECIFICATION FairSpec
CONSTANTS
    a = a
    b = b
    Programs <- OneOfEach
    OneFile <- JustA
    WithSplash <- OneOfEach
    NoProgram = none
    UserPaths <- NoPathOrOne
    MaxProcs = 4
    MaxShells = 1
    MaxKills = 1
    Restarts = TRUE
INVARIANTS
    TypeOK
    LevelIsRole
    HomeOfInstance
    HomeExists
    UnpacksOnce
    SplashOfInstance
    OwnLibrariesFirst
    RestoresUserPath
PROPERTIES
    EveryProcessStarts
    DirectoryRemoved
