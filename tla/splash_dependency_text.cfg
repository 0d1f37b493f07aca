\* The second entry is a reference to another archive.
SPECIFICATION Spec
CONSTANTS
    NumEntries = 2
    NumAppTexts = 0
    Dependencies <- SecondEntry
    Joinable <- OnlyJoinable
    CreationMayFail = FALSE
INVARIANTS
    DisplaysEntryNames
