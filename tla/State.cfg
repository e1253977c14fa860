SPECIFICATION MCSpec
CONSTANTS
    Levels = 2
    Roots = {2}
    PageTables <- SomeTables
    Nil = Nil
    None = None
    Harts = {h1, h2}
    Lockstep = TRUE
    Words = {{}, {0, 1, 3, 8, 11}, {5, 7, 12, 13, 63}}
    Results = {0, 1}
INVARIANTS
    LinesValid
    CodeTrue
    FsTracks
PROPERTIES
    Confined
    SsipStays
    InterruptsNoticed
SYMMETRY Symmetry
\* A program in U-mode whose next instruction is illegal stops at the trap.
CHECK_DEADLOCK FALSE
