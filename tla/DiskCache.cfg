CONSTANTS
    Keys = {k1, k2}
    Sizes = {1, 2, 3}
    MaxBytes = 2
    TTLs = {0, 1}
    MaxTime = 2
    Removes = {TRUE, FALSE}
    RenameReplaces = TRUE
    None = None
    Garbage = Garbage
SPECIFICATION Spec
SYMMETRY Symmetry
INVARIANTS FilesSound NoResurrection
PROPERTIES GrowsWithinLimit
