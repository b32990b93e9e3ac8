\* Two files of one name in a directory where the name and its first number may be taken.
SPECIFICATION Spec
CONSTANTS
    f1 = f1
    f2 = f2
    Files = {f1, f2}
    Chunks = 2
    MaxNumber = 1
INVARIANTS
    KeepsFiles
PROPERTIES
    CircleIsTrue
CHECK_DEADLOCK FALSE
