SPECIFICATION Spec
CONSTANTS
    Works = {1, 2, 3}
    Executing = 3
    Settings = {s1, s2}
    Blank = blank
    Slow = FALSE
    MaxChanges = 5
    MaxLinks = 3

INVARIANTS DisplayFollows
