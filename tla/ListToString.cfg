\* Shard ids 0..11: runs, gaps, and ids of one and two digits (9-10-11).
CONSTANTS
    Id = {0, 1, 2, 3, 4, 5, 6, 7, 8, 9, 10, 11}
    MaxLen = 4
SPECIFICATION Spec
INVARIANT ListToStringCorrect
CHECK_DEADLOCK FALSE
