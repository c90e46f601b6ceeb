\* Two groups or 33, of 8 or 16 inodes, blocks of 1 and 2 KB, up to three entries.
SPECIFICATION Spec
CONSTANTS
    Names = {"a", "b"}
    Ipgs = {8, 16}
    GroupCounts = {2, 33}
    Logs = {0, 1}
    MaxEntries = 3
    MaxOthers = 2
    Inodes = {11, 16}
\* The program ends.
CHECK_DEADLOCK FALSE
INVARIANT
    FindsTheEntry
