\* Two limits of which one is reached on each of two connections and one over
\* both; a window of two instants and the time for two windows
CONSTANTS
    None = None
    Keys <- MCKeys
    Limit <- MCLimit
    Window = 1
    Starts = {s1, s2}
    Conns = {c1, c2}
    N = 3
    LineSet <- MCLineSet
    Files <- MCFiles
    MaxClock = 2
    MaxPriority = 1000

SPECIFICATION Spec

SYMMETRY Symmetry

INVARIANTS
    ListeningIsReady
    RateHolds
    ProcessedIsCounted

CHECK_DEADLOCK FALSE
