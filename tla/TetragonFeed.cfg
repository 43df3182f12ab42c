CONSTANTS
    Calls = {k1, k2}
    Paths = {p1, p2}
    Placeholder = placeholder
    Streams = {s1, s2}
    NoStream = none
SPECIFICATION FairSpec
INVARIANTS
    UndisturbedPathsStay
    LostConnectionIsRetried
    OnlyLateReportsAddStreams
    AccessesAreHeard
PROPERTIES
    Reconnects
