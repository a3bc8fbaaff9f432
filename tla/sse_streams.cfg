\* Streams of either provider, cut into chunks anywhere, closed at any point.
SPECIFICATION Spec
CONSTANTS
    Lines <- MCLines
    MaxBuffer = 2
    Reserved = 3
    MaxLines = 4
    MaxCloses = 2
    NoUsage = NoUsage
    NoLine = NoLine
INVARIANTS TypeOK UsageMatchesLines ReconciledExactlyOnce
CHECK_DEADLOCK FALSE
