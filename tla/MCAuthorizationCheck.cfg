CONSTANTS
    MaxHandlers = 3
    NoControl = NoControl
    Cases <- MCCases
SPECIFICATION Spec
INVARIANTS CheckInv OverriddenOnlyByOverride SkippedForAReason FailsClosed
CHECK_DEADLOCK FALSE
