SPECIFICATION TaskSpec
CONSTANTS
    TickInterval = 1
    FeedcodePoll = 3
    AttachBackoff = 4
    Grace = 7
    ReadErrorLimit = 3
    MaxWork = 1
    Labels = {run, menu}
    Empty = Empty
    Detached = Detached
INVARIANTS
    HandleIsReleased
    LabelIsFresh
PROPERTIES
    DropIsJustified
    Recovers
    ProblemClears
    ImplementsDisplay
    ImplementsServerTask
