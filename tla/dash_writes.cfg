CONSTANTS
    s = s
    t = t
    r = r
    None = None
    Issues <- AnyIssue
    Scope <- InScope
    TeamScope = {}
    Features <- WriteControls
INIT Init
NEXT Next
CONSTRAINT Within
CHECK_DEADLOCK FALSE
INVARIANTS
    SubmissionKeepsDraft
    WatchOutcomeIsShown
    WatchChangeIsReconciled
    CommentAndWatchDoNotOverlap
