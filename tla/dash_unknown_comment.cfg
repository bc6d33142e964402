CONSTANTS
    s = s
    t = t
    r = r
    None = None
    Issues <- OneRemote
    Scope <- OneInScope
    TeamScope = {}
    Features <- CommentControls
SPECIFICATION Spec
CHECK_DEADLOCK FALSE
PROPERTIES
    UnknownCommentIsReported
