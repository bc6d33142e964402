CONSTANTS
    s = s
    t = t
    r = r
    None = None
    Issues <- InScope
    Scope <- OneInScope
    TeamScope = {t}
    Features <- OperationControls
SPECIFICATION Spec
CHECK_DEADLOCK FALSE
INVARIANTS
    BusyHasOneHolder
    FlowsConcernSelection
PROPERTIES
    BusyIsReleased
