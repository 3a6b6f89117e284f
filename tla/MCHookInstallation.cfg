SPECIFICATION Spec
INVARIANTS
    SitesOrdered
    AllOrNothing
    NativeKept
CHECK_DEADLOCK FALSE
