SPECIFICATION Spec
CONSTANTS
    t1 = t1
    t2 = t2
    archive = archive
    gallery = gallery
    night = night
    None = None
    Tabs <- MCTabs
    Deployments <- Retiring
INVARIANTS
    UntouchedDefaultIsNoChoice
