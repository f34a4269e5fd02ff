\* Two collectors, a change of roles and back, one crash and restart.
SPECIFICATION FairSpec
CONSTANTS
    Collectors = {c1, c2}
    MaxChoices = 3
    MaxCrashes = 1
INVARIANTS OverlapHasCause
PROPERTY OneCollects
