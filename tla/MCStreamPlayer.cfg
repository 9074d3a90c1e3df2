CONSTANTS
    c1 = c1
    c2 = c2
    timer = timer
    Clients <- MCClients
    Timer <- timer
    MaxStarts = 2
SYMMETRY Symmetry
SPECIFICATION Spec
INVARIANTS OverlapOnlyFromRace LeftoverHasCause
PROPERTY SweepSparesNobodyItSaw
