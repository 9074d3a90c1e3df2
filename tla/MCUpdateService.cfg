CONSTANTS
    dll = dll
    Dll = dll
    Items = {dll}
    Changed <- MCChanged
    MaxVersion = 2
    MaxUpdates = 2
    MaxCrashes = 1
SPECIFICATION Spec
INVARIANTS TargetWhole RecordedIsApplied QuietMeansListening
PROPERTIES FatalHasCause
CHECK_DEADLOCK FALSE
VIEW View
