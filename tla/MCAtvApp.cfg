CONSTANTS
    None = None
    Loads = {l1, l2}
    Views = {d1, d2, d3}
    Names = {n1, n2}
    Options = {0}
    Playbacks = {p1, p2}
    Parts = 2
    Logins = {a1, a2}
    Queries = {q1}
    MaxPhotos = 4
SPECIFICATION FairPart
INVARIANTS PhotosRight PlaybackOwn ViewsOwn StuckHasCause
PROPERTIES SessionKept KeepsPromise LoadEnds
\* The viewer has called what there is to call.
CHECK_DEADLOCK FALSE
