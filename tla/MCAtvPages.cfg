CONSTANTS
    Nothing = Nothing
    Calls = {c1, c2}
    MaxParts = 2
\* From the second evening to the third night: clocks are changed in that night,
\* or in the one after the next.
    Starts = {46}
    Changes = {50, 98}
    LastHour = 51
    Cinemas = {t1, t2, t3}
    Distance <- Miles
    Versions = {v1, v2, v3}
    TmsIds = {v1, v2}
    Schedules <- Offered
    Bodies <- Written
    MaxLength = 3
    t1 = t1
    t2 = t2
    t3 = t3
    v1 = v1
    v2 = v2
    v3 = v3
SPECIFICATION FairPages
INVARIANTS PageRight RenderRight
PROPERTIES ShowtimesRight
\* The viewer has called what there is to call.
CHECK_DEADLOCK FALSE
