CONSTANTS
    None = None
    Requests = {r1, r2}
    FilmRequests = {r1, r2, r3}
    Entries = 2
    MaxAge = 0
    Titles = {film}
    Exts = {disney, mult}
    Lifetime = 1
    Shelves <- AllShelves
    Watched = {film, "disney", "multPoisk"}
SPECIFICATION FairEither
INVARIANTS Fresh OnlyKnownFaults
PROPERTIES FaultsForgotten FilmsRecover
