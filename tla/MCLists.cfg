CONSTANTS
    r1 = r1
    r2 = r2
    r3 = r3
    LastPage = 4
    MaxFrames = 3
    LastCount = 6
    Names = {n1, n2, n3}
    Categories = {x1, x2}
    Urls = {u1, u2}
    WithComma = {u2}
    Width = 2
    Previews = 1
    MaxChannels = 3
    None = None
    Requests = {r1, r2, r3}
    Items = 2
SPECIFICATION SpecEither
INVARIANTS MoviesRight PagesWhole ChannelsRight
SYMMETRY Symmetry
\* Every call has been made.
CHECK_DEADLOCK FALSE
