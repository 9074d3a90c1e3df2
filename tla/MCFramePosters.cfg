CONSTANTS
    Frames = 3
SPECIFICATION FairSpec
INVARIANTS NeverEarly PosterOwn
PROPERTIES Answered
CHECK_DEADLOCK FALSE
