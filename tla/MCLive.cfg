CONSTANTS
    c1 = c1
    timer = timer
    Clients <- MCClients
    Timer <- timer
    MaxStarts = 2
    MaxVersion = 3
    Ticks = {1, 2, 3}
SPECIFICATION FairLive
PROPERTIES KillAceEnds GetStreamAnswered RecordedCatchesUp
