SPECIFICATION FairChannelSpec
CONSTANTS
    Conns = {c1, c2}
    MaxBreaks = 1
    MaxStale = 1
    Closes = TRUE
    Nil = Nil
PROPERTY CommandsReturn
CHECK_DEADLOCK FALSE
