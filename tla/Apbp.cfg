SPECIFICATION DirectionSpec
CONSTANTS
    Channel = {c0, c1}
    Word = {zero, one}
    Zero = zero
    Bit = {b0, b1}
    Nothing = Nothing
    Empty = Empty
    MaxWords = 2
INVARIANT PollingTypeOK
INVARIANT FoundStaysTrue
INVARIANT SignalExact
PROPERTY ImplementsMailbox
