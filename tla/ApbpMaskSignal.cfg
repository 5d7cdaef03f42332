SPECIFICATION SemSpec
CONSTANTS
    Channel = {c0}
    Word = {zero}
    Zero = zero
    Bit = {b0, b1}
INVARIANT SignalFollowsMask
