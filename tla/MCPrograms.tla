----------------------------- MODULE MCPrograms -----------------------------
EXTENDS Programs

\* Around the limits of a word, of two words and of an accumulator, at WordBits = 4
\* and GuardBits = 4.
MCAccValues  == {-2048, -2047, -1500, -129, -128, -127, -65, -64, -17, -9, -8, -2, -1, 0, 1, 2, 3, 7,
                 8, 15, 16, 63, 64, 100, 119, 127, 128, 135, 1000, 1023, 1024, 2039, 2047}
MCEdgeValues == {-2048, -129, -7, 0, 64, 127, 1900, 2047}
MCFactors == {[x |-> 7, y |-> 7], [x |-> 8, y |-> 8], [x |-> 8, y |-> 7], [x |-> 15, y |-> 3],
              [x |-> 0, y |-> 9]}
MCLongValues == {-128, -127, -121, -16, -9, -1, 0, 1, 8, 15, 16, 119, 120, 127}
MCVectors == {<<8, 8, 8, 8>>, <<1, 2, 4, 7>>, <<15, 8, 7, 3>>}
MCWordValues == {0, 1, 7, 8, 15}
MCJunk == ArEntry(13, 11, 3)
=============================================================================
