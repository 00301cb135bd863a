------------------------------ MODULE MCValues ------------------------------
EXTENDS Values

\* One character for each rule of the conversions, and each width of UTF-8.
Alphabet == {97, 57, 32, 34, 37, 38, 39, 43, 46, 47, 60, 92, 95, 127, 233, 8364, 119558, 8232, 131070}
Wide    == {97, 233, 8364, 119558}
MCStrings == UNION {[1..n -> Alphabet] : n \in 0..2} \cup UNION {[1..n -> Wide] : n \in 3..3}
MCChars   == {0} \cup Alphabet
MCInts    == {-12, 0, 7, 10}
MCTimes   == {<<0, 0>>, <<2, 1>>, <<-2, 0>>, <<-2, 1>>}
MCBlobs   == UNION {[1..n -> {0, 39, 49, 92, 120, 255}] : n \in 0..3}
=============================================================================
