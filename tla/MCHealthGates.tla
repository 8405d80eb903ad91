--------------------------- MODULE MCHealthGates ---------------------------
\* Snapshots on both sides of every gate for a threshold of 2/5 (base 3).
EXTENDS HealthGates

S(sum, ok, bad, filled) == [sum |-> sum, ok |-> ok, faulty |-> bad, filled |-> filled]

MCSnapshots == {S(0, 0, 0, 0), S(1, 1, 0, 1), S(2, 2, 0, 2), S(20, 2, 0, 2),
                S(1, 1, 1, 2), S(0, 0, 2, 2), S(2, 2, 1, 2), S(1, 1, 2, 2), S(4, 4, 1, 2)}
MCSlowMultiplier == <<2, 1>>
MCHalf == <<1, 2>>
MCThreshold == <<2, 5>>
=============================================================================
