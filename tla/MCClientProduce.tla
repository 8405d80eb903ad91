-------------------------- MODULE MCClientProduce --------------------------
\* Calls of up to four positions of three records, of which two share a partition, and
\* a fourth that is too large; and one record of either kind for Produce.
EXTENDS ClientProduce

CONSTANTS r1, r2, r3, big, one, oneBig

MCPartOf == [r \in Records |-> IF r \in {r1, r2} THEN "p" ELSE "q"]
MCInputs == UNION {[1..n -> Records \ Singles] : n \in 1..4}
=============================================================================
