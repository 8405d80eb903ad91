-------------------------- MODULE MCRecordBatches --------------------------
\* Groups of one or two records, of two sizes and three timestamps of which one is not
\* a whole millisecond, and groups of four that must be split; and, for the cap on merged batches, one old record and
\* seventeen recent ones.
EXTENDS RecordBatches

R(ts, body) == [ts |-> ts, body |-> body]
MCRecords == {R(1, 4), R(2^15, 4), R(6, 60)}
MCLarge == {<<R(1, 4), R(6, 60), R(6, 60), R(6, 60)>>, <<R(6, 60), R(6, 60), R(6, 60), R(1, 4)>>}
MCGroups == UNION {[1..n -> MCRecords] : n \in 1..2} \cup MCLarge
MCOldAndNew == {<<R(0, 4)>>, [i \in 1..17 |-> R(2^29, 4)]}
=============================================================================
