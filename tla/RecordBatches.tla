--------------------------- MODULE RecordBatches ---------------------------
(***************************************************************************)
(* How the records of one partition become wire batches: estimated sizes   *)
(* and encoding (produce.go), splitByMaxBytes and mergeWith of records     *)
(* (routed_topic_partition.go) and of encoded batches                      *)
(* (encoded_topic_partition.go), and the byte accounting of AgentBuffer    *)
(* (agent_record_buffer.go).  RecordBuffer models the concurrency; here it *)
(* is the bytes.                                                           *)
(*                                                                         *)
(* A flush of the main buffer encodes its records once; a hedge leg adds   *)
(* that batch to the hedge buffer of a fallback agent, where batches of    *)
(* several flushes are decoded, joined and encoded again.                  *)
(*                                                                         *)
(* A record is its timestamp, in fractions of a millisecond, and the bytes *)
(* of its key, value and headers with their length fields.  Snappy and the *)
(* CRC of a batch are left out: a batch is its header and its records.     *)
(***************************************************************************)
EXTENDS Integers, Sequences, SequencesExt

CONSTANTS
  Groups,        \* the groups (non-empty sequences of records) callers may add
  HeaderBytes,   \* recordBatchHeaderBytes
  BatchMaxBytes,
  Ticks,         \* units of a timestamp in a millisecond
  MaxAdds        \* bound on the groups added

VARIABLES
  items,   \* nextProduceItems of the main buffer: a sequence of chunks
  bytes,   \* its nextProduceWireBytes
  sent,    \* the batches the main buffer flushed, encoded
  added,   \* history: the groups added, in order
  hItems,  \* nextProduceItems of the hedge buffer: encoded batches
  hBytes,  \* its nextProduceWireBytes
  hSent,   \* the batches the hedge buffer flushed, encoded
  hedged   \* history: which of sent were hedged, in order

mainVars == <<items, bytes, sent, added>>
hedgeVars == <<hItems, hBytes, hSent, hedged>>
vars == <<mainVars, hedgeVars>>

-----------------------------------------------------------------------------
\* Bytes of the zigzag varint of v, for |v| < 2^30.
VarintLen(v) ==
  LET m == IF v < 0 THEN -v - 1 ELSE v
  IN  CASE m < 2^6 -> 1
        [] m >= 2^6 /\ m < 2^13 -> 2
        [] m >= 2^13 /\ m < 2^20 -> 3
        [] m >= 2^20 /\ m < 2^27 -> 4
        [] OTHER -> 5

UnixMilli(r) == r.ts \div Ticks

\* recordEstimateBytes
recordEstimateBytes(r, offsetDelta, tsDelta) ==
  LET length == 1 + VarintLen(tsDelta) + VarintLen(offsetDelta) + r.body
  IN  VarintLen(length) + length

\* multiRecordBatchEstimateBytes
batchEstimateBytes(rs) ==
  IF rs = << >> THEN 0
  ELSE HeaderBytes + FoldLeft(+, 0, [i \in DOMAIN rs |->
                       recordEstimateBytes(rs[i], i - 1, UnixMilli(rs[i]) - UnixMilli(rs[1]))])

\* The per-record gate lets only records through that fit by themselves.
ASSUME BatchAssumption ==
  /\ HeaderBytes \in Nat /\ BatchMaxBytes \in Nat /\ MaxAdds \in Nat /\ Ticks \in Nat \ {0}
  /\ \A g \in Groups : g # << >> /\ \A i \in DOMAIN g : batchEstimateBytes(<<g[i]>>) <= BatchMaxBytes

\* Mutant: a record that opens a chunk is counted without the batch header.
startChunk_noHeader(r) == [cur |-> <<r>>, size |-> recordEstimateBytes(r, 0, 0)]

startChunk(r) == [cur |-> <<r>>, size |-> HeaderBytes + recordEstimateBytes(r, 0, 0)]

\* splitByMaxBytes takes one more record: into the current chunk, or a new one.
splitStep(acc, r) ==
  LET cost == recordEstimateBytes(r, Len(acc.cur), UnixMilli(r) - UnixMilli(acc.cur[1]))
  IN  CASE acc.cur = << >> -> [chunks |-> acc.chunks] @@ startChunk(r)
        [] acc.cur # << >> /\ acc.size + cost > BatchMaxBytes ->
             [chunks |-> Append(acc.chunks, acc.cur)] @@ startChunk(r)
        [] OTHER -> [acc EXCEPT !.cur = Append(@, r), !.size = @ + cost]

\* Mutant: the last chunk is lost.
splitByMaxBytes_noTail(rs) ==
  IF batchEstimateBytes(rs) <= BatchMaxBytes THEN <<rs>>
  ELSE FoldLeft(splitStep, [chunks |-> << >>, cur |-> << >>, size |-> 0], rs).chunks

splitByMaxBytes(rs) ==
  IF batchEstimateBytes(rs) <= BatchMaxBytes THEN <<rs>>
  ELSE LET end == FoldLeft(splitStep, [chunks |-> << >>, cur |-> << >>, size |-> 0], rs)
       IN  Append(end.chunks, end.cur)

\* mergeWith of record items: the records of the items in arrival order.
mergeWith(chunks) == FlattenSeq(chunks)

-----------------------------------------------------------------------------
\* recordLength: the Length field of an encoded record.
recordLength(tsDelta, offsetDelta, body) == 1 + VarintLen(tsDelta) + VarintLen(offsetDelta) + body

encodeRecord(r, offsetDelta, firstTS) ==
  LET tsDelta == UnixMilli(r) - firstTS
  IN  [tsDelta |-> tsDelta, offsetDelta |-> offsetDelta, body |-> r.body,
       length |-> recordLength(tsDelta, offsetDelta, r.body)]

\* encodeBatch, of a non-empty sequence of records.
encodeBatch(rs) ==
  LET ms == [i \in DOMAIN rs |-> UnixMilli(rs[i])]
  IN  [firstTS |-> ms[1],
       maxTS |-> FoldLeft(LAMBDA m, t : IF t > m THEN t ELSE m, ms[1], ms),
       numRecords |-> Len(rs),
       records |-> [i \in DOMAIN rs |-> encodeRecord(rs[i], i - 1, ms[1])]]

\* decodeBatch
decodeBatch(b) ==
  [i \in DOMAIN b.records |->
     [ts |-> (b.firstTS + b.records[i].tsDelta) * Ticks, body |-> b.records[i].body]]

\* uncompressedWireBytes of an encoded batch.
wireBytes(b) ==
  HeaderBytes + FoldLeft(+, 0, [i \in DOMAIN b.records |->
                  VarintLen(b.records[i].length) + b.records[i].length])

\* Mutant: the encoded records are joined as they are, under the first one's header.
mergeEncoded_joined(batches) ==
  LET all == FlattenSeq([i \in DOMAIN batches |-> batches[i].records])
  IN  [batches[1] EXCEPT !.records = all, !.numRecords = Len(all)]

\* mergeWith of encoded items: a single one is passed on as it is.
mergeEncoded(batches) ==
  IF Len(batches) = 1 THEN batches[1]
  ELSE encodeBatch(FlattenSeq([i \in DOMAIN batches |-> decodeBatch(batches[i])]))

-----------------------------------------------------------------------------
Init ==
  /\ items = << >> /\ bytes = 0 /\ sent = << >> /\ added = << >>
  /\ hItems = << >> /\ hBytes = 0 /\ hSent = << >> /\ hedged = << >>

\* The flush of the main buffer b; flushBatch encodes what it sends.
flushed(b) ==
  [items |-> << >>, bytes |-> 0, sent |-> Append(b.sent, encodeBatch(mergeWith(b.items)))]

\* addToNextProduceLocked: flush first if the chunk would not fit.
addToNextProduce(b, chunk) ==
  LET a == IF b.items # << >> /\ b.bytes + batchEstimateBytes(chunk) > BatchMaxBytes
           THEN flushed(b) ELSE b
  IN  [a EXCEPT !.items = Append(@, chunk), !.bytes = @ + batchEstimateBytes(chunk)]

Buffer == [items |-> items, bytes |-> bytes, sent |-> sent]
Becomes(b) == items' = b.items /\ bytes' = b.bytes /\ sent' = b.sent

\* MultiAdd of a group: all its chunks, under one lock.
MultiAdd(g) ==
  /\ Len(added) < MaxAdds
  /\ Becomes(FoldLeft(addToNextProduce, Buffer, splitByMaxBytes(g)))
  /\ added' = Append(added, g)
  /\ UNCHANGED hedgeVars

\* The linger timer, or Close.
startFlush == items # << >> /\ Becomes(flushed(Buffer)) /\ UNCHANGED <<added, hedgeVars>>

\* A hedge leg of the i-th flush adds its batch, whole, to the hedge buffer.
\* Legs of different flushes come in any order.
addHedge(i) ==
  LET b == sent[i]
      full == hItems # << >> /\ hBytes + wireBytes(b) > BatchMaxBytes
  IN  /\ \A j \in DOMAIN hedged : hedged[j] # i
      /\ hItems' = IF full THEN <<b>> ELSE Append(hItems, b)
      /\ hBytes' = IF full THEN wireBytes(b) ELSE hBytes + wireBytes(b)
      /\ hSent' = IF full THEN Append(hSent, mergeEncoded(hItems)) ELSE hSent
      /\ hedged' = Append(hedged, i)
      /\ UNCHANGED mainVars

flushHedge ==
  /\ hItems # << >>
  /\ hItems' = << >> /\ hBytes' = 0 /\ hSent' = Append(hSent, mergeEncoded(hItems))
  /\ UNCHANGED <<hedged, mainVars>>

Next ==
  \/ \E g \in Groups : MultiAdd(g)
  \/ startFlush
  \/ \E i \in DOMAIN sent : addHedge(i)
  \/ flushHedge

Spec == Init /\ [][Next]_vars

-----------------------------------------------------------------------------
\* Kafka keeps milliseconds of a timestamp.
Stored(r) == [r EXCEPT !.ts = UnixMilli(r) * Ticks]
StoredSeq(rs) == [i \in DOMAIN rs |-> Stored(rs[i])]
Decoded(batches) == FlattenSeq([i \in DOMAIN batches |-> decodeBatch(batches[i])])

\* No record is lost, duplicated or reordered by splitting, overflow, merging and
\* encoding: the batches flushed, then the items pending, are the records in
\* arrival order.
RecordsInOrder ==
  Decoded(sent) \o StoredSeq(FlattenSeq(items)) = StoredSeq(FlattenSeq(added))

\* A hedge is a copy: what the hedge buffer flushed and still holds are the records,
\* with their timestamps, of the batches hedged, in that order, however often they
\* were decoded and merged; and each batch sent covers the time of its records.
HedgeIsACopy ==
  /\ Decoded(hSent \o hItems) = Decoded([j \in DOMAIN hedged |-> sent[hedged[j]]])
  /\ \A b \in {hSent[i] : i \in DOMAIN hSent} :
       /\ b.numRecords = Len(b.records)
       /\ \A i \in DOMAIN b.records : b.firstTS + b.records[i].tsDelta <= b.maxTS

\* Every chunk fits by itself, and the items pending fit together by the estimate
\* the buffer keeps, which is the sum of theirs.  A hedge buffer gets batches that
\* are as large as they are, but never adds one to others that it would overflow.
PendingFits ==
  /\ \A i \in DOMAIN items : items[i] # << >> /\ batchEstimateBytes(items[i]) <= BatchMaxBytes
  /\ FoldLeft(+, 0, [i \in DOMAIN items |-> batchEstimateBytes(items[i])]) <= BatchMaxBytes
  /\ Len(hItems) > 1 =>
       FoldLeft(+, 0, [i \in DOMAIN hItems |-> wireBytes(hItems[i])]) <= BatchMaxBytes

\* Config of BatchMaxBytes: "the client guarantees no per-partition batch exceeds
\* this value".  A merged batch counts time from its first record and offsets
\* across all its items, which makes varints longer than they were estimated.
BatchWithinCap == \A i \in DOMAIN sent : wireBytes(sent[i]) <= BatchMaxBytes
=============================================================================
