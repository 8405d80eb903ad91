------------------------ MODULE BufferContractProofs ------------------------
(***************************************************************************)
(* RecordBuffer implements DeliveryContract: for every number of callers,  *)
(* agents, items and chunks, every byte cap and every interleaving, a      *)
(* promise is settled once, an acknowledgement is true, and an item counts *)
(* as buffered until the producer is finished with it.                     *)
(*                                                                         *)
(* Every chunk that a call handed over and that has not been reported is   *)
(* in exactly one place: still ahead of its call, in the batch of an       *)
(* agent, or in a flush at or after the entry it reports next.  What an    *)
(* item's promise, its size in the counters and its fan-in stand at        *)
(* follows from the chunks that are outstanding in this sense.             *)
(***************************************************************************)
EXTENDS RecordBufferProofs

\* The chunks of an item that are outstanding.
open(i) == {k \in DOMAIN Chunks[i] : outstanding(<<i, k>>)}

\* An item is counted once from wrap until its last chunk is reported, and its
\* wrapped done has not been called before.
Item(i) ==
  /\ pc[CallOf[i]] = "idle" =>
       /\ fires[i] = 0 /\ ~released[i] /\ watch[i] = "off"
       /\ open(i) = {}
       /\ fanin[i].left = Len(Chunks[i]) /\ fanin[i].res.kind = "none"
  /\ open(i) = {} => contrib[i] = 0
  /\ open(i) # {} => contrib[i] = 1 /\ ~released[i] /\ (~gated(i) => fires[i] = 0)
  /\ watch[i] # "off" => gated(i)

\* S has m elements.
counts(m, S) ==
  \E g \in [1..m -> S] : /\ \A x, y \in 1..m : g[x] = g[y] => x = y
                         /\ \A k \in S : \E x \in 1..m : g[x] = k

\* The fan-in of an item counts its outstanding chunks, and holds a result that
\* does not fail the item only while all the reported ones were acknowledged.
Fan(i) ==
  open(i) # {} =>
    /\ fanin[i].left \in Nat /\ counts(fanin[i].left, open(i))
    /\ fanin[i].res.kind = "none" => open(i) = DOMAIN Chunks[i]
    /\ fanin[i].res.kind # "none" /\ ~recordErr(fanin[i].res, PartOf[i]) =>
         \A k \in DOMAIN Chunks[i] : k \notin open(i) => <<i, k>> \in landed

ItemInv == \A i \in Items : Item(i) /\ Fan(i)

\* A flush that has not returned has reported to nobody, and what it returned
\* with says of every chunk whether it was acknowledged.
FlightInv ==
  \A f \in flights :
    /\ f.res.kind = "none" => f.next = 1
    /\ f.res.kind = "resp" => \A j \in DOMAIN f.entries :
         PartOf[f.entries[j][1]] \notin f.res.bad => f.entries[j] \in landed

CInv == BinInv /\ PlaceInv /\ ItemInv /\ FlightInv

-----------------------------------------------------------------------------
\* The numbers up to m are m.
LEMMA CountAll ==
  ASSUME NEW m \in Nat
  PROVE  counts(m, 1..m)
<1> DEFINE g == [x \in 1..m |-> x]
<1>1. g \in [1..m -> 1..m] /\ \A x \in 1..m : g[x] = x
  BY Zenon
<1> HIDE DEF g
<1> QED
  BY <1>1, Zenon DEF counts

\* One element less.
LEMMA CountLess ==
  ASSUME NEW m \in Nat, NEW S, counts(m, S), NEW k \in S
  PROVE  m > 0 /\ counts(m - 1, S \ {k})
<1>1. PICK g \in [1..m -> S] : /\ \A x, y \in 1..m : g[x] = g[y] => x = y
                               /\ \A j \in S : \E x \in 1..m : g[x] = j
  BY Zenon DEF counts
<1>2. PICK z \in 1..m : g[z] = k
  BY <1>1, Zenon
<1>3. m > 0 /\ m \in 1..m /\ \A x \in 1..(m - 1) : x \in 1..m /\ x # m
  BY <1>2
<1>4. \A x \in 1..m : x = m \/ x \in 1..(m - 1)
  OBVIOUS
<1> DEFINE h == [x \in 1..(m - 1) |-> IF x = z THEN g[m] ELSE g[x]]
<1>5. \A x \in 1..(m - 1) : h[x] = IF x = z THEN g[m] ELSE g[x]
  BY Zenon
<1>6. h \in [1..(m - 1) -> S \ {k}]
  <2>1. \A x \in 1..(m - 1) : (IF x = z THEN g[m] ELSE g[x]) \in S \ {k}
    BY <1>1, <1>2, <1>3, Zenon
  <2> QED
    BY <2>1, Zenon
<1> HIDE DEF h
<1>7. ASSUME NEW x \in 1..(m - 1), NEW y \in 1..(m - 1), h[x] = h[y] PROVE x = y
  BY <1>1, <1>3, <1>5, <1>7, ZenonT(40)
<1>8. ASSUME NEW j \in S \ {k} PROVE \E x \in 1..(m - 1) : h[x] = j
  <2>1. PICK x \in 1..m : g[x] = j
    BY <1>1, <1>8, Zenon
  <2>2. x # z
    BY <1>2, <1>8, <2>1, Zenon
  <2>3. CASE x = m
    BY <1>2, <1>4, <1>5, <2>1, <2>2, <2>3, Zenon
  <2>4. CASE x \in 1..(m - 1)
    BY <1>5, <2>1, <2>2, <2>4, Zenon
  <2> QED
    BY <1>4, <2>3, <2>4, Zenon
<1> QED
  BY <1>3, <1>6, <1>7, <1>8, Zenon DEF counts

\* A set that counts one holds nothing else.
LEMMA CountOne ==
  ASSUME NEW S, counts(1, S), NEW k \in S
  PROVE  S = {k}
<1>1. PICK g \in [1..1 -> S] : \A j \in S : \E x \in 1..1 : g[x] = j
  BY Zenon DEF counts
<1>2. \A j \in S : j = g[1]
  BY <1>1
<1> QED
  BY <1>2, Zenon

\* A set that counts more than one has another element.
LEMMA CountSome ==
  ASSUME NEW m \in Nat, NEW S, counts(m, S), m > 1, NEW k \in S
  PROVE  S \ {k} # {}
<1>1. PICK g \in [1..m -> S] : \A x, y \in 1..m : g[x] = g[y] => x = y
  BY Zenon DEF counts
<1>2. g[1] \in S /\ g[2] \in S /\ g[1] # g[2]
  BY <1>1
<1> QED
  BY <1>2

-----------------------------------------------------------------------------
(***************************************************************************)
(* Bins, items and flushes, one action at a time.                          *)
(***************************************************************************)
\* wrap takes the chunks of its call on, which were nowhere.
LEMMA WrapPlace ==
  ASSUME IInv, PlaceInv, ItemInv, NEW c \in Calls, wrap(c)
  PROVE  /\ PlaceInv'
         /\ \A e \in Entry : outstanding(e)' <=> outstanding(e) \/ CallOf[e[1]] = c
<1>1. \A e \in Entry : ahead(e)' <=> ahead(e) \/ CallOf[e[1]] = c
  BY AheadWrap, Zenon
<1>2. UNCHANGED <<pending, flights>>
  BY Zenon DEF wrap, agentVars
<1>3. ASSUME NEW e \in Entry, CallOf[e[1]] = c PROVE ~outstanding(e)
  <2>1. e[1] \in Items /\ e[2] \in DOMAIN Chunks[e[1]] /\ e = <<e[1], e[2]>>
    BY DEF Entry
  <2>2. open(e[1]) = {}
    BY <1>3, <2>1, Zenon DEF ItemInv, Item, wrap
  <2> QED
    BY <2>1, <2>2, Zenon DEF open
<1>4. \A e \in Entry : ahead(e)' => ahead(e) \/ (~batched(e) /\ ~flying(e))
  BY <1>1, <1>3, Zenon DEF outstanding
<1> QED
  BY <1>1, <1>2, <1>4, PlaceCalls, Zenon DEF outstanding

\* The chunks of an item that stay outstanding.
LEMMA OpenSame ==
  ASSUME NEW i \in Items, \A e \in Entry : e[1] = i => (outstanding(e)' <=> outstanding(e))
  PROVE  open(i)' = open(i)
<1>1. \A k \in DOMAIN Chunks[i] : <<i, k>> \in Entry /\ <<i, k>>[1] = i
  BY EntryIsChunk, Zenon
<1>2. \A k \in DOMAIN Chunks[i] : outstanding(<<i, k>>)' <=> outstanding(<<i, k>>)
  BY <1>1, Zenon
<1> QED
  BY <1>2, Zenon DEF open

\* All of them, or none.
LEMMA OpenAll ==
  ASSUME NEW i \in Items, \A e \in Entry : e[1] = i => outstanding(e)
  PROVE  open(i) = DOMAIN Chunks[i] /\ open(i) # {}
<1>1. \A k \in DOMAIN Chunks[i] : <<i, k>> \in Entry /\ <<i, k>>[1] = i
  BY EntryIsChunk, Zenon
<1>2. open(i) = DOMAIN Chunks[i]
  BY <1>1, Zenon DEF open
<1>3. 1 \in DOMAIN Chunks[i]
  BY BinsAndChunks
<1> QED
  BY <1>2, <1>3, Zenon

\* All of them after the step.
LEMMA OpenAllNext ==
  ASSUME NEW i \in Items, \A e \in Entry : e[1] = i => outstanding(e)'
  PROVE  open(i)' = DOMAIN Chunks[i] /\ open(i)' # {}
<1>1. \A k \in DOMAIN Chunks[i] : <<i, k>> \in Entry /\ <<i, k>>[1] = i
  BY EntryIsChunk, Zenon
<1>2. open(i)' = DOMAIN Chunks[i]
  BY <1>1, Zenon DEF open
<1>3. 1 \in DOMAIN Chunks[i]
  BY BinsAndChunks
<1> QED
  BY <1>2, <1>3, Zenon

\* None of them after the step.
LEMMA OpenNone ==
  ASSUME NEW i \in Items, \A e \in Entry : e[1] = i => ~outstanding(e)'
  PROVE  open(i)' = {}
<1>1. \A k \in DOMAIN Chunks[i] : <<i, k>> \in Entry /\ <<i, k>>[1] = i
  BY EntryIsChunk, Zenon
<1> QED
  BY <1>1, Zenon DEF open

\* An item nothing happens to, beyond its watch or a chunk that lands.
LEMMA ItemQuiet ==
  ASSUME NEW i \in Items, Item(i), Fan(i), open(i)' = open(i),
         pc'[CallOf[i]] = "idle" => pc[CallOf[i]] = "idle", contrib'[i] = contrib[i],
         released'[i] = released[i],
         fires'[i] = fires[i], fanin'[i] = fanin[i], watch'[i] # "off" => watch[i] # "off",
         landed \subseteq landed'
  PROVE  Item(i)' /\ Fan(i)'
<1>1. gated(i)' <=> gated(i)
  BY Zenon DEF gated
<1>2. Item(i)'
  BY <1>1, Zenon DEF Item
<1>3. Fan(i)'
  <2> SUFFICES ASSUME open(i) # {} PROVE Fan(i)'
    BY Zenon DEF Fan
  <2>1. /\ fanin[i].left \in Nat /\ counts(fanin[i].left, open(i))
        /\ fanin[i].res.kind = "none" => open(i) = DOMAIN Chunks[i]
        /\ fanin[i].res.kind # "none" /\ ~recordErr(fanin[i].res, PartOf[i]) =>
             \A k \in DOMAIN Chunks[i] : k \notin open(i) => <<i, k>> \in landed
    BY Zenon DEF Fan
  <2>2. recordErr(fanin[i].res, PartOf[i])' <=> recordErr(fanin[i].res, PartOf[i])
    BY Zenon DEF recordErr
  <2>3. counts(fanin[i].left, open(i))' <=> counts(fanin[i].left, open(i))
    BY SMT DEF counts
  <2> QED
    BY <2>1, <2>2, <2>3, Zenon DEF Fan
<1> QED
  BY <1>2, <1>3, Zenon

\* The wrapped done of an item that is not finished: it is called for the first
\* time, and decides the item's own done unless the ctx watch did.
LEMMA DoneFacts ==
  ASSUME IInv, NEW S, NEW res, wrappedDone(S, res), NEW i \in Items
  PROVE  /\ i \notin S =>
              /\ contrib'[i] = contrib[i] /\ released'[i] = released[i] /\ watch'[i] = watch[i]
              /\ outcome'[i] = outcome[i] /\ fires'[i] = fires[i]
         /\ i \in S /\ Item(i) /\ open(i) # {} =>
              /\ contrib[i] = 1 /\ contrib'[i] = 0 /\ (watch'[i] # "off" => watch[i] # "off")
              /\ fires[i] = 0 => fires'[i] = 1 /\ outcome'[i] = res[i]
              /\ fires[i] # 0 => fires'[i] = fires[i] /\ outcome'[i] = outcome[i]
<1>1. /\ contrib'[i] = IF i \in S /\ ~(gated(i) /\ released[i]) THEN contrib[i] - 1 ELSE contrib[i]
      /\ released'[i] = (released[i] \/ i \in S)
      /\ watch'[i] = IF i \in S /\ watch[i] = "armed" THEN "off" ELSE watch[i]
      /\ outcome'[i] = IF i \in S /\ ~(gated(i) /\ fires[i] > 0) THEN res[i] ELSE outcome[i]
      /\ fires'[i] = IF i \in S /\ ~(gated(i) /\ fires[i] > 0) THEN fires[i] + 1 ELSE fires[i]
  BY Zenon DEF wrappedDone
<1>2. released[i] \in BOOLEAN /\ fires[i] \in Nat
  BY Zenon DEF IInv, TypeOK
<1>3. CASE i \notin S
  BY <1>1, <1>2, <1>3, Zenon
<1>4. CASE i \in S /\ Item(i) /\ open(i) # {}
  <2>1. contrib[i] = 1 /\ ~released[i] /\ (~gated(i) => fires[i] = 0)
    BY <1>4, Zenon DEF Item
  <2>2. contrib'[i] = contrib[i] - 1
    BY <1>1, <1>4, <2>1, Zenon
  <2>3. contrib'[i] = 0
    BY <2>1, <2>2
  <2>4. watch'[i] # "off" => watch[i] # "off"
    BY <1>1, Zenon
  <2>5. ~(0 > 0) /\ 0 + 1 = 1 /\ (fires[i] # 0 => fires[i] > 0)
    BY <1>2
  <2>6. fires[i] = 0 => fires'[i] = 1 /\ outcome'[i] = res[i]
    BY <1>1, <1>4, <2>5, Zenon
  <2>7. fires[i] # 0 => fires'[i] = fires[i] /\ outcome'[i] = outcome[i]
    BY <1>1, <2>1, <2>5, Zenon
  <2> QED
    BY <1>4, <2>1, <2>3, <2>4, <2>6, <2>7, Zenon
<1> QED
  BY <1>3, <1>4, Zenon

\* An item whose last chunk is gone has been given back and is done with.
LEMMA DoneItem ==
  ASSUME NEW i \in Items, Item(i), open(i)' = {}, pc'[CallOf[i]] # "idle", contrib'[i] = 0,
         watch'[i] # "off" => watch[i] # "off"
  PROVE  Item(i)' /\ Fan(i)'
<1>1. gated(i)' <=> gated(i)
  BY Zenon DEF gated
<1>2. Item(i)'
  BY <1>1, Zenon DEF Item
<1> QED
  BY <1>2, Zenon DEF Fan

\* Types that the proofs about items use.
LEMMA ItemTypes ==
  ASSUME IInv
  PROVE  /\ \A i \in Items : CallOf[i] \in Calls
         /\ \A e \in Entry : e[1] \in Items
         /\ DOMAIN watch = Items /\ DOMAIN fires = Items /\ DOMAIN outcome = Items
         /\ DOMAIN fanin = Items
<1>1. \A i \in Items : CallOf[i] \in Calls
  BY BufferAssumption, Zenon
<1>2. \A e \in Entry : e[1] \in Items
  BY EntryIsChunk, Zenon
<1> QED
  BY <1>1, <1>2, Zenon DEF IInv, TypeOK

\* Steps that leave what is outstanding and the done of every item alone.
LEMMA QuietItems ==
  ASSUME IInv, ItemInv, \A e \in Entry : outstanding(e)' <=> outstanding(e),
         \A i \in Items : pc'[CallOf[i]] = "idle" => pc[CallOf[i]] = "idle",
         \A i \in Items : watch'[i] # "off" => watch[i] # "off",
         UNCHANGED <<contrib, released, fires, fanin>>, landed \subseteq landed'
  PROVE  ItemInv'
<1> SUFFICES ASSUME NEW i \in Items PROVE Item(i)' /\ Fan(i)'
  BY Zenon DEF ItemInv
<1>1. open(i)' = open(i)
  BY OpenSame, Zenon
<1>2. Item(i) /\ Fan(i)
  BY Zenon DEF ItemInv
<1>3. UNCHANGED contrib /\ UNCHANGED released /\ UNCHANGED fires /\ UNCHANGED fanin
  BY Zenon
<1> QED
  BY <1>1, <1>2, <1>3, ItemQuiet, Zenon

\* wrap: the items of the call are counted, and all their chunks outstanding.
LEMMA WrapItems ==
  ASSUME IInv, PlaceInv, ItemInv, NEW c \in Calls, wrap(c)
  PROVE  ItemInv'
<1> SUFFICES ASSUME NEW i \in Items PROVE Item(i)' /\ Fan(i)'
  BY Zenon DEF ItemInv
<1>1. /\ pc[c] = "idle" /\ pc' = [pc EXCEPT ![c] = "wrapped"]
      /\ contrib'[i] = IF i \in ItemsOf(c) THEN contrib[i] + 1 ELSE contrib[i]
      /\ watch'[i] = IF i \notin ItemsOf(c) \/ ~gated(i) THEN watch[i]
                     ELSE IF ctx[c] = "live" THEN "armed" ELSE "started"
      /\ UNCHANGED <<released, fanin, fires, landed>>
  BY Zenon DEF wrap
<1>2. \A e \in Entry : outstanding(e)' <=> outstanding(e) \/ CallOf[e[1]] = c
  BY WrapPlace, Zenon
<1>3. Item(i) /\ Fan(i)
  BY Zenon DEF ItemInv
<1>4. CASE CallOf[i] = c
  <2>1. open(i)' = DOMAIN Chunks[i] /\ open(i)' # {}
    BY <1>2, <1>4, OpenAllNext, Zenon
  <2>2. /\ fires[i] = 0 /\ ~released[i] /\ open(i) = {} /\ contrib[i] = 0 /\ watch[i] = "off"
        /\ fanin[i].left = Len(Chunks[i]) /\ fanin[i].res.kind = "none"
    BY <1>1, <1>3, <1>4, Zenon DEF Item
  <2>3. contrib'[i] = 0 + 1 /\ pc'[c] = "wrapped"
    BY <1>1, <1>4, <2>2, CallTypes, Zenon DEF ItemsOf
  <2>4. contrib'[i] = 1
    BY <2>3
  <2>5. watch'[i] # "off" => gated(i)'
    BY <1>1, <2>2, Zenon DEF gated
  <2>6. Item(i)'
    BY <1>1, <1>4, <2>1, <2>2, <2>3, <2>4, <2>5, Zenon DEF Item
  <2>7. Chunks[i] \in Seq(Nat \ {0})
    BY BinsAndChunks, Zenon
  <2>8. Len(Chunks[i]) \in Nat /\ DOMAIN Chunks[i] = 1..Len(Chunks[i])
    BY <2>7
  <2>9. counts(Len(Chunks[i]), DOMAIN Chunks[i])
    BY <2>8, CountAll, Zenon
  <2>10. fanin'[i].left = Len(Chunks[i]) /\ fanin'[i].res.kind = "none"
    BY <1>1, <2>2, Zenon
  <2>11. counts(fanin[i].left, open(i))'
    BY <2>1, <2>9, <2>10 DEF counts
  <2>12. Fan(i)'
    BY <2>1, <2>8, <2>10, <2>11, Zenon DEF Fan
  <2> QED
    BY <2>6, <2>12, Zenon
<1>5. CASE CallOf[i] # c
  <2>1. open(i)' = open(i)
    BY <1>2, <1>5, OpenSame, Zenon
  <2>2. i \notin ItemsOf(c) /\ pc'[CallOf[i]] = pc[CallOf[i]]
    BY <1>1, <1>5, CallTypes, ItemTypes, Zenon DEF ItemsOf
  <2>3. UNCHANGED released /\ UNCHANGED fanin /\ UNCHANGED fires /\ UNCHANGED landed
    BY <1>1, Zenon
  <2> QED
    BY <1>1, <1>3, <2>1, <2>2, <2>3, ItemQuiet, Zenon
<1> QED
  BY <1>4, <1>5, Zenon

\* The items of S are finished at once.
LEMMA FinishItems ==
  ASSUME IInv, ItemInv, NEW S \in SUBSET Items, NEW res, wrappedDone(S, res),
         \A i \in S : open(i) # {} /\ open(i)' = {} /\ pc'[CallOf[i]] # "idle",
         \A i \in Items \ S : open(i)' = open(i) /\ fanin'[i] = fanin[i]
                              /\ (pc'[CallOf[i]] = "idle" => pc[CallOf[i]] = "idle"),
         landed \subseteq landed'
  PROVE  ItemInv'
<1> SUFFICES ASSUME NEW i \in Items PROVE Item(i)' /\ Fan(i)'
  BY Zenon DEF ItemInv
<1>1. Item(i) /\ Fan(i)
  BY Zenon DEF ItemInv
<1>2. CASE i \in S
  BY <1>1, <1>2, DoneFacts, DoneItem, ZenonT(40)
<1>3. CASE i \notin S
  <2>1. /\ contrib'[i] = contrib[i] /\ released'[i] = released[i] /\ watch'[i] = watch[i]
        /\ fires'[i] = fires[i]
    BY <1>3, DoneFacts, Zenon
  <2> QED
    BY <1>1, <1>3, <2>1, ItemQuiet, Zenon
<1> QED
  BY <1>2, <1>3, Zenon

\* What rejectCanceled and the closed paths finish: items none of whose chunks
\* had left their call.
LEMMA RejectOpen ==
  ASSUME IInv, BinInv, PlaceInv, NEW c \in Calls, rejectCanceled(c)
  PROVE  /\ \A i \in ItemsOf(c) : open(i) # {} /\ open(i)' = {} /\ pc'[CallOf[i]] # "idle"
                                  /\ pc[CallOf[i]] # "idle"
         /\ \A i \in Items \ ItemsOf(c) : open(i)' = open(i) /\ pc'[CallOf[i]] = pc[CallOf[i]]
<1>1. /\ \A e \in Entry : CallOf[e[1]] = c => outstanding(e)
      /\ \A e \in Entry : outstanding(e)' <=> outstanding(e) /\ CallOf[e[1]] # c
  BY RejectPlace, Zenon
<1>2. pc[c] = "wrapped" /\ pc'[c] = "binning" /\ \A d \in Calls : d # c => pc'[d] = pc[d]
  BY CallTypes, Zenon DEF rejectCanceled
<1>3. ASSUME NEW i \in ItemsOf(c)
      PROVE  open(i) # {} /\ open(i)' = {} /\ pc'[CallOf[i]] # "idle" /\ pc[CallOf[i]] # "idle"
  <2>1. i \in Items /\ CallOf[i] = c
    BY <1>3, Zenon DEF ItemsOf
  <2>2. open(i) # {}
    BY <1>1, <2>1, OpenAll, Zenon
  <2>3. open(i)' = {}
    BY <1>1, <2>1, OpenNone, Zenon
  <2> QED
    BY <1>2, <2>1, <2>2, <2>3, Zenon
<1>4. ASSUME NEW i \in Items \ ItemsOf(c)
      PROVE  open(i)' = open(i) /\ pc'[CallOf[i]] = pc[CallOf[i]]
  <2>1. i \in Items /\ CallOf[i] # c
    BY <1>4, Zenon DEF ItemsOf
  <2> QED
    BY <1>1, <1>2, <2>1, ItemTypes, OpenSame, Zenon
<1> QED
  BY <1>3, <1>4, Zenon

\* The same for the items of a bin that a closed buffer refuses.
LEMMA ClosedOpen ==
  ASSUME IInv, BinInv, PlaceInv, NEW c \in Calls, NEW n \in Agents,
         agentBufferForClosed(c, n) \/ (multiAddClosed(c) /\ n = buf[c])
  PROVE  /\ InBin(c, n) \in SUBSET Items
         /\ \A i \in InBin(c, n) : open(i) # {} /\ open(i)' = {} /\ pc'[CallOf[i]] # "idle"
                                   /\ pc[CallOf[i]] # "idle"
         /\ \A i \in Items \ InBin(c, n) : open(i)' = open(i)
         /\ pc' = pc
<1>1. /\ \A e \in Entry : e[1] \in InBin(c, n) => outstanding(e)
      /\ \A e \in Entry : outstanding(e)' <=> outstanding(e) /\ e[1] \notin InBin(c, n)
  BY ClosedPlace, Zenon
<1>2. pc' = pc /\ n \in left[c]
  BY Zenon DEF agentBufferForClosed, multiAddClosed, BinInv
<1>3. pc[c] = "binning"
  BY <1>2, Zenon DEF BinInv
<1>4. InBin(c, n) \in SUBSET Items
  BY BinsAndChunks DEF InBin
<1>5. ASSUME NEW i \in InBin(c, n)
      PROVE  open(i) # {} /\ open(i)' = {} /\ pc'[CallOf[i]] # "idle" /\ pc[CallOf[i]] # "idle"
  <2>1. i \in Items /\ CallOf[i] = c
    BY <1>4, <1>5, InOwnBin, Zenon
  <2>2. open(i) # {}
    BY <1>1, <1>5, <2>1, OpenAll, Zenon
  <2>3. open(i)' = {}
    BY <1>1, <1>5, <2>1, OpenNone, Zenon
  <2> QED
    BY <1>2, <1>3, <2>1, <2>2, <2>3, Zenon
<1>6. ASSUME NEW i \in Items \ InBin(c, n) PROVE open(i)' = open(i)
  BY <1>1, <1>6, OpenSame, Zenon
<1> QED
  BY <1>2, <1>4, <1>5, <1>6, Zenon

\* Both call wrappedDone with errors.
LEMMA RejectItems ==
  ASSUME IInv, BinInv, PlaceInv, ItemInv, NEW c \in Calls, rejectCanceled(c)
  PROVE  ItemInv'
<1>1. /\ wrappedDone(ItemsOf(c), [i \in ItemsOf(c) |-> ErrResult("ctx")])
      /\ UNCHANGED fanin /\ UNCHANGED landed
  BY Zenon DEF rejectCanceled, failItems
<1>2. ItemsOf(c) \in SUBSET Items
  BY Zenon DEF ItemsOf
<1> QED
  BY <1>1, <1>2, RejectOpen, FinishItems, Zenon

\* The closed paths of agentBufferFor and MultiAdd keep the items' state.
LEMMA ClosedItems ==
  ASSUME IInv, BinInv, PlaceInv, ItemInv, NEW c \in Calls, NEW n \in Agents,
         agentBufferForClosed(c, n) \/ (multiAddClosed(c) /\ n = buf[c])
  PROVE  ItemInv'
<1>1. /\ wrappedDone(InBin(c, n), [i \in InBin(c, n) |-> ErrResult("closed")])
      /\ UNCHANGED landed
  BY Zenon DEF agentBufferForClosed, multiAddClosed, failItems, failChunks
<1>2. \A i \in Items \ InBin(c, n) : fanin'[i] = fanin[i]
  BY Zenon DEF agentBufferForClosed, multiAddClosed, failChunks
<1>3. /\ InBin(c, n) \in SUBSET Items
      /\ \A i \in InBin(c, n) : open(i) # {} /\ open(i)' = {} /\ pc'[CallOf[i]] # "idle"
      /\ \A i \in Items \ InBin(c, n) : open(i)' = open(i)
      /\ pc' = pc
  BY ClosedOpen, Zenon
<1>4. \A i \in Items : pc'[CallOf[i]] = "idle" => pc[CallOf[i]] = "idle"
  BY <1>3, Zenon
<1> QED
  BY <1>1, <1>2, <1>3, <1>4, FinishItems, Zenon

\* The ctx watch calls the item's own done and leaves the rest as it is.
LEMMA CtxWatchItems ==
  ASSUME IInv, PlaceInv, ItemInv, NEW i \in Items, ctxWatch(i)
  PROVE  ItemInv'
<1>1. /\ watch[i] = "started" /\ watch' = [watch EXCEPT ![i] = "off"]
      /\ UNCHANGED <<pc, left, buf, cur, mu, pending, flights>>
      /\ UNCHANGED pc /\ UNCHANGED contrib /\ UNCHANGED released /\ UNCHANGED fanin
      /\ UNCHANGED landed
  BY Zenon DEF ctxWatch, callVars, agentVars
<1>2. \A j \in Items : j # i => fires'[j] = fires[j]
  BY ItemTypes, Zenon DEF ctxWatch
<1>3. \A j \in Items : open(j)' = open(j)
  BY <1>1, QuietPlace, OpenSame, Zenon
<1>4. \A j \in Items : watch'[j] # "off" => watch[j] # "off"
  BY <1>1, ItemTypes, Zenon
<1> SUFFICES ASSUME NEW j \in Items PROVE Item(j)' /\ Fan(j)'
  BY Zenon DEF ItemInv
<1>5. Item(j) /\ Fan(j)
  BY Zenon DEF ItemInv
<1>6. CASE j # i
  BY <1>1, <1>2, <1>3, <1>4, <1>5, <1>6, ItemQuiet, Zenon
<1>7. CASE j = i
  <2>1. gated(i) /\ pc[CallOf[i]] # "idle"
    BY <1>1, <1>5, <1>7, Zenon DEF Item
  <2>2. gated(i)'
    BY <2>1, Zenon DEF gated
  <2>3. open(i)' = open(i)
    BY <1>3, Zenon
  <2>4. Item(i)'
    BY <1>1, <1>5, <1>7, <2>1, <2>2, <2>3, Zenon DEF Item
  <2>5. Fan(i)'
    <3>1. Fan(i)
      BY <1>5, <1>7, Zenon
    <3>2. (fanin[i])' = fanin[i] /\ landed' = landed
      BY <1>1, Zenon
    <3>3. counts(fanin[i].left, open(i))' <=> counts(fanin[i].left, open(i))
      BY <2>3, <3>2, SMT DEF counts
    <3>4. recordErr(fanin[i].res, PartOf[i])' <=> recordErr(fanin[i].res, PartOf[i])
      BY <3>2, Zenon DEF recordErr
    <3> QED
      BY <2>3, <3>1, <3>2, <3>3, <3>4, Zenon DEF Fan
  <2> QED
    BY <1>7, <2>4, <2>5, Zenon
<1> QED
  BY <1>6, <1>7, Zenon

\* deliver takes one chunk of one item off what is outstanding.
LEMMA DeliverOpen ==
  ASSUME IInv, PlaceInv, NEW f \in flights, deliver(f),
         NEW i, i = f.entries[f.next][1], NEW k, k = f.entries[f.next][2]
  PROVE  /\ i \in Items /\ k \in DOMAIN Chunks[i] /\ f.entries[f.next] = <<i, k>>
         /\ k \in open(i) /\ open(i)' = open(i) \ {k}
         /\ \A j \in Items \ {i} : open(j)' = open(j)
<1> DEFINE x == f.entries[f.next]
<1>1. /\ x \in Entry /\ outstanding(x)
      /\ \A e \in Entry : outstanding(e)' <=> outstanding(e) /\ e # x
  BY DeliverPlace, Zenon
<1> HIDE DEF x
<1>2. i = x[1] /\ k = x[2]
  BY Zenon DEF x
<1>3. i \in Items /\ k \in DOMAIN Chunks[i] /\ x = <<i, k>>
  BY <1>1, <1>2 DEF Entry
<1>4. k \in open(i)
  BY <1>1, <1>3, Zenon DEF open
<1>5. \A m \in DOMAIN Chunks[i] : <<i, m>> \in Entry /\ (<<i, m>> = x <=> m = k)
  BY <1>3, EntryIsChunk, Zenon
<1>6. \A m \in DOMAIN Chunks[i] : outstanding(<<i, m>>)' <=> outstanding(<<i, m>>) /\ m # k
  BY <1>1, <1>5, Zenon
<1>7. open(i)' = open(i) \ {k}
  BY <1>6, Zenon DEF open
<1>8. ASSUME NEW j \in Items \ {i} PROVE open(j)' = open(j)
  <2>1. \A e \in Entry : e[1] = j => e # x
    BY <1>2, <1>8, Zenon
  <2> QED
    BY <1>1, <2>1, OpenSame, Zenon
<1> QED
  BY <1>3, <1>4, <1>7, <1>8, Zenon DEF x

\* A result that does not fail the item says that this chunk was acknowledged.
LEMMA DeliverLands ==
  ASSUME IInv, FlightInv, NEW f \in flights, NEW i, NEW k, f.entries[f.next] = <<i, k>>,
         ~recordErr(f.res, PartOf[i])
  PROVE  <<i, k>> \in landed
<1>1. f.next \in DOMAIN f.entries
  BY PlaceTypes, SeqElement, Zenon
<1>2. f.entries[f.next][1] = i
  OBVIOUS
<1>3. f.res.kind = "resp" /\ PartOf[i] \notin f.res.bad
  BY Zenon DEF recordErr
<1> QED
  BY <1>1, <1>2, <1>3, Zenon DEF FlightInv

\* The last outstanding chunk finishes the item with a result that does not fail
\* it only when all chunks were acknowledged; before that the fan-in goes on.
LEMMA DeliverCases ==
  ASSUME IInv, PlaceInv, ItemInv, FlightInv, NEW f \in flights, deliver(f),
         NEW i \in Items, NEW k \in DOMAIN Chunks[i], f.entries[f.next] = <<i, k>>,
         k \in open(i), open(i)' = open(i) \ {k}
  PROVE  /\ \A j \in Items \ {i} : fanin'[j] = fanin[j]
         /\ \/ /\ open(i)' = {}
               /\ \E r : /\ wrappedDone({i}, [j \in {i} |-> r])
                         /\ ~recordErr(r, PartOf[i]) =>
                              \A m \in DOMAIN Chunks[i] : <<i, m>> \in landed
            \/ /\ open(i)' # {} /\ UNCHANGED doneVars
               /\ fanin'[i] = [left |-> fanin[i].left - 1, res |-> chosen(i, f.res)]
               /\ ~recordErr(chosen(i, f.res), PartOf[i]) =>
                    \A m \in DOMAIN Chunks[i] : m \notin open(i)' => <<i, m>> \in landed
<1>0. f.entries[f.next][1] = i
  OBVIOUS
<1>1. f.res.kind # "none" /\ chunkDone(i, f.res)
  BY <1>0, Zenon DEF deliver
<1>2. ~recordErr(f.res, PartOf[i]) => <<i, k>> \in landed
  BY DeliverLands, Zenon
<1>3. Fan(i)
  BY Zenon DEF ItemInv
<1>4. /\ fanin[i].left \in Nat /\ counts(fanin[i].left, open(i))
      /\ fanin[i].res.kind = "none" => open(i) = DOMAIN Chunks[i]
      /\ fanin[i].res.kind # "none" /\ ~recordErr(fanin[i].res, PartOf[i]) =>
           \A m \in DOMAIN Chunks[i] : m \notin open(i) => <<i, m>> \in landed
  BY <1>3, Zenon DEF Fan
<1>5. fanin[i].left > 0
  BY <1>4, CountLess, Zenon
<1>6. ~recordErr(chosen(i, f.res), PartOf[i]) =>
        \A m \in DOMAIN Chunks[i] : m \notin open(i)' => <<i, m>> \in landed
  <2> SUFFICES ASSUME ~recordErr(chosen(i, f.res), PartOf[i]), NEW m \in DOMAIN Chunks[i],
                      m \notin open(i) \ {k}
               PROVE  <<i, m>> \in landed
    BY Zenon
  <2>1. CASE fanin[i].res.kind = "none"
    <3>1. chosen(i, f.res) = f.res
      BY <2>1, Zenon DEF chosen
    <3>2. m = k
      BY <1>4, <2>1, Zenon
    <3> QED
      BY <1>2, <3>1, <3>2, Zenon
  <2>2. CASE fanin[i].res.kind # "none"
    <3>1. ~recordErr(fanin[i].res, PartOf[i]) /\ ~recordErr(f.res, PartOf[i])
      BY <2>2, Zenon DEF chosen
    <3> QED
      BY <1>2, <1>4, <2>2, <3>1, Zenon
  <2> QED
    BY <2>1, <2>2, Zenon
<1>7. CASE Len(Chunks[i]) = 1
  <2>1. wrappedDone({i}, [j \in {i} |-> f.res]) /\ UNCHANGED fanin
    BY <1>1, <1>7, Zenon DEF chunkDone
  <2>2. Chunks[i] \in Seq(Nat \ {0})
    BY BinsAndChunks, Zenon
  <2>3. \A m \in DOMAIN Chunks[i] : m = k
    BY <1>7, <2>2
  <2>4. open(i)' = {}
    BY <2>3, Zenon DEF open
  <2> QED
    BY <1>2, <2>1, <2>3, <2>4, Zenon
<1>8. CASE Len(Chunks[i]) # 1
  <2> DEFINE w == [left |-> fanin[i].left - 1, res |-> chosen(i, f.res)]
  <2>1. fanin' = [fanin EXCEPT ![i] = w]
    BY <1>1, <1>8, Zenon DEF chunkDone
  <2> HIDE DEF w
  <2>2. fanin'[i] = w /\ \A j \in Items \ {i} : fanin'[j] = fanin[j]
    BY <2>1, ItemTypes, Zenon
  <2>3. CASE fanin[i].left = 1
    <3>1. wrappedDone({i}, [j \in {i} |-> chosen(i, f.res)])
      BY <1>1, <1>8, <2>3, Zenon DEF chunkDone
    <3>2. open(i) = {k}
      BY <1>4, <2>3, CountOne, Zenon
    <3>3. open(i)' = {}
      BY <3>2, Zenon
    <3>4. ~recordErr(chosen(i, f.res), PartOf[i]) => \A m \in DOMAIN Chunks[i] : <<i, m>> \in landed
      BY <1>6, <3>3, Zenon
    <3> QED
      BY <2>2, <3>1, <3>3, <3>4, Zenon
  <2>4. CASE fanin[i].left # 1
    <3>1. UNCHANGED doneVars
      BY <1>1, <1>8, <2>4, Zenon DEF chunkDone
    <3>2. fanin[i].left > 1
      BY <1>4, <1>5, <2>4
    <3>3. open(i) \ {k} # {}
      BY <1>4, <3>2, CountSome, Zenon
    <3> QED
      BY <1>6, <2>2, <3>1, <3>3, Zenon DEF w
  <2> QED
    BY <2>3, <2>4, Zenon
<1> QED
  BY <1>7, <1>8, Zenon

\* deliver keeps it: the fan-in counts down, and the last chunk finishes the item.
LEMMA DeliverItems ==
  ASSUME IInv, PlaceInv, ItemInv, FlightInv, NEW f \in flights, deliver(f)
  PROVE  ItemInv'
<1>1. PICK i, k : /\ i = f.entries[f.next][1] /\ k = f.entries[f.next][2]
  BY Zenon
<1>2. /\ i \in Items /\ k \in DOMAIN Chunks[i] /\ f.entries[f.next] = <<i, k>>
      /\ k \in open(i) /\ open(i)' = open(i) \ {k}
      /\ \A j \in Items \ {i} : open(j)' = open(j)
  BY <1>1, DeliverOpen, Zenon
<1>3. UNCHANGED pc /\ UNCHANGED landed /\ f.res.kind # "none"
  BY Zenon DEF deliver, callVars
<1>4. \A j \in Items \ {i} : fanin'[j] = fanin[j]
  BY <1>2, DeliverCases, Zenon
<1>5. Item(i) /\ Fan(i) /\ pc[CallOf[i]] # "idle"
  BY <1>2, Zenon DEF ItemInv, Item
<1>6. ASSUME open(i)' = {}, NEW r, wrappedDone({i}, [j \in {i} |-> r]) PROVE ItemInv'
  <2>1. {i} \in SUBSET Items
    BY <1>2, Zenon
  <2>2. \A j \in {i} : open(j) # {} /\ open(j)' = {} /\ pc'[CallOf[j]] # "idle"
    BY <1>2, <1>3, <1>5, <1>6, Zenon
  <2>3. \A j \in Items \ {i} : open(j)' = open(j) /\ fanin'[j] = fanin[j]
                               /\ (pc'[CallOf[j]] = "idle" => pc[CallOf[j]] = "idle")
    BY <1>2, <1>3, <1>4, Zenon
  <2>4. landed \subseteq landed'
    BY <1>3, Zenon
  <2> QED
    BY <1>6, <2>1, <2>2, <2>3, <2>4, FinishItems, Zenon
<1>7. ASSUME open(i)' # {}, UNCHANGED doneVars,
             fanin'[i] = [left |-> fanin[i].left - 1, res |-> chosen(i, f.res)],
             ~recordErr(chosen(i, f.res), PartOf[i]) =>
               \A m \in DOMAIN Chunks[i] : m \notin open(i)' => <<i, m>> \in landed
      PROVE  ItemInv'
  <2> SUFFICES ASSUME NEW j \in Items PROVE Item(j)' /\ Fan(j)'
    BY Zenon DEF ItemInv
  <2>1. UNCHANGED contrib /\ UNCHANGED released /\ UNCHANGED fires /\ UNCHANGED watch
    BY <1>7, Zenon DEF doneVars
  <2>2. CASE j # i
    <3>1. Item(j) /\ Fan(j) /\ j \in Items \ {i}
      BY <2>2, Zenon DEF ItemInv
    <3> QED
      BY <1>2, <1>3, <1>4, <2>1, <3>1, ItemQuiet, Zenon
  <2>3. CASE j = i
    <3>1. Item(i)'
      BY <1>2, <1>3, <1>5, <1>7, <2>1, Zenon DEF Item, gated
    <3>2. fanin'[i].left = fanin[i].left - 1 /\ fanin'[i].res = chosen(i, f.res)
      BY <1>7
    <3>3. fanin[i].left \in Nat /\ counts(fanin[i].left, open(i))
      BY <1>2, <1>5, Zenon DEF Fan
    <3>4. fanin[i].left > 0 /\ counts(fanin[i].left - 1, open(i) \ {k})
      BY <1>2, <3>3, CountLess, Zenon
    <3>5. fanin'[i].left \in Nat
      BY <3>2, <3>3, <3>4
    <3>6. counts(fanin[i].left, open(i))'
      <4>1. PICK m, S : m = fanin[i].left - 1 /\ S = open(i) \ {k}
        BY Zenon
      <4>2. m = fanin'[i].left /\ S = open(i)'
        BY <1>2, <3>2, <4>1, Zenon
      <4>3. counts(m, S)
        BY <3>4, <4>1, Zenon
      <4>4. PICK g \in [1..m -> S] : /\ \A x, y \in 1..m : g[x] = g[y] => x = y
                                     /\ \A z \in S : \E x \in 1..m : g[x] = z
        BY <4>3, Zenon DEF counts
      <4>5. /\ g \in [1..fanin'[i].left -> open(i)']
            /\ \A x, y \in 1..fanin'[i].left : g[x] = g[y] => x = y
            /\ \A z \in open(i)' : \E x \in 1..fanin'[i].left : g[x] = z
        BY <4>2, <4>4, Zenon
      <4> QED
        BY <4>5, Zenon DEF counts
    <3>7. fanin'[i].res.kind # "none"
      <4>1. chosen(i, f.res) = f.res \/ (chosen(i, f.res) = fanin[i].res /\ fanin[i].res.kind # "none")
        BY Zenon DEF chosen
      <4> QED
        BY <1>3, <3>2, <4>1, Zenon
    <3>8. ~recordErr(fanin[i].res, PartOf[i])' =>
            \A m \in DOMAIN Chunks[i] : m \notin open(i)' => <<i, m>> \in landed'
      <4>1. recordErr(fanin[i].res, PartOf[i])' <=> recordErr(chosen(i, f.res), PartOf[i])
        BY <3>2, Zenon DEF recordErr
      <4> QED
        BY <1>3, <1>7, <4>1, Zenon
    <3>9. Fan(i)'
      BY <3>5, <3>6, <3>7, <3>8, Zenon DEF Fan
    <3> QED
      BY <2>3, <3>1, <3>9, Zenon
  <2> QED
    BY <2>2, <2>3, Zenon
<1> QED
  BY <1>2, <1>6, <1>7, DeliverCases, Zenon

\* Flushes that start, and chunks that land, keep what is known of a flush.
LEMMA FlightSame ==
  ASSUME FlightInv, landed \subseteq landed',
         \A g \in flights' : g \in flights \/ (g.res.kind = "none" /\ g.next = 1)
  PROVE  FlightInv'
<1> SUFFICES ASSUME NEW g \in flights'
             PROVE  /\ g.res.kind = "none" => g.next = 1
                    /\ g.res.kind = "resp" => \A j \in DOMAIN g.entries :
                         PartOf[g.entries[j][1]] \notin g.res.bad => g.entries[j] \in landed'
  BY Zenon DEF FlightInv
<1>1. CASE g \in flights
  BY <1>1, Zenon DEF FlightInv
<1>2. CASE g.res.kind = "none" /\ g.next = 1
  BY <1>2, Zenon
<1> QED
  BY <1>1, <1>2, Zenon

\* A flush that returns with a response for all its partitions, as the main
\* producer makes sure of, says of every chunk what became of it.
LEMMA FlushReturnsFlight ==
  ASSUME IInv, FlightInv, ~MayOmit, NEW f \in flights, flushReturns(f)
  PROVE  FlightInv'
<1>1. PICK res : /\ res.kind = "resp" => res.ok \cup res.bad = WireParts(f.entries)
                 /\ res.kind # "none"
                 /\ flights' = (flights \ {f}) \cup {[f EXCEPT !.res = res]}
                 /\ landed' = landed \cup {f.entries[j] : j \in
                       {j \in DOMAIN f.entries : PartOf[f.entries[j][1]] \in res.ok}}
  BY DEF flushReturns, ErrResult
<1> DEFINE g == [f EXCEPT !.res = res]
<1>2. f \in Flight
  BY Zenon DEF IInv, TypeOK
<1>3. g.entries = f.entries /\ g.res = res
  BY <1>2, Zenon DEF Flight
<1> HIDE DEF g
<1>4. landed \subseteq landed' /\ flights' = (flights \ {f}) \cup {g}
  BY <1>1, Zenon DEF g
<1> SUFFICES ASSUME NEW h \in flights'
             PROVE  /\ h.res.kind = "none" => h.next = 1
                    /\ h.res.kind = "resp" => \A j \in DOMAIN h.entries :
                         PartOf[h.entries[j][1]] \notin h.res.bad => h.entries[j] \in landed'
  BY Zenon DEF FlightInv
<1>5. CASE h \in flights
  BY <1>4, <1>5, Zenon DEF FlightInv
<1>6. CASE h = g
  <2>1. h.entries = f.entries /\ h.res = res
    BY <1>3, <1>6, Zenon
  <2>2. ASSUME res.kind = "resp", NEW j \in DOMAIN f.entries, PartOf[f.entries[j][1]] \notin res.bad
        PROVE  f.entries[j] \in landed'
    <3>1. PartOf[f.entries[j][1]] \in WireParts(f.entries)
      BY Zenon DEF WireParts
    <3>2. PartOf[f.entries[j][1]] \in res.ok
      BY <1>1, <2>2, <3>1, Zenon
    <3> QED
      BY <1>1, <3>2, Zenon
  <2> QED
    BY <1>1, <2>1, <2>2, Zenon
<1> QED
  BY <1>4, <1>5, <1>6, Zenon

\* deliver moves a flush on that has returned.
LEMMA DeliverFlight ==
  ASSUME IInv, FlightInv, NEW f \in flights, deliver(f)
  PROVE  FlightInv'
<1> DEFINE g == [f EXCEPT !.next = f.next + 1]
<1>1. /\ f.res.kind # "none" /\ landed' = landed
      /\ flights' = (flights \ {f}) \cup (IF f.next < Len(f.entries) THEN {g} ELSE {})
  BY Zenon DEF deliver
<1>2. f \in Flight
  BY Zenon DEF IInv, TypeOK
<1>3. g.entries = f.entries /\ g.res = f.res
  BY <1>2, Zenon DEF Flight
<1> HIDE DEF g
<1> SUFFICES ASSUME NEW h \in flights'
             PROVE  /\ h.res.kind = "none" => h.next = 1
                    /\ h.res.kind = "resp" => \A j \in DOMAIN h.entries :
                         PartOf[h.entries[j][1]] \notin h.res.bad => h.entries[j] \in landed'
  BY Zenon DEF FlightInv
<1>4. h \in flights \/ h = g
  BY <1>1, Zenon
<1>5. CASE h \in flights
  BY <1>1, <1>5, Zenon DEF FlightInv
<1>6. CASE h = g
  <2>1. h.entries = f.entries /\ h.res = f.res
    BY <1>3, <1>6, Zenon
  <2> QED
    BY <1>1, <2>1, Zenon DEF FlightInv
<1> QED
  BY <1>4, <1>5, <1>6, Zenon

-----------------------------------------------------------------------------
(***************************************************************************)
(* CInv is inductive.                                                      *)
(***************************************************************************)
\* Nothing is outstanding at the start.
LEMMA InitCInv == Init => CInv
<1> SUFFICES ASSUME Init PROVE CInv
  BY Zenon
<1>1. /\ flights = {}
      /\ \A i \in Items : /\ watch[i] = "off" /\ contrib[i] = 0 /\ released[i] = FALSE
                          /\ fires[i] = 0 /\ fanin[i] = [left |-> Len(Chunks[i]), res |-> NoResult]
  BY Zenon DEF Init
<1>2. BinInv /\ PlaceInv /\ \A e \in Entry : ~outstanding(e)
  BY InitPlace, Zenon
<1>3. ASSUME NEW i \in Items PROVE Item(i) /\ Fan(i)
  <2>1. \A k \in DOMAIN Chunks[i] : <<i, k>> \in Entry
    BY EntryIsChunk, Zenon
  <2>2. open(i) = {}
    BY <1>2, <2>1, Zenon DEF open
  <2>3. fanin[i].left = Len(Chunks[i]) /\ fanin[i].res.kind = "none"
    <3>1. fanin[i] = [left |-> Len(Chunks[i]), res |-> NoResult]
      BY <1>1, Zenon
    <3>2. fanin[i].left = Len(Chunks[i]) /\ fanin[i].res = NoResult
      BY <3>1
    <3>3. NoResult.kind = "none"
      BY Zenon DEF NoResult, ErrResult
    <3> QED
      BY <3>2, <3>3, Zenon
  <2>4. Item(i)
    BY <1>1, <2>2, <2>3, Zenon DEF Item
  <2> QED
    BY <2>2, <2>4, Zenon DEF Fan
<1>4. FlightInv
  BY <1>1, Zenon DEF FlightInv
<1> QED
  BY <1>2, <1>3, <1>4, Zenon DEF CInv, ItemInv

\* Steps that move no chunk keep what is known of items.
LEMMA MovesCInv ==
  ASSUME IInv, CInv, [Next]_vars, PlaceInv', \A e \in Entry : outstanding(e)' <=> outstanding(e),
         \A i \in Items : pc'[CallOf[i]] = "idle" => pc[CallOf[i]] = "idle",
         \A i \in Items : watch'[i] # "off" => watch[i] # "off",
         UNCHANGED <<contrib, released, fires, fanin>>, landed \subseteq landed', FlightInv'
  PROVE  CInv'
<1>1. BinInv /\ ItemInv
  BY Zenon DEF CInv
<1>2. BinInv'
  BY <1>1, BinStep, Zenon
<1>3. ItemInv'
  BY <1>1, QuietItems, Zenon
<1> QED
  BY <1>2, <1>3, Zenon DEF CInv

\* Steps of timers, callers and Close.
LEMMA FrameCInv ==
  ASSUME IInv, CInv, [Next]_vars,
         \/ \E c \in Calls : cancel(c)
         \/ \E n \in Agents : lingerElapses(n)
         \/ Close \/ closeReturns \/ UNCHANGED vars
  PROVE  CInv'
<1>1. /\ UNCHANGED <<pc, left, buf, cur, mu, pending, flights>>
      /\ UNCHANGED <<contrib, released, fires, fanin>>
      /\ UNCHANGED pc /\ UNCHANGED landed /\ UNCHANGED flights
  BY Zenon DEF cancel, lingerElapses, Close, closeReturns, vars, callVars, agentVars, doneVars
<1>2. \A i \in Items : watch'[i] # "off" => watch[i] # "off"
  BY Zenon DEF cancel, lingerElapses, Close, closeReturns, vars, doneVars
<1>3. PlaceInv /\ FlightInv
  BY Zenon DEF CInv
<1>4. PlaceInv' /\ \A e \in Entry : outstanding(e)' <=> outstanding(e)
  BY <1>1, <1>3, QuietPlace, Zenon
<1>5. FlightInv' /\ landed \subseteq landed'
  BY <1>1, <1>3, FlightSame, Zenon
<1>6. \A i \in Items : pc'[CallOf[i]] = "idle" => pc[CallOf[i]] = "idle"
  BY <1>1, Zenon
<1> QED
  BY <1>1, <1>2, <1>4, <1>5, <1>6, MovesCInv, Zenon

\* Dispatching a batch.
LEMMA FlushCInv ==
  ASSUME IInv, CInv, [Next]_vars, NEW n \in Agents, timerFlush(n) \/ closeAgent(n)
  PROVE  CInv'
<1>1. /\ startFlushLocked(n) /\ pending' = [pending EXCEPT ![n] = << >>]
      /\ UNCHANGED <<pc, left, buf, cur, mu>>
      /\ UNCHANGED <<contrib, released, fires, fanin>>
      /\ UNCHANGED pc /\ UNCHANGED landed /\ UNCHANGED watch
  BY Zenon DEF timerFlush, closeAgent, callVars, doneVars
<1>2. PlaceInv /\ FlightInv
  BY Zenon DEF CInv
<1>3. PlaceInv' /\ \A e \in Entry : outstanding(e)' <=> outstanding(e)
  BY <1>1, <1>2, FlushPlace, Zenon
<1>4. landed \subseteq landed'
  BY <1>1, Zenon
<1>5. FlightInv'
  BY <1>1, <1>2, <1>4, FlushFlights, FlightSame, Zenon
<1>6. /\ \A i \in Items : pc'[CallOf[i]] = "idle" => pc[CallOf[i]] = "idle"
      /\ \A i \in Items : watch'[i] # "off" => watch[i] # "off"
  BY <1>1, Zenon
<1> QED
  BY <1>1, <1>3, <1>4, <1>5, <1>6, MovesCInv, Zenon

\* Binning, finding and filling a buffer.
LEMMA DispatchCInv ==
  ASSUME IInv, CInv, [Next]_vars, NEW c \in Calls,
         \/ binByAgent(c) \/ multiAddLock(c) \/ maybeStartNextFlushTimerLocked(c)
         \/ \E n \in Agents : agentBufferFor(c, n)
         \/ addToNextProduceLocked(c)
  PROVE  CInv'
<1>1. UNCHANGED <<contrib, released, fires, fanin>> /\ UNCHANGED landed /\ UNCHANGED watch
  BY Zenon DEF binByAgent, multiAddLock, maybeStartNextFlushTimerLocked, agentBufferFor,
         addToNextProduceLocked, doneVars
<1>2. pc' = pc \/ pc' = [pc EXCEPT ![c] = "binning"]
  BY Zenon DEF binByAgent, multiAddLock, maybeStartNextFlushTimerLocked, agentBufferFor,
         addToNextProduceLocked
<1>3. \A i \in Items : pc'[CallOf[i]] = "idle" => pc[CallOf[i]] = "idle"
  <2>1. \A d \in Calls : pc'[d] = "idle" => pc[d] = "idle"
    BY <1>2, CallTypes, Zenon
  <2> QED
    BY <2>1, ItemTypes, Zenon
<1>4. BinInv /\ PlaceInv /\ FlightInv
  BY Zenon DEF CInv
<1>5. PlaceInv' /\ \A e \in Entry : outstanding(e)' <=> outstanding(e)
  BY <1>4, CallPlace, AddPlace, Zenon
<1>6. landed \subseteq landed' /\ \A i \in Items : watch'[i] # "off" => watch[i] # "off"
  BY <1>1, Zenon
<1>7. \A g \in flights' : g \in flights \/ (g.res.kind = "none" /\ g.next = 1)
  <2>1. flights' = flights \/ startFlushLocked(buf[c])
    BY Zenon DEF binByAgent, multiAddLock, maybeStartNextFlushTimerLocked, agentBufferFor,
           addToNextProduceLocked
  <2> QED
    BY <2>1, FlushFlights, Zenon
<1>8. FlightInv'
  BY <1>4, <1>6, <1>7, FlightSame, Zenon
<1> QED
  BY <1>1, <1>3, <1>5, <1>6, <1>8, MovesCInv, Zenon

\* Taking items on, and giving them up.
LEMMA CallCInv ==
  ASSUME IInv, CInv, [Next]_vars, NEW c \in Calls,
         \/ wrap(c) \/ rejectCanceled(c) \/ multiAddClosed(c)
         \/ \E n \in Agents : agentBufferForClosed(c, n)
  PROVE  CInv'
<1>1. BinInv /\ PlaceInv /\ ItemInv /\ FlightInv
  BY Zenon DEF CInv
<1>2. UNCHANGED landed /\ UNCHANGED flights
  BY Zenon DEF wrap, rejectCanceled, multiAddClosed, agentBufferForClosed
<1>3. FlightInv'
  BY <1>1, <1>2, FlightSame, Zenon
<1>4. BinInv'
  BY <1>1, BinStep, Zenon
<1>5. multiAddClosed(c) => \E n \in Agents : multiAddClosed(c) /\ n = buf[c]
  BY CallTypes, <1>1, Zenon DEF multiAddClosed, BinInv
<1>6. PlaceInv'
  BY <1>1, <1>5, WrapPlace, RejectPlace, ClosedPlace, Zenon
<1>7. ItemInv'
  BY <1>1, <1>5, WrapItems, RejectItems, ClosedItems, Zenon
<1> QED
  BY <1>3, <1>4, <1>6, <1>7, Zenon DEF CInv

\* The ctx watch.
LEMMA CtxWatchCInv ==
  ASSUME IInv, CInv, [Next]_vars, NEW i \in Items, ctxWatch(i)
  PROVE  CInv'
<1>1. BinInv /\ PlaceInv /\ ItemInv /\ FlightInv
  BY Zenon DEF CInv
<1>2. /\ UNCHANGED <<pc, left, buf, cur, mu, pending, flights>>
      /\ UNCHANGED landed /\ UNCHANGED flights
  BY Zenon DEF ctxWatch, callVars, agentVars
<1>3. FlightInv'
  BY <1>1, <1>2, FlightSame, Zenon
<1>4. BinInv' /\ PlaceInv' /\ ItemInv'
  BY <1>1, <1>2, BinStep, QuietPlace, CtxWatchItems, Zenon
<1> QED
  BY <1>3, <1>4, Zenon DEF CInv

\* A flush that returns or reports.
LEMMA FlightCInv ==
  ASSUME IInv, CInv, ~MayOmit, [Next]_vars, NEW f \in flights, flushReturns(f) \/ deliver(f)
  PROVE  CInv'
<1>1. BinInv /\ PlaceInv /\ ItemInv /\ FlightInv
  BY Zenon DEF CInv
<1>2. CASE flushReturns(f)
  <2>1. /\ UNCHANGED <<contrib, released, fires, fanin>> /\ UNCHANGED pc /\ UNCHANGED watch
        /\ landed \subseteq landed'
    BY <1>2, Zenon DEF flushReturns, doneVars, callVars
  <2>2. PlaceInv' /\ \A e \in Entry : outstanding(e)' <=> outstanding(e)
    BY <1>1, <1>2, FlushReturnsPlace, Zenon
  <2>3. FlightInv'
    BY <1>1, <1>2, FlushReturnsFlight, Zenon
  <2>4. /\ \A i \in Items : pc'[CallOf[i]] = "idle" => pc[CallOf[i]] = "idle"
        /\ \A i \in Items : watch'[i] # "off" => watch[i] # "off"
    BY <2>1, Zenon
  <2> QED
    BY <2>1, <2>2, <2>3, <2>4, MovesCInv, Zenon
<1>3. CASE deliver(f)
  BY <1>1, <1>3, BinStep, DeliverPlace, DeliverItems, DeliverFlight, Zenon DEF CInv
<1> QED
  BY <1>2, <1>3, Zenon

\* Every step of the buffer keeps CInv.
LEMMA StepCInv ==
  ASSUME ~MayOmit
  PROVE  IInv /\ CInv /\ [Next]_vars => CInv'
BY FrameCInv, FlushCInv, DispatchCInv, CallCInv, CtxWatchCInv, FlightCInv, Zenon DEF Next, CallStep

-----------------------------------------------------------------------------
(***************************************************************************)
(* Every step is a step of the contract.                                   *)
(***************************************************************************)
\* What the contract sees of one item.
phaseOf(i) ==
  IF pc[CallOf[i]] = "idle" THEN "new"
  ELSE IF fires[i] = 0 THEN "open"
  ELSE IF recordErr(outcome[i], PartOf[i]) THEN "failed" ELSE "acked"
whole(i) == \A k \in DOMAIN Chunks[i] : <<i, k>> \in landed

phases == [i \in Items |-> phaseOf(i)]
counted == {i \in Items : contrib[i] # 0}
wholes == {i \in Items : whole(i)}

\* The contract's actions over these three.
LEMMA ContractActions ==
  /\ phases' = phases /\ counted' = counted /\ wholes' = wholes => UNCHANGED Contract!vars
  /\ \A S : Contract!Submit(S) <=>
       /\ \A i \in S : phases[i] = "new"
       /\ phases' = [i \in Items |-> IF i \in S THEN "open" ELSE phases[i]]
       /\ counted' = counted \cup S /\ wholes' = wholes
  /\ \A S : Contract!Store(S) <=>
       S \subseteq counted /\ wholes' = wholes \cup S /\ phases' = phases /\ counted' = counted
  /\ \A i : Contract!Detach(i) <=>
       /\ i \in {j \in Items : phases[j] = "open"}
       /\ phases' = [phases EXCEPT ![i] = "failed"] /\ counted' = counted /\ wholes' = wholes
  /\ \A S, A : Contract!Finish(S, A) <=>
       /\ S \subseteq counted
       /\ A \subseteq S \cap {j \in Items : phases[j] = "open"} \cap wholes
       /\ counted' = counted \ S
       /\ phases' = [i \in Items |-> IF i \in A THEN "acked"
                                     ELSE IF i \in S \cap {j \in Items : phases[j] = "open"}
                                          THEN "failed" ELSE phases[i]]
       /\ wholes' = wholes
<1>1. phases' = phases /\ counted' = counted /\ wholes' = wholes => UNCHANGED Contract!vars
  BY Zenon DEF Contract!vars, phases, phaseOf, counted, wholes, whole
<1>2. \A S : Contract!Submit(S) <=>
       /\ \A i \in S : phases[i] = "new"
       /\ phases' = [i \in Items |-> IF i \in S THEN "open" ELSE phases[i]]
       /\ counted' = counted \cup S /\ wholes' = wholes
  BY Zenon DEF Contract!Submit, phases, phaseOf, counted, wholes, whole
<1>3. \A S : Contract!Store(S) <=>
       S \subseteq counted /\ wholes' = wholes \cup S /\ phases' = phases /\ counted' = counted
  BY Zenon DEF Contract!Store, phases, phaseOf, counted, wholes, whole
<1>4. \A i : Contract!Detach(i) <=>
       /\ i \in {j \in Items : phases[j] = "open"}
       /\ phases' = [phases EXCEPT ![i] = "failed"] /\ counted' = counted /\ wholes' = wholes
  BY Zenon DEF Contract!Detach, Contract!Open, phases, phaseOf, counted, wholes, whole
<1>5. \A S, A : Contract!Finish(S, A) <=>
       /\ S \subseteq counted
       /\ A \subseteq S \cap {j \in Items : phases[j] = "open"} \cap wholes
       /\ counted' = counted \ S
       /\ phases' = [i \in Items |-> IF i \in A THEN "acked"
                                     ELSE IF i \in S \cap {j \in Items : phases[j] = "open"}
                                          THEN "failed" ELSE phases[i]]
       /\ wholes' = wholes
  BY Zenon DEF Contract!Finish, Contract!Open, phases, phaseOf, counted, wholes, whole
<1> QED
  BY <1>1, <1>2, <1>3, <1>4, <1>5, Zenon

\* How the three change, item by item.
LEMMA PhasesNext ==
  /\ \A i \in Items : phases[i] = phaseOf(i) /\ phases'[i] = phaseOf(i)'
  /\ phases = [i \in Items |-> phases[i]] /\ phases' = [i \in Items |-> phases'[i]]
  /\ \A i : i \in counted <=> i \in Items /\ contrib[i] # 0
  /\ \A i : i \in counted' <=> i \in Items /\ contrib'[i] # 0
  /\ \A i : i \in wholes <=> i \in Items /\ whole(i)
  /\ \A i : i \in wholes' <=> i \in Items /\ whole(i)'
<1>1. /\ \A i \in Items : phases[i] = phaseOf(i)
      /\ phases = [i \in Items |-> phases[i]]
  BY Zenon DEF phases
<1>2. \A i \in Items : phases'[i] = phaseOf(i)'
  BY Zenon DEF phases, phaseOf
<1>3. phases' = [i \in Items |-> phases'[i]]
  BY Zenon DEF phases
<1> QED
  BY <1>1, <1>2, <1>3, Zenon DEF counted, wholes

\* What decides an item's phase.
LEMMA PhaseSame ==
  ASSUME NEW i \in Items, pc'[CallOf[i]] = "idle" <=> pc[CallOf[i]] = "idle",
         fires'[i] = fires[i], outcome'[i] = outcome[i]
  PROVE  phaseOf(i)' = phaseOf(i)
<1>1. recordErr(outcome[i], PartOf[i])' <=> recordErr(outcome[i], PartOf[i])
  BY Zenon DEF recordErr
<1> QED
  BY <1>1, Zenon DEF phaseOf

\* Without acknowledgements no item becomes complete.
LEMMA WholeSame ==
  ASSUME landed' = landed
  PROVE  \A i : whole(i)' <=> whole(i)
BY Zenon DEF whole

\* A step in which no phase, count or acknowledgement changes is a stutter.
LEMMA SimStutter ==
  ASSUME \A i \in Items : phaseOf(i)' = phaseOf(i) /\ contrib'[i] = contrib[i], landed' = landed
  PROVE  UNCHANGED Contract!vars
<1>1. \A i : whole(i)' <=> whole(i)
  BY WholeSame, Zenon
<1>2. phases' = phases
  BY PhasesNext
<1>3. counted' = counted
  BY PhasesNext, Zenon
<1>4. wholes' = wholes
  BY <1>1, PhasesNext, Zenon
<1> QED
  BY <1>2, <1>3, <1>4, ContractActions, Zenon

\* A step that opens the promises of S and counts them is Submit.
LEMMA SimSubmit ==
  ASSUME NEW S \in SUBSET Items, landed' = landed,
         \A i \in S : phaseOf(i) = "new" /\ phaseOf(i)' = "open" /\ contrib'[i] # 0,
         \A i \in Items \ S : phaseOf(i)' = phaseOf(i) /\ contrib'[i] = contrib[i]
  PROVE  Contract!Next
<1>1. \A i : whole(i)' <=> whole(i)
  BY WholeSame, Zenon
<1>2. phases' = [i \in Items |-> IF i \in S THEN "open" ELSE phases[i]]
  BY PhasesNext
<1>3. counted' = counted \cup S
  BY PhasesNext, Zenon
<1>4. wholes' = wholes
  BY <1>1, PhasesNext, Zenon
<1>5. \A i \in S : phases[i] = "new"
  BY PhasesNext, Zenon
<1>6. Contract!Submit(S)
  BY <1>2, <1>3, <1>4, <1>5, ContractActions, Zenon
<1> QED
  BY <1>6, Zenon DEF Contract!Next

\* A step that only completes items which are counted is Store.
LEMMA SimStore ==
  ASSUME landed \subseteq landed',
         \A i \in Items : phaseOf(i)' = phaseOf(i) /\ contrib'[i] = contrib[i],
         \A i \in Items : whole(i)' /\ ~whole(i) => contrib[i] # 0
  PROVE  Contract!Next
<1>0. PICK S : S = {i \in Items : whole(i)' /\ ~whole(i)}
  BY Zenon
<1>1. \A i : whole(i) => whole(i)'
  BY Zenon DEF whole
<1>2. S \subseteq counted
  BY <1>0, PhasesNext, Zenon
<1>3. wholes' = wholes \cup S
  BY <1>0, <1>1, PhasesNext, Zenon
<1>4. phases' = phases
  BY PhasesNext
<1>5. counted' = counted
  BY PhasesNext, Zenon
<1>6. S \in SUBSET Items
  BY <1>0, Zenon
<1>7. Contract!Store(S)
  BY <1>2, <1>3, <1>4, <1>5, ContractActions, Zenon
<1> QED
  BY <1>6, <1>7, Zenon DEF Contract!Next

\* A step that only fails one open promise is Detach.
LEMMA SimDetach ==
  ASSUME NEW i \in Items, landed' = landed, phaseOf(i) = "open", phaseOf(i)' = "failed",
         \A j \in Items : contrib'[j] = contrib[j], \A j \in Items \ {i} : phaseOf(j)' = phaseOf(j)
  PROVE  Contract!Next
<1>1. \A j : whole(j)' <=> whole(j)
  BY WholeSame, Zenon
<1>2. phases' = [phases EXCEPT ![i] = "failed"]
  BY PhasesNext
<1>3. counted' = counted
  BY PhasesNext, Zenon
<1>4. wholes' = wholes
  BY <1>1, PhasesNext, Zenon
<1>5. i \in {j \in Items : phases[j] = "open"}
  BY PhasesNext, Zenon
<1>6. Contract!Detach(i)
  BY <1>2, <1>3, <1>4, <1>5, ContractActions, Zenon
<1> QED
  BY <1>6, Zenon DEF Contract!Next

\* A step that gives the items of S back and settles their promises is Finish.
LEMMA SimFinish ==
  ASSUME NEW S \in SUBSET Items, landed' = landed,
         \A i \in S : contrib[i] # 0 /\ contrib'[i] = 0,
         \A i \in S : phaseOf(i) # "open" => phaseOf(i)' = phaseOf(i),
         \A i \in S : phaseOf(i) = "open" =>
           phaseOf(i)' = "failed" \/ (phaseOf(i)' = "acked" /\ whole(i)),
         \A i \in Items \ S : phaseOf(i)' = phaseOf(i) /\ contrib'[i] = contrib[i]
  PROVE  Contract!Next
<1>0. PICK A : A = {i \in S : phaseOf(i) = "open" /\ phaseOf(i)' = "acked"}
  BY Zenon
<1> DEFINE O == {j \in Items : phases[j] = "open"}
<1>1. \A i : whole(i)' <=> whole(i)
  BY WholeSame, Zenon
<1>2. S \subseteq counted
  BY PhasesNext, Zenon
<1>3. A \subseteq S \cap O \cap wholes
  BY <1>0, PhasesNext, Zenon
<1>4. counted' = counted \ S
  BY PhasesNext, ZenonT(40)
<1>5. wholes' = wholes
  BY <1>1, PhasesNext, Zenon
<1>6. ASSUME NEW i \in Items
      PROVE  phases'[i] = IF i \in A THEN "acked" ELSE IF i \in S \cap O THEN "failed" ELSE phases[i]
  BY <1>0, PhasesNext, Zenon
<1>7. phases' = [i \in Items |-> IF i \in A THEN "acked"
                                 ELSE IF i \in S \cap O THEN "failed" ELSE phases[i]]
  BY <1>6, PhasesNext, Zenon
<1>8. A \in SUBSET S
  BY <1>0, Zenon
<1>9. Contract!Finish(S, A)
  BY <1>2, <1>3, <1>4, <1>5, <1>7, ContractActions, SMTT(30)
<1> QED
  BY <1>8, <1>9, Zenon DEF Contract!Next

\* wrappedDone for items that are not finished finishes them.
LEMMA DoneFinishes ==
  ASSUME IInv, ItemInv, NEW S \in SUBSET Items, NEW res, wrappedDone(S, res), landed' = landed,
         \A i \in S : open(i) # {} /\ pc[CallOf[i]] # "idle" /\ pc'[CallOf[i]] # "idle",
         \A i \in S : recordErr(res[i], PartOf[i]) \/ whole(i),
         \A i \in Items \ S : pc'[CallOf[i]] = "idle" <=> pc[CallOf[i]] = "idle"
  PROVE  Contract!Next
<1>1. ASSUME NEW i \in S
      PROVE  /\ contrib[i] = 1 /\ contrib'[i] = 0
             /\ fires[i] = 0 => fires'[i] = 1 /\ outcome'[i] = res[i]
             /\ fires[i] # 0 => fires'[i] = fires[i] /\ outcome'[i] = outcome[i]
  <2>1. i \in Items /\ Item(i) /\ open(i) # {}
    BY <1>1, Zenon DEF ItemInv
  <2>2. i \in S /\ Item(i) /\ open(i) # {} =>
          /\ contrib[i] = 1 /\ contrib'[i] = 0 /\ (watch'[i] # "off" => watch[i] # "off")
          /\ fires[i] = 0 => fires'[i] = 1 /\ outcome'[i] = res[i]
          /\ fires[i] # 0 => fires'[i] = fires[i] /\ outcome'[i] = outcome[i]
    BY <2>1, DoneFacts, Zenon
  <2> QED
    BY <1>1, <2>1, <2>2, Zenon
<1>2. \A i \in S : contrib[i] # 0 /\ contrib'[i] = 0
  BY <1>1
<1>3. ASSUME NEW i \in Items \ S PROVE phaseOf(i)' = phaseOf(i) /\ contrib'[i] = contrib[i]
  <2>1. contrib'[i] = contrib[i] /\ outcome'[i] = outcome[i] /\ fires'[i] = fires[i]
    BY <1>3, DoneFacts, Zenon
  <2> QED
    BY <1>3, <2>1, PhaseSame, Zenon
<1>4. ASSUME NEW i \in S, phaseOf(i) # "open" PROVE phaseOf(i)' = phaseOf(i)
  <2>1. fires[i] # 0
    BY <1>4, Zenon DEF phaseOf
  <2> QED
    BY <1>1, <2>1, PhaseSame, Zenon
<1>5. ASSUME NEW i \in S, phaseOf(i) = "open"
      PROVE  phaseOf(i)' = "failed" \/ (phaseOf(i)' = "acked" /\ whole(i))
  <2>1. fires[i] = 0
    BY <1>5, Zenon DEF phaseOf
  <2>2. fires'[i] = 1 /\ outcome'[i] = res[i]
    BY <1>1, <2>1, Zenon
  <2>3. recordErr(outcome[i], PartOf[i])' <=> recordErr(res[i], PartOf[i])
    BY <2>2, Zenon DEF recordErr
  <2>4. fires'[i] # 0
    BY <2>2
  <2> QED
    BY <2>2, <2>3, <2>4, Zenon DEF phaseOf
<1> QED
  BY <1>2, <1>3, <1>4, <1>5, SimFinish, Zenon

\* wrap submits the items of its call.
LEMMA WrapSim ==
  ASSUME IInv, CInv, NEW c \in Calls, wrap(c)
  PROVE  Contract!Next
<1>1. /\ pc[c] = "idle" /\ pc'[c] = "wrapped" /\ (\A d \in Calls : d # c => pc'[d] = pc[d])
      /\ \A i \in Items : contrib'[i] = IF i \in ItemsOf(c) THEN contrib[i] + 1 ELSE contrib[i]
      /\ fires' = fires /\ outcome' = outcome /\ landed' = landed
  BY CallTypes, Zenon DEF wrap
<1>2. ASSUME NEW i \in ItemsOf(c)
      PROVE  phaseOf(i) = "new" /\ phaseOf(i)' = "open" /\ contrib'[i] # 0
  <2>1. i \in Items /\ CallOf[i] = c
    BY <1>2, Zenon DEF ItemsOf
  <2>2. fires[i] = 0 /\ contrib[i] = 0
    BY <1>1, <2>1, Zenon DEF CInv, ItemInv, Item
  <2>3. contrib'[i] # 0
    BY <1>1, <1>2, <2>1, <2>2, SMTT(30)
  <2>4. phaseOf(i) = "new"
    BY <1>1, <2>1, Zenon DEF phaseOf
  <2>5. phaseOf(i)' = "open"
    BY <1>1, <2>1, <2>2, Zenon DEF phaseOf
  <2> QED
    BY <2>3, <2>4, <2>5, Zenon
<1>3. ASSUME NEW i \in Items \ ItemsOf(c) PROVE phaseOf(i)' = phaseOf(i) /\ contrib'[i] = contrib[i]
  <2>1. i \in Items /\ CallOf[i] # c /\ CallOf[i] \in Calls
    BY <1>3, ItemTypes, Zenon DEF ItemsOf
  <2>2. pc'[CallOf[i]] = pc[CallOf[i]] /\ contrib'[i] = contrib[i]
    BY <1>1, <1>3, <2>1, Zenon
  <2> QED
    BY <1>1, <2>1, <2>2, PhaseSame, Zenon
<1>4. ItemsOf(c) \in SUBSET Items
  BY Zenon DEF ItemsOf
<1> QED
  BY <1>1, <1>2, <1>3, <1>4, SimSubmit, Zenon

\* An error fails every partition.
LEMMA ErrorsFail ==
  \A p : recordErr(ErrResult("ctx"), p) /\ recordErr(ErrResult("closed"), p)
BY Zenon DEF recordErr, ErrResult

\* A rejected call and a bin that is given up finish their items.
LEMMA RejectSim ==
  ASSUME IInv, CInv, NEW c \in Calls, rejectCanceled(c)
  PROVE  Contract!Next
<1>1. PICK res : res = [i \in ItemsOf(c) |-> ErrResult("ctx")]
  BY Zenon
<1>2. wrappedDone(ItemsOf(c), res) /\ landed' = landed
  BY <1>1, Zenon DEF rejectCanceled, failItems
<1>3. ItemsOf(c) \in SUBSET Items
  BY Zenon DEF ItemsOf
<1>4. \A i \in ItemsOf(c) : recordErr(res[i], PartOf[i]) \/ whole(i)
  BY <1>1, ErrorsFail, Zenon
<1>5. ItemInv /\ BinInv /\ PlaceInv
  BY Zenon DEF CInv
<1> QED
  BY <1>2, <1>3, <1>4, <1>5, RejectOpen, DoneFinishes, Zenon

\* A bin that a closed buffer refuses is finished too.
LEMMA ClosedSim ==
  ASSUME IInv, CInv, NEW c \in Calls, NEW n \in Agents,
         agentBufferForClosed(c, n) \/ (multiAddClosed(c) /\ n = buf[c])
  PROVE  Contract!Next
<1>1. PICK res : res = [i \in InBin(c, n) |-> ErrResult("closed")]
  BY Zenon
<1>2. wrappedDone(InBin(c, n), res) /\ landed' = landed
  BY <1>1, Zenon DEF agentBufferForClosed, multiAddClosed, failItems, failChunks
<1>3. \A i \in InBin(c, n) : recordErr(res[i], PartOf[i]) \/ whole(i)
  BY <1>1, ErrorsFail, Zenon
<1>4. ItemInv /\ BinInv /\ PlaceInv
  BY Zenon DEF CInv
<1>5. /\ InBin(c, n) \in SUBSET Items
      /\ \A i \in InBin(c, n) : open(i) # {} /\ pc'[CallOf[i]] # "idle" /\ pc[CallOf[i]] # "idle"
      /\ pc' = pc
  BY <1>4, ClosedOpen, Zenon
<1>6. \A i \in Items \ InBin(c, n) : pc'[CallOf[i]] = "idle" <=> pc[CallOf[i]] = "idle"
  BY <1>5, Zenon
<1> QED
  BY <1>2, <1>3, <1>4, <1>5, <1>6, DoneFinishes, Zenon

\* The ctx watch detaches an item whose promise is open.
LEMMA CtxWatchSim ==
  ASSUME IInv, CInv, NEW i \in Items, ctxWatch(i)
  PROVE  Contract!Next \/ UNCHANGED Contract!vars
<1>1. /\ watch[i] = "started" /\ pc' = pc /\ contrib' = contrib /\ landed' = landed
      /\ IF fires[i] = 0
           THEN /\ outcome' = [outcome EXCEPT ![i] = ErrResult("ctx")]
                /\ fires' = [fires EXCEPT ![i] = 1]
           ELSE outcome' = outcome /\ fires' = fires
  BY Zenon DEF ctxWatch, callVars
<1>2. pc[CallOf[i]] # "idle"
  BY <1>1, Zenon DEF CInv, ItemInv, Item
<1>3. CASE fires[i] = 0
  <2>1. /\ outcome'[i] = ErrResult("ctx") /\ fires'[i] = 1 /\ 1 # 0
        /\ \A j \in Items \ {i} : outcome'[j] = outcome[j] /\ fires'[j] = fires[j]
    BY <1>1, <1>3, ItemTypes
  <2>2. phaseOf(i) = "open"
    BY <1>2, <1>3, Zenon DEF phaseOf
  <2>3. recordErr(outcome[i], PartOf[i])'
    BY <2>1 DEF recordErr, ErrResult
  <2>4. phaseOf(i)' = "failed"
    BY <1>1, <1>2, <2>1, <2>3, Zenon DEF phaseOf
  <2>5. \A j \in Items \ {i} : phaseOf(j)' = phaseOf(j)
    BY <1>1, <2>1, PhaseSame, Zenon
  <2> QED
    BY <1>1, <2>2, <2>4, <2>5, SimDetach, Zenon
<1>4. CASE fires[i] # 0
  BY <1>1, <1>4, PhaseSame, SimStutter, Zenon
<1> QED
  BY <1>3, <1>4, Zenon

\* A flush that returns stores items that are still counted.
LEMMA FlushReturnsSim ==
  ASSUME IInv, CInv, NEW f \in flights, flushReturns(f)
  PROVE  Contract!Next
<1>1. /\ f.res.kind = "none" /\ pc' = pc /\ contrib' = contrib /\ fires' = fires
      /\ outcome' = outcome /\ landed \subseteq landed'
  BY Zenon DEF flushReturns, callVars, doneVars
<1>2. \A e \in landed' : e \in landed \/ e \in elems(f.entries)
  BY Zenon DEF flushReturns, elems
<1>3. f.next = 1 /\ f.entries \in Seq(Entry)
  BY <1>1, PlaceTypes, Zenon DEF CInv, FlightInv
<1>4. rest(f) = elems(f.entries)
  BY <1>3, FreshRest, Zenon
<1>5. ASSUME NEW i \in Items, whole(i)', ~whole(i) PROVE contrib[i] # 0
  <2>1. PICK k \in DOMAIN Chunks[i] : <<i, k>> \notin landed
    BY <1>5, Zenon DEF whole
  <2>2. <<i, k>> \in landed'
    BY <1>5, <2>1, Zenon DEF whole
  <2>3. <<i, k>> \in rest(f)
    BY <1>2, <1>4, <2>1, <2>2, Zenon
  <2>4. k \in open(i)
    BY <2>3, Zenon DEF open, outstanding, flying
  <2>5. contrib[i] = 1
    BY <2>4, Zenon DEF CInv, ItemInv, Item
  <2> QED
    BY <2>5
<1>6. \A i \in Items : phaseOf(i)' = phaseOf(i) /\ contrib'[i] = contrib[i]
  BY <1>1, PhaseSame, Zenon
<1> QED
  BY <1>1, <1>5, <1>6, SimStore, Zenon

\* The last chunk finishes its item.
LEMMA DeliverSim ==
  ASSUME IInv, CInv, NEW f \in flights, deliver(f)
  PROVE  Contract!Next \/ UNCHANGED Contract!vars
<1>0. PlaceInv /\ ItemInv /\ FlightInv
  BY Zenon DEF CInv
<1>1. PICK i, k : i = f.entries[f.next][1] /\ k = f.entries[f.next][2]
  BY Zenon
<1>2. /\ i \in Items /\ k \in DOMAIN Chunks[i] /\ f.entries[f.next] = <<i, k>>
      /\ k \in open(i) /\ open(i)' = open(i) \ {k}
  BY <1>0, <1>1, DeliverOpen, Zenon
<1>3. pc' = pc /\ landed' = landed
  BY Zenon DEF deliver, callVars
<1>4. pc[CallOf[i]] # "idle"
  BY <1>0, <1>2, Zenon DEF ItemInv, Item
<1>5. ASSUME NEW r, wrappedDone({i}, [j \in {i} |-> r]),
             ~recordErr(r, PartOf[i]) => \A m \in DOMAIN Chunks[i] : <<i, m>> \in landed
      PROVE  Contract!Next
  <2>1. PICK res : res = [j \in {i} |-> r]
    BY Zenon
  <2>2. wrappedDone({i}, res) /\ res[i] = r
    BY <1>5, <2>1, Zenon
  <2>3. \A j \in {i} : recordErr(res[j], PartOf[j]) \/ whole(j)
    BY <1>5, <2>2, Zenon DEF whole
  <2>4. \A j \in {i} : open(j) # {} /\ pc[CallOf[j]] # "idle" /\ pc'[CallOf[j]] # "idle"
    BY <1>2, <1>3, <1>4, Zenon
  <2>5. {i} \in SUBSET Items /\ \A j \in Items \ {i} : pc'[CallOf[j]] = "idle" <=> pc[CallOf[j]] = "idle"
    BY <1>2, <1>3, Zenon
  <2> QED
    BY <1>0, <1>3, <2>2, <2>3, <2>4, <2>5, DoneFinishes, Zenon
<1>6. CASE UNCHANGED doneVars
  <2>1. contrib' = contrib /\ fires' = fires /\ outcome' = outcome
    BY <1>6, Zenon DEF doneVars
  <2> QED
    BY <1>3, <2>1, PhaseSame, SimStutter, Zenon
<1> QED
  BY <1>0, <1>2, <1>5, <1>6, DeliverCases, Zenon

\* All other steps change nothing the contract speaks of.
LEMMA OtherSim ==
  ASSUME IInv,
         \/ \E c \in Calls : \/ cancel(c) \/ binByAgent(c) \/ multiAddLock(c)
                             \/ maybeStartNextFlushTimerLocked(c) \/ addToNextProduceLocked(c)
                             \/ \E n \in Agents : agentBufferFor(c, n)
         \/ \E n \in Agents : lingerElapses(n) \/ timerFlush(n) \/ closeAgent(n)
         \/ Close \/ closeReturns \/ UNCHANGED vars
  PROVE  UNCHANGED Contract!vars
<1>1. contrib' = contrib /\ fires' = fires /\ outcome' = outcome /\ landed' = landed
  BY Zenon DEF cancel, binByAgent, multiAddLock, maybeStartNextFlushTimerLocked, addToNextProduceLocked,
         agentBufferFor, lingerElapses, timerFlush, closeAgent, Close, closeReturns, vars, doneVars
<1>2. pc' = pc \/ \E c \in Calls : binByAgent(c)
  BY Zenon DEF cancel, multiAddLock, maybeStartNextFlushTimerLocked, addToNextProduceLocked,
         agentBufferFor, lingerElapses, timerFlush, closeAgent, Close, closeReturns, vars, callVars
<1>3. \A d \in Calls : pc'[d] = "idle" <=> pc[d] = "idle"
  BY <1>2, CallTypes, Zenon DEF binByAgent
<1>4. \A i \in Items : phaseOf(i)' = phaseOf(i)
  BY <1>1, <1>3, ItemTypes, PhaseSame, Zenon
<1> QED
  BY <1>1, <1>4, SimStutter, Zenon

\* Every step of the buffer is a step of the contract or a stutter.
LEMMA StepSim ==
  ASSUME IInv, CInv, [Next]_vars
  PROVE  Contract!Next \/ UNCHANGED Contract!vars
<1>1. ASSUME NEW c \in Calls, multiAddClosed(c) PROVE Contract!Next
  <2>1. \E n \in Agents : n = buf[c]
    BY <1>1, CallTypes, Zenon DEF multiAddClosed, CInv, BinInv
  <2> QED
    BY <1>1, <2>1, ClosedSim, Zenon
<1> QED
  BY <1>1, WrapSim, RejectSim, ClosedSim, CtxWatchSim, FlushReturnsSim, DeliverSim, OtherSim, ZenonT(40)
     DEF Next, CallStep

\* The buffer starts where the contract starts.
LEMMA InitSim == Init => Contract!Init
<1> SUFFICES ASSUME Init PROVE Contract!Init
  BY Zenon
<1>1. /\ \A i \in Items : pc[CallOf[i]] = "idle" /\ contrib[i] = 0
      /\ landed = {}
  BY BufferAssumption, Zenon DEF Init
<1>2. \A i \in Items : 1 \in DOMAIN Chunks[i]
  BY BinsAndChunks
<1>3. phases = [i \in Items |-> "new"]
  BY <1>1, Zenon DEF phases, phaseOf
<1>4. counted = {}
  BY <1>1, Zenon DEF counted
<1>5. wholes = {}
  BY <1>1, <1>2, Zenon DEF wholes, whole
<1> QED
  BY <1>3, <1>4, <1>5, Zenon DEF Contract!Init, phases, phaseOf, counted, wholes, whole

-----------------------------------------------------------------------------
\* CInv holds throughout, when responses cover what they were sent.
THEOREM ContractInvariant == ~MayOmit => (Spec => [](IInv /\ CInv))
<1> SUFFICES ASSUME ~MayOmit PROVE Spec => [](IInv /\ CInv)
  BY Zenon
<1>1. Init => IInv /\ CInv
  BY InitIInv, InitCInv, Zenon
<1>2. IInv /\ CInv /\ [Next]_vars => (IInv /\ CInv)'
  BY StepIInv, StepCInv, Zenon
<1> QED
  BY <1>1, <1>2, PTL DEF Spec

\* The buffer implements DeliveryContract: for every number of calls, items,
\* chunks and agents and every interleaving of callers, timers, flushes, ctx
\* watches and Close, a promise settles once and for good, it is acknowledged
\* only when every chunk of the item was, and an item stays counted as buffered
\* until the producer is finished with all of it.
THEOREM BufferImplementsContract == ~MayOmit => (Spec => ImplementsContract)
<1> SUFFICES ASSUME ~MayOmit PROVE Spec => ImplementsContract
  BY Zenon
<1>1. Spec => [](IInv /\ CInv)
  BY ContractInvariant, Zenon
<1>2. Init => Contract!Init
  BY InitSim, Zenon
<1>3. IInv /\ CInv /\ [Next]_vars => [Contract!Next]_(Contract!vars)
  BY StepSim, Zenon
<1> QED
  BY <1>1, <1>2, <1>3, PTL DEF Spec, ImplementsContract, Contract!Spec
=============================================================================
