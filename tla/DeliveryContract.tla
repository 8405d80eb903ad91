-------------------------- MODULE DeliveryContract --------------------------
(***************************************************************************)
(* What the record buffer promises to its callers, with no batches, agents *)
(* or timers: an item is submitted once, its promise settles once, it      *)
(* settles as acknowledged only after all of it is stored, and it counts   *)
(* as buffered from submission until the producer is finished with it      *)
(* (ClusterBuffer's doc comment and those of Add and promised).            *)
(***************************************************************************)
CONSTANT Items

VARIABLES
  phase,   \* [Items -> {"new", "open", "acked", "failed"}]
  held,    \* SUBSET Items: counted in bufferedRecords / bufferedBytes
  stored   \* SUBSET Items: completely acknowledged by agents

vars == <<phase, held, stored>>

Init ==
  /\ phase = [i \in Items |-> "new"]
  /\ held = {}
  /\ stored = {}

Open == {i \in Items : phase[i] = "open"}

\* A call hands over the items of S.
Submit(S) ==
  /\ \A i \in S : phase[i] = "new"
  /\ phase' = [i \in Items |-> IF i \in S THEN "open" ELSE phase[i]]
  /\ held' = held \cup S
  /\ UNCHANGED stored

\* Agents acknowledge the last missing piece of the items of S.
Store(S) ==
  /\ S \subseteq held
  /\ stored' = stored \cup S
  /\ UNCHANGED <<phase, held>>

\* The caller's ctx is done: its promise fails, the item stays buffered.
Detach(i) ==
  /\ i \in Open
  /\ phase' = [phase EXCEPT ![i] = "failed"]
  /\ UNCHANGED <<held, stored>>

\* The producer is finished with the items of S; of those whose promise is still
\* open the stored ones in A are acknowledged and the others fail.
Finish(S, A) ==
  /\ S \subseteq held
  /\ A \subseteq S \cap Open \cap stored
  /\ held' = held \ S
  /\ phase' = [i \in Items |-> IF i \in A THEN "acked"
                               ELSE IF i \in S \cap Open THEN "failed" ELSE phase[i]]
  /\ UNCHANGED stored

Next ==
  \/ \E S \in SUBSET Items : Submit(S) \/ Store(S)
  \/ \E i \in Items : Detach(i)
  \/ \E S \in SUBSET Items : \E A \in SUBSET S : Finish(S, A)

Spec == Init /\ [][Next]_vars
=============================================================================
