------------------------------- MODULE Store -------------------------------
(***************************************************************************)
(* The Backend protocol of src/tickflow/persistence.py as an atomic store, *)
(* which is just what NullBackend does with its dicts: each save happens   *)
(* as a whole or not at all.                                               *)
(***************************************************************************)
EXTENDS FiringLog

CONSTANTS Sessions,  \* session ids
          Labels,    \* checkpoint labels
          MaxTicks,  \* bound on the ticks of a session
          Batches    \* the sequences of firings that may be saved by one call

None == -1

VARIABLES
  firings,      \* session -> its firings, in append order
  snapshots,    \* session -> the ticks there is a snapshot for
  checkpoints   \* session -> label -> the tick of the snapshot saved, or None

vars == <<firings, snapshots, checkpoints>>

Init ==
  /\ firings = [s \in Sessions |-> <<>>]
  /\ snapshots = [s \in Sessions |-> {}]
  /\ checkpoints = [s \in Sessions |-> [l \in Labels |-> None]]

\* save_firings appends the whole batch.
SaveFirings(s) ==
  /\ \E batch \in Batches : firings' = [firings EXCEPT ![s] = @ \o batch]
  /\ UNCHANGED <<snapshots, checkpoints>>

\* save_snapshot overwrites what there was for the tick.
SaveSnapshot(s) ==
  /\ \E t \in 1 .. MaxTicks : snapshots' = [snapshots EXCEPT ![s] = @ \cup {t}]
  /\ UNCHANGED <<firings, checkpoints>>

SaveCheckpoint(s) ==
  /\ \E l \in Labels, t \in 0 .. MaxTicks : checkpoints' = [checkpoints EXCEPT ![s][l] = t]
  /\ UNCHANGED <<firings, snapshots>>

Next == \E s \in Sessions : SaveFirings(s) \/ SaveSnapshot(s) \/ SaveCheckpoint(s)

Spec == Init /\ [][Next]_vars

=============================================================================
