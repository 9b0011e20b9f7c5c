------------------------------ MODULE Backends ------------------------------
(***************************************************************************)
(* JsonBackend and SqliteBackend of src/tickflow/persistence.py, and the   *)
(* runners that save their sessions with them.                             *)
(*                                                                         *)
(* The bodies of a tick are left out: `plan` says which nodes fire in      *)
(* which tick.  A runner that has done a tick saves its firings, then a    *)
(* snapshot; between ticks it may save a checkpoint under a label or roll  *)
(* back to one.  A snapshot is its tick.  A firing also carries the number *)
(* of faults and rollbacks before it, which tells replays apart.           *)
(*                                                                         *)
(* Faults: a save may be interrupted.  Either the call raises (disk full,  *)
(* database locked) and the runner goes on, or the process dies with all   *)
(* its sessions and each is resumed from a snapshot.  A file that was      *)
(* being written may then hold part of the data; a transaction does not.   *)
(***************************************************************************)
EXTENDS FiringLog, FiniteSetsExt

CONSTANTS Order,       \* the nodes in declaration order
          Sessions,    \* session ids
          Labels,      \* checkpoint labels
          MaxTicks,    \* bound on the ticks of a session
          MaxFaults,   \* bound on interrupted saves and crashes
          MaxRollbacks, \* bound on rollbacks
          Setups       \* the backends and sessions to consider

Nodes == ToSet(Order)

None == -1

\* The sessions one process runs on a backend of some kind, the labels they
\* save checkpoints under, and which nodes fire in which tick, for as many as a
\* session may do.
IsSetup(u) ==
  /\ u.kind \in {"json", "sqlite"}
  /\ u.active \subseteq Sessions
  /\ u.labels \subseteq Labels
  /\ \E k \in 0 .. MaxTicks : u.plan \in [0 .. k - 1 -> SUBSET Nodes]

ASSUME BackendsAssumption ==
  /\ Order \in Seq(Nodes)
  /\ MaxTicks \in Nat
  /\ MaxFaults \in Nat
  /\ MaxRollbacks \in Nat
  /\ \A u \in Setups : IsSetup(u)

VARIABLES
  setup,
  disk,      \* session -> what is stored for it
  staged,    \* sqlite: the same as the connection sees it, with the changes of
             \*   its open transaction
  lock,      \* sqlite: the session whose thread is inside the lock, if any
  pc,        \* session -> the call its runner is in: "idle", "rows",
             \*   "snapshot", "label", or "down"
  todo,      \* session -> the data the call is to write
  tick,      \* session -> its runner's tick_count
  rollbacks,
  acked,     \* session -> the firings whose save has returned, and the ticks each
             \*   label may load: that of the last save that returned, and
             \*   those of the saves begun since
  harmed,    \* session -> the targets of the writes a fault has spoiled
  faults

vars == <<setup, disk, staged, lock, pc, todo, tick, rollbacks, acked, harmed, faults>>

-----------------------------------------------------------------------------
(* What is stored *)

Firing == [tick : 0 .. MaxTicks - 1, node : Nodes, run : 0 .. MaxFaults + MaxRollbacks]

\* A line of firings.jsonl that json.loads makes nothing of.
Garbage == [tick |-> None, node |-> "?", run |-> None]

\* The files (or tables) of a session.  The last line of the log is open while
\* it has no newline.  checkpoints.json is one file, and when it cannot be
\* parsed it counts as {}.
Stored ==
  [log    : Seq(Firing \cup {Garbage}),
   open   : BOOLEAN,
   snaps  : [1 .. MaxTicks -> {"absent", "torn", "whole"}],
   labels : [Labels -> -1 .. MaxTicks]]

Empty ==
  [log    |-> <<>>,
   open   |-> FALSE,
   snaps  |-> [t \in 1 .. MaxTicks |-> "absent"],
   labels |-> [l \in Labels |-> None]]

\* What a call writes; no rows, when there is nothing to write.
Write ==
  [op : {"rows"}, rows : Seq(Firing)]
    \cup [op : {"snapshot"}, tick : 1 .. MaxTicks]
    \cup [op : {"label"}, label : Labels, tick : 0 .. MaxTicks]

Nothing == [op |-> "rows", rows |-> <<>>]

\* Lines appended to an open one continue it: the two are one line of garbage.
AppendLines(d, lines, open) ==
  IF lines = <<>> THEN d
  ELSE [d EXCEPT !.log  = IF d.open THEN Front(@) \o <<Garbage>> \o Tail(lines) ELSE @ \o lines,
                 !.open = open]

\* Faulty variant: a label that is taken is left as it is (INSERT OR IGNORE).
AppliedIgnore(d, w) ==
  CASE w.op = "rows"     -> AppendLines(d, w.rows, FALSE)
    [] w.op = "snapshot" -> [d EXCEPT !.snaps[w.tick] = "whole"]
    [] w.op = "label"    -> [d EXCEPT !.labels[w.label] = IF @ = None THEN w.tick ELSE @]

Applied(d, w) ==
  CASE w.op = "rows"     -> AppendLines(d, w.rows, FALSE)
    [] w.op = "snapshot" -> [d EXCEPT !.snaps[w.tick] = "whole"]
    [] w.op = "label"    -> [d EXCEPT !.labels[w.label] = w.tick]

\* A batch may be stored row by row.
Parts(d, w) ==
  IF w.op = "rows" THEN {AppendLines(d, SubSeq(w.rows, 1, k), FALSE) : k \in 0 .. Len(w.rows)}
                   ELSE {d, Applied(d, w)}

\* A write to a file that is cut short leaves a line without its newline, part
\* of a line, or part of a file.
Torn(d, w) ==
  CASE w.op = "rows" ->
         UNION {{AppendLines(d, SubSeq(w.rows, 1, k), TRUE),
                 AppendLines(d, Append(SubSeq(w.rows, 1, k - 1), Garbage), TRUE)} :
                   k \in 1 .. Len(w.rows)}
    [] w.op = "snapshot" -> {[d EXCEPT !.snaps[w.tick] = "torn"]}
    [] w.op = "label"    -> {[d EXCEPT !.labels = [l \in Labels |-> None]]}

-----------------------------------------------------------------------------
(* Queries, of what is stored for a session, d *)

\* Faulty variant: stops at the first line that cannot be parsed.
ListFiringsBreak(d) == Select(d.log, {i \in DOMAIN d.log : \A j \in 1 .. i : d.log[j] # Garbage})

\* list_firings: the lines that can be parsed.
ListFirings(d) == Select(d.log, {i \in DOMAIN d.log : d.log[i] # Garbage})

\* Faulty variant: replayed rows count again.
JsonFiringsOfAll(d, n) == FiringsOf(ListFirings(d), n)

\* JsonBackend.firings_of: a loop over the lines.
JsonFiringsOf(d, n) == KeepFirst(FiringsOf(ListFirings(d), n))

\* Faulty variant: MAX(id) instead of MIN(id).
SqliteFiringsOfLast(d, n) ==
  LET rows == FiringsOf(ListFirings(d), n) IN Reverse(KeepFirst(Reverse(rows)))

\* SqliteBackend.firings_of: the row of MIN(id) of each GROUP BY tick, ORDER BY it.
SqliteFiringsOf(d, n) ==
  LET rows == ListFirings(d)
      Group(t) == {i \in DOMAIN rows : rows[i].node = n /\ rows[i].tick = t}
  IN Select(rows, {i \in DOMAIN rows : /\ i \in Group(rows[i].tick)
                                       /\ \A j \in Group(rows[i].tick) : i <= j})

\* latest_firings: for each node, the first row of its MAX(tick).
LatestFirings(d) ==
  LET rows == ListFirings(d)
      own(n) == {i \in DOMAIN rows : rows[i].node = n}
      Latest(n) == {i \in own(n) : \A j \in own(n) : \/ rows[j].tick < rows[i].tick
                                                     \/ rows[j].tick = rows[i].tick /\ i <= j}
  IN {rows[i] : i \in UNION {Latest(n) : n \in Nodes}}

\* list_snapshots goes by the names of the files.
ListSnapshots(d) == {t \in 1 .. MaxTicks : d.snaps[t] # "absent"}

\* Faulty variant: the first of the list instead of the last.
LatestTickFirst(d) == IF ListSnapshots(d) = {} THEN None ELSE Min(ListSnapshots(d))

\* latest_tick: the last of list_snapshots.
LatestTick(d) == IF ListSnapshots(d) = {} THEN None ELSE Max(ListSnapshots(d))

\* load_snapshot raises for a file it cannot parse.
Loads(d, t) == d.snaps[t] = "whole"

WholeSnapshots(d) == {t \in ListSnapshots(d) : Loads(d, t)}

-----------------------------------------------------------------------------
(* The runners *)

Init ==
  /\ setup \in Setups
  /\ disk = [s \in Sessions |-> Empty]
  /\ staged = disk
  /\ lock = {}
  /\ pc = [s \in Sessions |-> "idle"]
  /\ todo = [s \in Sessions |-> Nothing]
  /\ tick = [s \in Sessions |-> 0]
  /\ rollbacks = 0
  /\ acked = [s \in Sessions |-> [firings |-> {}, labels |-> [l \in Labels |-> {None}]]]
  /\ harmed = [s \in Sessions |-> {}]
  /\ faults = 0

\* The firings of tick t, after r faults and rollbacks.
FiringsOfTick(plan, t, r) ==
  LET fired == Select(Order, {i \in DOMAIN Order : t \in DOMAIN plan /\ Order[i] \in plan[t]})
  IN [i \in DOMAIN fired |-> [tick |-> t, node |-> fired[i], run |-> r]]

Batch(s) == [op |-> "rows", rows |-> FiringsOfTick(setup.plan, tick[s], faults + rollbacks)]

\* Faulty variant: saved under the tick that was done.
SnapshotOfDone(s) == [op |-> "snapshot", tick |-> tick[s] - 1]

\* The snapshot is saved under the next tick to do.
SnapshotOf(s) == [op |-> "snapshot", tick |-> tick[s]]

\* The runner has done a tick and flushes the firings.
RunTick(s) ==
  /\ s \in setup.active
  /\ pc[s] = "idle"
  /\ tick[s] \in DOMAIN setup.plan
  /\ tick' = [tick EXCEPT ![s] = @ + 1]
  /\ todo' = [todo EXCEPT ![s] = Batch(s)]
  /\ pc' = [pc EXCEPT ![s] = "rows"]
  /\ UNCHANGED <<setup, disk, staged, lock, rollbacks, acked, harmed, faults>>

\* checkpoint(l) by a user.
Checkpoint(s, l) ==
  /\ s \in setup.active
  /\ l \in setup.labels
  /\ pc[s] = "idle"
  /\ todo' = [todo EXCEPT ![s] = [op |-> "label", label |-> l, tick |-> tick[s]]]
  /\ pc' = [pc EXCEPT ![s] = "label"]
  /\ acked' = [acked EXCEPT ![s].labels[l] = @ \cup {tick[s]}]
  /\ UNCHANGED <<setup, disk, staged, lock, tick, rollbacks, harmed, faults>>

\* After the firings comes the snapshot, whether or not they could be saved.
Proceed(s) ==
  /\ pc' = [pc EXCEPT ![s] = IF @ = "rows" THEN "snapshot" ELSE "idle"]
  /\ todo' = [todo EXCEPT ![s] = IF pc[s] = "rows" THEN SnapshotOf(s) ELSE Nothing]

Key(f) == [tick |-> f.tick, node |-> f.node]

\* The call returns: what it wrote counts as saved.
Return(s) ==
  /\ acked' =
       [acked EXCEPT
          ![s].firings = IF pc[s] = "rows" THEN @ \cup {Key(f) : f \in ToSet(todo[s].rows)} ELSE @,
          ![s].labels  = IF pc[s] = "label" THEN [@ EXCEPT ![todo[s].label] = {todo[s].tick}] ELSE @]
  /\ Proceed(s)

\* Nothing fired: save_firings is not called, or returns at once.
SkipEmptyBatch(s) ==
  /\ pc[s] = "rows"
  /\ setup.plan[tick[s] - 1] = {}
  /\ Proceed(s)
  /\ UNCHANGED <<setup, disk, staged, lock, tick, rollbacks, acked, harmed, faults>>

\* rollback_to(l); the rows stay.  A read takes the lock, too, and sees what its
\* connection has not committed.
Rollback(s, l) ==
  /\ pc[s] = "idle"
  /\ lock = {}
  /\ staged[s].labels[l] # None
  /\ rollbacks < MaxRollbacks
  /\ tick' = [tick EXCEPT ![s] = staged[s].labels[l]]
  /\ rollbacks' = rollbacks + 1
  /\ UNCHANGED <<setup, disk, staged, lock, pc, todo, acked, harmed, faults>>

-----------------------------------------------------------------------------
(* JsonBackend *)

JsonSave(s) ==
  /\ setup.kind = "json"
  /\ todo[s] # Nothing
  /\ disk' = [disk EXCEPT ![s] = Applied(@, todo[s])]
  /\ staged' = disk'
  /\ Return(s)
  /\ UNCHANGED <<setup, lock, tick, rollbacks, harmed, faults>>

\* What a fault spoils: a write that raised, or was left half done.
Target(s) == <<pc[s], IF pc[s] = "snapshot" THEN tick[s] ELSE 0>>

HalfDone(s, d) == d \notin Parts(disk[s], todo[s])

\* The call raises.  The runner swallows that, but for a checkpoint.
JsonFails(s) ==
  /\ setup.kind = "json"
  /\ todo[s] # Nothing
  /\ faults < MaxFaults
  /\ faults' = faults + 1
  /\ \E d \in Parts(disk[s], todo[s]) \cup Torn(disk[s], todo[s]) : disk' = [disk EXCEPT ![s] = d]
  /\ staged' = disk'
  /\ harmed' = [harmed EXCEPT ![s] = @ \cup {Target(s)}]
  /\ Proceed(s)
  /\ UNCHANGED <<setup, lock, tick, rollbacks, acked>>

-----------------------------------------------------------------------------
(* SqliteBackend: one connection for all threads *)

\* Faulty variant: the lock is no obstacle.
ExecuteUnlocked(s) ==
  /\ setup.kind = "sqlite"
  /\ todo[s] # Nothing
  /\ s \notin lock
  /\ lock' = lock \cup {s}
  /\ staged' = [staged EXCEPT ![s] = Applied(@, todo[s])]
  /\ UNCHANGED <<setup, disk, pc, todo, tick, rollbacks, acked, harmed, faults>>

\* A thread takes the lock and executes its statements.
Execute(s) ==
  /\ setup.kind = "sqlite"
  /\ todo[s] # Nothing
  /\ lock = {}
  /\ lock' = {s}
  /\ staged' = [staged EXCEPT ![s] = Applied(@, todo[s])]
  /\ UNCHANGED <<setup, disk, pc, todo, tick, rollbacks, acked, harmed, faults>>

\* commit() makes what the connection has executed permanent, whoever did it.
Commit(s) ==
  /\ s \in lock
  /\ disk' = staged
  /\ lock' = lock \ {s}
  /\ Return(s)
  /\ UNCHANGED <<setup, staged, tick, rollbacks, harmed, faults>>

\* What the connection has executed when a statement or the commit raises.
Executed(s) == IF s \in lock THEN {staged[s]} ELSE Parts(staged[s], todo[s])

\* A statement or the commit raises, which releases the lock.  Nobody calls
\* rollback(): unless SQLite has done so, the transaction stays open with what
\* was executed, and the next commit of any thread includes it.
SqliteFails(s) ==
  /\ setup.kind = "sqlite"
  /\ todo[s] # Nothing
  /\ lock \subseteq {s}
  /\ faults < MaxFaults
  /\ faults' = faults + 1
  /\ \/ staged' = disk
     \/ \E d \in Executed(s) : staged' = [staged EXCEPT ![s] = d]
  /\ lock' = {}
  /\ harmed' = [harmed EXCEPT ![s] = @ \cup {Target(s)}]
  /\ Proceed(s)
  /\ UNCHANGED <<setup, disk, tick, rollbacks, acked>>

-----------------------------------------------------------------------------
(* Crashes *)

\* What a crash may leave of a session.
Remains(s) ==
  IF setup.kind = "json" THEN Parts(disk[s], todo[s]) \cup Torn(disk[s], todo[s]) ELSE {disk[s]}

\* The process dies, with all its sessions and the open transaction.
Crash ==
  /\ faults < MaxFaults
  /\ faults' = faults + 1
  /\ \E left \in [Sessions -> UNION {Remains(s) : s \in Sessions}] :
       /\ \A s \in Sessions : left[s] \in Remains(s)
       /\ disk' = left
       /\ harmed' = [s \in Sessions |->
                       harmed[s] \cup IF HalfDone(s, left[s]) THEN {Target(s)} ELSE {}]
  /\ staged' = disk'
  /\ lock' = {}
  /\ pc' = [s \in Sessions |-> IF s \in setup.active THEN "down" ELSE "idle"]
  /\ todo' = [s \in Sessions |-> Nothing]
  /\ UNCHANGED <<setup, tick, rollbacks, acked>>

\* restore(load_snapshot(latest_tick)), or a new run if there is no snapshot.
\* When load_snapshot raises, it is for the user to go on: from any snapshot
\* that loads, or from the beginning.
Restorable(s) ==
  LET last == LatestTick(disk[s])
  IN CASE last = None                           -> {0}
       [] last # None /\ Loads(disk[s], last)   -> {last}
       [] last # None /\ ~Loads(disk[s], last)  -> WholeSnapshots(disk[s]) \cup {0}

\* The process starts again.
Resume(s) ==
  /\ pc[s] = "down"
  /\ \E t \in Restorable(s) : tick' = [tick EXCEPT ![s] = t]
  /\ pc' = [pc EXCEPT ![s] = "idle"]
  /\ UNCHANGED <<setup, disk, staged, lock, todo, rollbacks, acked, harmed, faults>>

Next ==
  \/ \E s \in Sessions :
       \/ RunTick(s)
       \/ SkipEmptyBatch(s)
       \/ \E l \in Labels : Checkpoint(s, l) \/ Rollback(s, l)
       \/ JsonSave(s)
       \/ JsonFails(s)
       \/ Execute(s)
       \/ Commit(s)
       \/ SqliteFails(s)
       \/ Resume(s)
  \/ Crash

Spec == Init /\ [][Next]_vars

-----------------------------------------------------------------------------
(* Properties *)

Targets == ({"rows", "label"} \X {0}) \cup ({"snapshot"} \X (1 .. MaxTicks))

\* Files, transaction, lock and runners keep their types.
BackendsTypeOK ==
  /\ setup \in Setups
  /\ lock \in SUBSET Sessions
  /\ rollbacks \in 0 .. MaxRollbacks
  /\ faults \in 0 .. MaxFaults
  /\ disk \in [Sessions -> Stored]
  /\ staged \in [Sessions -> Stored]
  /\ pc \in [Sessions -> {"idle", "rows", "snapshot", "label", "down"}]
  /\ todo \in [Sessions -> Write]
  /\ tick \in [Sessions -> 0 .. MaxTicks]
  /\ acked \in [Sessions -> [firings : SUBSET [tick : 0 .. MaxTicks - 1, node : Nodes],
                             labels : [Labels -> SUBSET (-1 .. MaxTicks)]]]
  /\ harmed \in [Sessions -> SUBSET Targets]

KeysOf(d) == {Key(f) : f \in ToSet(ListFirings(d))}

\* Firings survive.  A firing whose save has returned can be read back, through
\* any crash, failed save and replay.  The exception is a line cut short: it
\* takes along the next firing appended, one for each fault and always the
\* first of its tick.
FiringsSurvive ==
  \A s \in Sessions :
    LET lost == acked[s].firings \ KeysOf(disk[s])
    IN /\ setup.kind = "sqlite" => lost = {}
       /\ Cardinality(lost) <= faults
       /\ \A f \in lost : f.node = FiringsOfTick(setup.plan, f.tick, 0)[1].node
       /\ <<"rows", 0>> \notin harmed[s] => lost = {}

\* The firings of node n before tick t, as planned.
PlannedTicks(n, t) ==
  LET ticks == [i \in 1 .. MaxTicks |-> i - 1]
      Planned(u) == u < t /\ u \in DOMAIN setup.plan /\ n \in setup.plan[u]
  IN Select(ticks, {i \in 1 .. MaxTicks : Planned(ticks[i])})

TicksOf(fs) == [i \in DOMAIN fs |-> fs[i].tick]

\* A[k] keeps its meaning.  Between ticks the k-th firing firing_at finds is
\* the k-th the run has made, however often ticks were replayed after
\* rollbacks and crashes, unless firings could not be saved.
OrdinalsHold ==
  \A s \in Sessions : \A n \in Nodes :
    pc[s] \in {"idle", "snapshot"} /\ <<"rows", 0>> \notin harmed[s] =>
      LET found == TicksOf(JsonFiringsOf(disk[s], n))
      IN /\ IsPrefix(PlannedTicks(n, tick[s]), found)
         /\ IsPrefix(found, PlannedTicks(n, MaxTicks))

\* The backends answer alike ("keep-first", "same semantics as firings_of"):
\* the loops over lines and the grouping by SQL find the same rows in the same
\* order, with replays, rows of abandoned ticks and lost ones.
QueriesAgree ==
  \A s \in Sessions : \A n \in Nodes :
    LET found == JsonFiringsOf(disk[s], n)
    IN /\ SqliteFiringsOf(disk[s], n) = found
       /\ {f \in LatestFirings(disk[s]) : f.node = n} =
            {f \in ToSet(found) : \A g \in ToSet(found) : g.tick <= f.tick}

\* A crash costs no more than the tick under way.  After it latest_tick is not
\* before the last tick the session had ended, unless the save of its snapshot
\* was hit by a fault; load_snapshot does not raise for it, unless its own save
\* was hit; and it is not after the tick the session was in, unless the session
\* had gone back: rolled back, or resumed after a snapshot was hit.
CrashCostsOneTick ==
  \A s \in Sessions : pc[s] = "down" =>
    LET last == LatestTick(disk[s])
    IN /\ tick[s] > 1 => last >= tick[s] - 1 \/ <<"snapshot", tick[s] - 1>> \in harmed[s]
       /\ last # None => Loads(disk[s], last) \/ <<"snapshot", last>> \in harmed[s]
       /\ last > tick[s] => \/ rollbacks > 0
                            \/ \E t \in 1 .. MaxTicks : <<"snapshot", t>> \in harmed[s]

\* A checkpoint survives.  A label loads what the last save_checkpoint that
\* returned has saved under it, or what one begun since has, through crashes,
\* failed saves and transactions left open; but a checkpoints.json cut short
\* takes all labels along.
CheckpointsSurvive ==
  \A s \in Sessions : \A l \in Labels :
    \/ disk[s].labels[l] \in acked[s].labels[l]
    \/ setup.kind = "json" /\ <<"label", 0>> \in harmed[s] /\ disk[s].labels[l] = None

Batches ==
  {FiringsOfTick(u.plan, t, r) :
     u \in Setups, t \in 0 .. MaxTicks - 1, r \in 0 .. MaxFaults + MaxRollbacks}

Atomic ==
  INSTANCE Store WITH
    firings     <- [s \in Sessions |-> ListFirings(disk[s])],
    snapshots   <- [s \in Sessions |-> WholeSnapshots(disk[s])],
    checkpoints <- [s \in Sessions |-> disk[s].labels]

\* Saves are atomic.  A SqliteBackend shared by threads stores each call as a
\* whole or not at all, whenever the process dies, unless a statement fails
\* (what it leaves open joins the next call); a JsonBackend does so as long as
\* nothing goes wrong.
SavesAtomic ==
  [][\/ setup.kind = "sqlite" /\ \A s \in Sessions : harmed'[s] = {}
     \/ faults' = 0
     => Atomic!Next]_(Atomic!vars)

=============================================================================
