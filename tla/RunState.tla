------------------------------ MODULE RunState ------------------------------
(***************************************************************************)
(* RunState of src/tickflow/state.py, the layers it keeps of a run's       *)
(* history, and what the runner and a backend do to them: firings recorded *)
(* one by one, flushed and snapshotted at the end of each tick, named      *)
(* checkpoints, rollback, a process that dies and is resumed, a snapshot   *)
(* taken to another runner.                                                *)
(*                                                                         *)
(* The net is left out: any set of nodes may fire in a tick.  An output    *)
(* (and a node's mutable state) is told apart only by when it was made, so *)
(* it is represented by the firing itself: [tick, node, epoch], where      *)
(* epoch tells the replays of an impure run apart.  Some firings put out   *)
(* None, which is told apart from every other output, and all of it is     *)
(* alike: an output is a set, {} being None.  A read returns the set of    *)
(* the outputs it finds, {} being Missing.                                 *)
(*                                                                         *)
(* `timeline` is a history variable: every firing of the current run, as   *)
(* the full list would have it that the layers stand for.                  *)
(***************************************************************************)
EXTENDS FiringLog

CONSTANTS Order,      \* the nodes in declaration order
          Labels,     \* checkpoint labels
          MaxTicks,   \* bound on tick_count
          MaxRestores, \* bound on restores
          Modes       \* the kinds of run to consider

Nodes == ToSet(Order)

Firing == [tick : 0 .. MaxTicks - 1, node : Nodes, epoch : 0 .. MaxRestores]

\* persistent: a SqliteBackend or JsonBackend, otherwise a NullBackend;
\* pure: a replayed tick fires the same nodes with the same outputs;
\* midtick: hooks or other tasks take checkpoints inside a tick;
\* crashes: the process may die and is resumed from the latest tick;
\* forks: snapshots are restored into a new runner with a backend of its own;
\* silent: the firings that put out None.
Mode ==
  [persistent : BOOLEAN, keep_records : BOOLEAN, pure : BOOLEAN,
   midtick : BOOLEAN, crashes : BOOLEAN, forks : BOOLEAN,
   silent : SUBSET Firing]

\* What has to hold of a run for its layers to agree.  With a backend a replay
\* repeats the run, no snapshot is taken to another backend, and a process that
\* may die takes no checkpoint inside a tick, whose firings are not on disk yet.
\* In memory nothing is left of a process that dies, and without records no
\* checkpoint is taken inside a tick: the states could not be rewound.
Promised(m) ==
  IF m.persistent
  THEN m.pure /\ ~m.forks /\ ~(m.midtick /\ m.crashes)
  ELSE ~m.crashes /\ (m.keep_records \/ ~m.midtick)

\* A graph names every node once.
ASSUME RunStateAssumption ==
  /\ Order \in Seq(Nodes)
  /\ \A i, j \in DOMAIN Order : Order[i] = Order[j] => i = j
  /\ MaxTicks \in Nat
  /\ MaxRestores \in Nat
  /\ \A m \in Modes : m \in Mode /\ Promised(m)

VARIABLES
  mode,
  rs,          \* the RunState object
  rows,        \* the backend's firings, in append order
  snapshots,   \* tick -> the snapshots the backend holds for it (none or one)
  checkpoints, \* label -> the snapshots saved under it (none or one)
  tick_count,
  pc,          \* "user", "tick" (bodies run), "settled", "flushed"
  todo,        \* the nodes this tick still has to fire
  plan,        \* tick -> the sets of nodes known to fire in it (none or one)
  restores,    \* how often a run was restored or started over
  timeline

vars == <<mode, rs, rows, snapshots, checkpoints, tick_count, pc, todo, plan, restores, timeline>>

-----------------------------------------------------------------------------
(* RunState *)

\* Faulty variant: one firing is enough.
WindowOfOne(s) == IF Len(s) > 1 THEN SubSeq(s, Len(s), Len(s)) ELSE s

\* Only the last two firings of a node stay in memory.
Window(s) == IF Len(s) > 2 THEN SubSeq(s, Len(s) - 1, Len(s)) ELSE s

Fresh ==
  [edges         |-> [n \in Nodes |-> <<>>],
   fire_counts   |-> [n \in Nodes |-> 0],
   state         |-> [n \in Nodes |-> {}],
   records       |-> <<>>,
   pending       |-> <<>>,
   audit_ceiling |-> -1]

\* Faulty variant: the window is never trimmed.
RecordUnbounded(r, f) ==
  [r EXCEPT !.edges[f.node] = Append(@, f),
            !.fire_counts[f.node] = @ + 1,
            !.state[f.node] = {f},
            !.records = IF mode.keep_records /\ ~mode.persistent THEN Append(@, f) ELSE @,
            !.pending = IF mode.persistent THEN Append(@, f) ELSE @,
            !.audit_ceiling = IF f.tick > @ THEN f.tick ELSE @]

\* What a NullBackend is sent is never read, so pending is kept only for a
\* persistent backend.  Its batch never spans two ticks: every tick ends in a
\* flush.
Record(r, f) ==
  [r EXCEPT !.edges[f.node] = Window(Append(@, f)),
            !.fire_counts[f.node] = @ + 1,
            !.state[f.node] = {f},
            !.records = IF mode.keep_records /\ ~mode.persistent THEN Append(@, f) ELSE @,
            !.pending = IF mode.persistent THEN Append(@, f) ELSE @,
            !.audit_ceiling = IF f.tick > @ THEN f.tick ELSE @]

Rewind(r, t) == [n \in Nodes |-> UpTo(r.edges[n], t)]

\* Faulty variant: the counters stay where they were.
TruncateInMemoryKeepsCounts(r, t) ==
  LET records == IF mode.keep_records THEN UpTo(r.records, t) ELSE <<>>
  IN [r EXCEPT !.edges   = Rewind(r, t),
               !.state   = [n \in Nodes |->
                              IF mode.keep_records THEN LastOf(FiringsOf(records, n))
                              ELSE IF Rewind(r, t)[n] = <<>> THEN {} ELSE r.state[n]],
               !.records = records]

\* The window and the counters lose what was made after t; a node whose whole
\* window goes is forgotten; the states are rebuilt from the records, if kept.
TruncateInMemory(r, t) ==
  LET edges   == Rewind(r, t)
      records == IF mode.keep_records THEN UpTo(r.records, t) ELSE <<>>
  IN [r EXCEPT !.edges       = edges,
               !.fire_counts = [n \in Nodes |->
                                  IF edges[n] = <<>> THEN 0
                                  ELSE @[n] - (Len(r.edges[n]) - Len(edges[n]))],
               !.state       = [n \in Nodes |->
                                  IF mode.keep_records THEN LastOf(FiringsOf(records, n))
                                  ELSE IF edges[n] = <<>> THEN {} ELSE @[n]],
               !.records     = records]

\* With rows on disk the layers are rebuilt from them instead.
RebuildFrom(r, onDisk, t) ==
  LET kept == KeepFirst(UpTo(onDisk, t))
  IN [r EXCEPT !.edges       = [n \in Nodes |-> Window(FiringsOf(kept, n))],
               !.fire_counts = [n \in Nodes |-> Len(FiringsOf(kept, n))],
               !.state       = [n \in Nodes |->
                                  {f \in ToSet(FiringsOf(kept, n)) :
                                     \A g \in ToSet(FiringsOf(kept, n)) : g.tick <= f.tick}],
               !.records     = <<>>]

\* Without any row the snapshot's own states stand; the records go either way.
PruneOnly(r, t) ==
  [TruncateInMemory(r, t) EXCEPT
     !.state   = [n \in Nodes |-> IF Rewind(r, t)[n] = <<>> THEN {} ELSE r.state[n]],
     !.records = <<>>]

TruncateAfter(r, onDisk, t) ==
  LET truncated == IF ~mode.persistent THEN TruncateInMemory(r, t)
                   ELSE IF onDisk # <<>> THEN RebuildFrom(r, onDisk, t)
                   ELSE PruneOnly(r, t)
  IN [truncated EXCEPT !.pending = <<>>, !.audit_ceiling = t]

-----------------------------------------------------------------------------
(* Reads *)

Output(f) == {f} \ mode.silent

\* Faulty variant: also finds what was made in tick t.
LatestUpTo(n, t) == {Output(f) : f \in LastOf(UpTo(rs.edges[n], t))}

\* resolve(n, "latest", t): the last firing in the window before tick t.
Latest(n, t) == {Output(f) : f \in LastOf(UpTo(rs.edges[n], t - 1))}

\* The backend's firing_at(n, k): None too if there is no such firing.
FiringAt(n, k) ==
  LET own == KeepFirst(FiringsOf(rows, n))
  IN IF k <= Len(own) THEN Output(own[k]) ELSE {}

\* resolve(n, "index", k): the window, then the backend, of whose answers None
\* is taken for Missing.
Index(n, k) ==
  LET first == rs.fire_counts[n] - Len(rs.edges[n]) + 1
  IN IF k \in first .. rs.fire_counts[n] THEN {Output(rs.edges[n][k - first + 1])}
     ELSE IF mode.persistent THEN {FiringAt(n, k)} \ {{}}
     ELSE {}

\* Faulty variant: every row counts.
AuditUnbounded == IF mode.persistent THEN KeepFirst(rows \o rs.pending) ELSE rs.records

\* audit() flushes first, so pending firings count as rows.
Audit ==
  IF mode.persistent THEN KeepFirst(UpTo(rows \o rs.pending, rs.audit_ceiling))
  ELSE rs.records

-----------------------------------------------------------------------------
(* The runner *)

Init ==
  /\ mode \in Modes
  /\ rs = Fresh
  /\ rows = <<>>
  /\ snapshots = [t \in 1 .. MaxTicks |-> {}]
  /\ checkpoints = [l \in Labels |-> {}]
  /\ tick_count = 0
  /\ pc = "user"
  /\ todo = <<>>
  /\ plan = [t \in 0 .. MaxTicks - 1 |-> {}]
  /\ restores = 0
  /\ timeline = <<>>

\* The nodes that may fire in tick t: what a pure run fired there before; in
\* tick 0 always the starts, of which the parser demands one; later perhaps none.
Batches(t) ==
  IF (mode.pure \/ t = 0) /\ plan[t] # {} THEN plan[t]
  ELSE IF t = 0 THEN (SUBSET Nodes) \ {{}}
  ELSE SUBSET Nodes

\* tick() starts and computes what is fireable.
BeginTick ==
  /\ pc = "user"
  /\ tick_count < MaxTicks
  /\ pc' = "tick"
  /\ \E F \in Batches(tick_count) :
       /\ todo' = Select(Order, {i \in DOMAIN Order : Order[i] \in F})
       /\ plan' = IF mode.pure \/ tick_count = 0 THEN [plan EXCEPT ![tick_count] = {F}] ELSE plan
  /\ UNCHANGED <<mode, rs, rows, snapshots, checkpoints, tick_count, restores, timeline>>

\* The next body has returned.
Fire ==
  /\ pc = "tick"
  /\ todo # <<>>
  /\ LET f == [tick |-> tick_count, node |-> Head(todo),
             epoch |-> IF mode.pure THEN 0 ELSE restores]
     IN /\ rs' = Record(rs, f)
        /\ timeline' = Append(timeline, f)
  /\ todo' = Tail(todo)
  /\ UNCHANGED <<mode, rows, snapshots, checkpoints, tick_count, pc, plan, restores>>

\* All bodies have returned: the tick is counted, end hooks run.
Settle ==
  /\ pc = "tick"
  /\ todo = <<>>
  /\ tick_count' = tick_count + 1
  /\ pc' = "settled"
  /\ UNCHANGED <<mode, rs, rows, snapshots, checkpoints, todo, plan, restores, timeline>>

\* _persist_tick flushes the firings ...
Flush ==
  /\ pc = "settled"
  /\ rows' = rows \o rs.pending
  /\ rs' = [rs EXCEPT !.pending = <<>>]
  /\ pc' = "flushed"
  /\ UNCHANGED <<mode, snapshots, checkpoints, tick_count, todo, plan, restores, timeline>>

\* timeline goes along so that a restored run can be compared with it.
Snapshot ==
  [tick |-> tick_count, edges |-> rs.edges, fire_counts |-> rs.fire_counts,
   state |-> rs.state, records |-> rs.records, timeline |-> timeline]

\* ... and saves a snapshot for the tick; not with a NullBackend.
SaveSnapshot ==
  /\ pc = "flushed"
  /\ snapshots' = IF mode.persistent THEN [snapshots EXCEPT ![tick_count] = {Snapshot}]
                  ELSE snapshots
  /\ pc' = "user"
  /\ UNCHANGED <<mode, rs, rows, checkpoints, tick_count, todo, plan, restores, timeline>>

\* Users act between ticks; hooks and other tasks within one, but not between
\* the two writes of _persist_tick.
MayAct == pc = "user" \/ (mode.midtick /\ pc # "flushed")

\* audit() called by a user or a hook flushes what is pending.
AuditFlushes ==
  /\ mode.keep_records /\ mode.persistent
  /\ MayAct
  /\ rs.pending # <<>>
  /\ rows' = rows \o rs.pending
  /\ rs' = [rs EXCEPT !.pending = <<>>]
  /\ UNCHANGED <<mode, snapshots, checkpoints, tick_count, pc, todo, plan, restores, timeline>>

\* Only those are of interest that may still be restored within the bound.
Checkpoint(l) ==
  /\ MayAct
  /\ restores < MaxRestores
  /\ checkpoints' = [checkpoints EXCEPT ![l] = {Snapshot}]
  /\ UNCHANGED <<mode, rs, rows, snapshots, tick_count, pc, todo, plan, restores, timeline>>

\* restore(snap) of a runner whose backend holds the rows onDisk.
Restore(snap, onDisk) ==
  LET loaded == [Fresh EXCEPT !.edges = snap.edges, !.fire_counts = snap.fire_counts,
                              !.state = snap.state, !.records = snap.records]
  IN /\ restores < MaxRestores
     /\ rs' = TruncateAfter(loaded, onDisk, snap.tick - 1)
     /\ tick_count' = snap.tick
     /\ timeline' = UpTo(snap.timeline, snap.tick - 1)
     /\ restores' = restores + 1
     /\ pc' = "user"
     /\ todo' = <<>>
     /\ UNCHANGED <<mode, plan>>

Rollback(l) ==
  /\ pc = "user"
  /\ \E snap \in checkpoints[l] : Restore(snap, rows)
  /\ UNCHANGED <<rows, snapshots, checkpoints>>

\* What a crash leaves of the batch that is being flushed: any part of it.
Torn == IF pc = "settled" THEN {SubSeq(rs.pending, 1, k) : k \in 0 .. Len(rs.pending)} ELSE {<<>>}

SavedTicks == {t \in DOMAIN snapshots : snapshots[t] # {}}

\* The process dies; a new runner on the same session restores the snapshot of
\* the latest tick.
CrashAndResume ==
  /\ mode.crashes
  /\ SavedTicks # {}
  /\ \E t \in SavedTicks, batch \in Torn :
       /\ \A u \in SavedTicks : u <= t
       /\ rows' = rows \o batch
       /\ \E snap \in snapshots[t] : Restore(snap, rows')
  /\ UNCHANGED <<snapshots, checkpoints>>

\* The same in the very first tick: there is nothing to restore.
CrashAndStartOver ==
  /\ mode.crashes
  /\ SavedTicks = {}
  /\ restores < MaxRestores
  /\ restores' = restores + 1
  /\ \E batch \in Torn : rows' = rows \o batch
  /\ rs' = Fresh
  /\ tick_count' = 0
  /\ timeline' = <<>>
  /\ pc' = "user"
  /\ todo' = <<>>
  /\ UNCHANGED <<mode, snapshots, checkpoints, plan>>

\* A checkpoint or a tick's snapshot is restored into a new runner, with a
\* backend of its own.
Fork ==
  /\ mode.forks
  /\ pc = "user"
  /\ \E snap \in UNION ({checkpoints[l] : l \in Labels} \cup {snapshots[t] : t \in DOMAIN snapshots}) :
       Restore(snap, <<>>)
  /\ rows' = <<>>
  /\ snapshots' = [t \in DOMAIN snapshots |-> {}]
  /\ checkpoints' = [l \in Labels |-> {}]

Next ==
  \/ BeginTick
  \/ Fire
  \/ Settle
  \/ Flush
  \/ SaveSnapshot
  \/ AuditFlushes
  \/ \E l \in Labels : Checkpoint(l) \/ Rollback(l)
  \/ CrashAndResume
  \/ CrashAndStartOver
  \/ Fork

Spec == Init /\ [][Next]_vars

-----------------------------------------------------------------------------
(* Properties *)

\* The layers keep their types, and the window its size.
RunStateTypeOK ==
  /\ mode \in Modes
  /\ tick_count \in 0 .. MaxTicks
  /\ pc \in {"user", "tick", "settled", "flushed"}
  /\ restores \in 0 .. MaxRestores
  /\ \A s \in {rows, timeline, rs.records, rs.pending} : ToSet(s) \subseteq Firing
  /\ \A n \in Nodes :
       /\ Len(rs.edges[n]) <= 2
       /\ ToSet(rs.edges[n]) \subseteq Firing
       /\ rs.fire_counts[n] \in Nat
       /\ rs.state[n] \subseteq Firing
  /\ rs.audit_ceiling \in -1 .. MaxTicks - 1

\* The window, the ordinals and the states all speak of the same history.
\* They agree with the firings of the current run, through every flush,
\* checkpoint, rollback and restart.
LayersAgree ==
  \A n \in Nodes :
    LET fired == FiringsOf(timeline, n)
    IN /\ rs.fire_counts[n] = Len(fired)
       /\ IsSuffix(rs.edges[n], fired)
       /\ rs.edges[n] = <<>> => fired = <<>>
       /\ rs.state[n] = LastOf(fired)

\* An input reads what was really produced.  `latest` finds the producer's last
\* output before the tick, and A[k] its k-th, from memory or from disk; an A[k]
\* outside the window may be Missing, with a backend only where the output was
\* None, but it is never the output of another firing.
ReadsRight ==
  \A n \in Nodes :
    LET fired == FiringsOf(timeline, n)
    IN /\ Latest(n, tick_count) = {Output(f) : f \in LastOf(UpTo(fired, tick_count - 1))}
       /\ \A k \in 1 .. Len(fired) :
            \/ Index(n, k) = {Output(fired[k])}
            \/ /\ Index(n, k) = {}
               /\ k <= Len(fired) - Len(rs.edges[n])
               /\ ~mode.persistent \/ fired[k] \in mode.silent

\* Between ticks, audit() lists each firing of the current run once, in order:
\* replays, rewinds and restarts neither repeat nor drop any.
AuditRight == mode.keep_records /\ pc = "user" => Audit = timeline

\* A[k] of a firing that has not happened is Missing (README: "A producer with
\* no qualifying fire yields Missing"), also after a rollback.
NoFutureRead ==
  \A n \in Nodes : \A k \in 1 .. MaxTicks :
    k > Len(FiringsOf(timeline, n)) => Index(n, k) = {}

=============================================================================
