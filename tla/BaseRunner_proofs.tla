-------------------------- MODULE BaseRunner_proofs --------------------------
(***************************************************************************)
(* What Runner and AsyncRunner have in common.                             *)
(*                                                                         *)
(* The types: the helpers keep them, and so do the user's operations and   *)
(* the steps of a tick that both runners share word for word.              *)
(*                                                                         *)
(* The tokens: both runners keep their marking and their history in step.  *)
(* The inductive invariant says more than the properties: outside a tick   *)
(* the marking is exactly what the recorded firings amount to, and inside  *)
(* one the engine's m_next is that marking with the consumption of the     *)
(* nodes fired so far and the writes of the edges written so far.          *)
(***************************************************************************)
EXTENDS BaseRunner, Sequences, TLAPS

\* Between calls, and before a loop enters its next tick, the locals of tick()
\* are gone.  TypeOK is not inductive without it: a remap or a rollback would
\* leave fireable and firings pointing at nodes and records that are no more.
NoLocals == pc \in {"user", "loop"} => fireable = {} /\ firings = {}

TypeInv == TypeOK /\ NoLocals

-----------------------------------------------------------------------------
(* The helpers keep the types *)

LEMMA GraphTypes ==
  ASSUME NEW g \in Graphs
  PROVE  /\ g.nodes \subseteq AllNodes
         /\ g.edges \subseteq AllEdges
         /\ g.starts \subseteq g.nodes
         /\ \A e \in g.edges : e.src \in g.nodes /\ e.dst \in g.nodes
         /\ Slots(g) \subseteq AllNodes \X AllNodes
  <1>1. g.nodes \subseteq AllNodes /\ g.edges \subseteq AllEdges
    BY DEF AllNodes, AllEdges
  <1>2. g.starts \subseteq g.nodes
    BY GraphsAssumption DEF IsGraph
  <1>3. \A e \in g.edges : e.src \in g.nodes /\ e.dst \in g.nodes
    BY GraphsAssumption DEF IsGraph
  <1> QED BY <1>1, <1>2, <1>3 DEF Slots

LEMMA MarkingTypes ==
  ASSUME NEW g \in Graphs
  PROVE  /\ Bootstrap(g) \in Marking
         /\ \A m \in Marking : PortMarking(g, m) \in Marking
         /\ \A m \in Marking, n \in AllNodes : Consume(g, n, m) \in Marking
         /\ \A m \in Marking, e \in g.edges, v \in BOOLEAN : Produce(e, v, m) \in Marking
         /\ \A m : Fireable(g, m) \subseteq g.nodes
  <1>1. Bootstrap(g) \in Marking
    BY GraphTypes DEF Bootstrap, Marking
  <1>2. \A m \in Marking : PortMarking(g, m) \in Marking
    BY GraphTypes DEF PortMarking, Marking
  <1>3. \A m \in Marking, n \in AllNodes : Consume(g, n, m) \in Marking
    BY DEF Consume, Marking
  <1>4. \A m \in Marking, e \in g.edges, v \in BOOLEAN : Produce(e, v, m) \in Marking
    <2> TAKE m \in Marking, e \in g.edges, v \in BOOLEAN
    <2>1. <<e.dst, e.src>> \in AllNodes \X AllNodes
      BY GraphTypes
    <2> QED BY <2>1 DEF Produce, Marking
  <1>5. \A m : Fireable(g, m) \subseteq g.nodes
    BY DEF Fireable
  <1> QED BY <1>1, <1>2, <1>3, <1>4, <1>5

LEMMA NewRecordType ==
  ASSUME TypeOK, NEW n \in AllNodes, NEW outcome \in Outcomes
  PROVE  NewRecord(n, outcome) \in NodeState
  <1>1. (\E r \in records : r.tick = tick_count /\ r.node = n) \in BOOLEAN
    OBVIOUS
  <1> QED BY <1>1 DEF TypeOK, NewRecord, NodeState

LEMMA SnapshotType == TypeOK => Snapshot \in Snapshots
  BY DEF TypeOK, Snapshot, Snapshots

-----------------------------------------------------------------------------
(* The type invariant *)

LEMMA TypeBaseInit == BaseInit => TypeInv
  <1> SUFFICES ASSUME BaseInit PROVE TypeInv
    OBVIOUS
  <1> USE DEF BaseInit
  <1>1. marking \in Marking
    BY MarkingTypes
  <1>2. checkpoints \in [Labels -> SUBSET Snapshots]
    OBVIOUS
  <1> QED BY <1>1, <1>2 DEF TypeInv, TypeOK, NoLocals, Statuses, PCs

LEMMA TypeUser == TypeInv /\ UserStep => TypeInv'
  <1> SUFFICES ASSUME TypeInv, UserStep PROVE TypeInv'
    OBVIOUS
  <1> USE DEF TypeInv, NoLocals, run, call
  <1>1. CASE Cancel
    BY <1>1 DEF Cancel, TypeOK, Statuses, Terminal
  <1>2. CASE Reset
    BY <1>2 DEF Reset, TypeOK, Statuses
  <1>3. CASE \E l \in Labels : Checkpoint(l)
    <2>1. PICK l \in Labels : Checkpoint(l)
      BY <1>3
    <2>2. {Snapshot} \in SUBSET Snapshots
      BY SnapshotType
    <2>3. checkpoints' \in [Labels -> SUBSET Snapshots]
      BY <2>1, <2>2 DEF Checkpoint, TypeOK
    <2> QED BY <2>1, <2>3 DEF Checkpoint, TypeOK
  <1>4. CASE \E g \in Graphs : RemapGraph(g)
    <2>1. PICK g \in Graphs : RemapGraph(g)
      BY <1>4
    <2>2. marking' \in Marking /\ m_next' \in Marking
      BY <2>1, MarkingTypes DEF RemapGraph, TypeOK
    <2>3. status' \in Statuses /\ cancel_reason' \in BOOLEAN
      BY <2>1 DEF RemapGraph, TypeOK, Statuses
    <2> QED BY <2>1, <2>2, <2>3 DEF RemapGraph, KeepNodes, TypeOK
  <1>5. CASE CallTick
    <2>1. fireable' \subseteq graph.nodes
      BY <1>5, MarkingTypes DEF CallTick, EnterTick, TypeOK
    <2> QED BY <1>5, <2>1 DEF CallTick, EnterTick, TypeOK, PCs
  <1>6. CASE CallRunUntilIdle
    BY <1>6 DEF CallRunUntilIdle, TypeOK, PCs
  <1> QED BY <1>1, <1>2, <1>3, <1>4, <1>5, <1>6 DEF UserStep

LEMMA TypeRollback ==
  ASSUME NEW l \in Labels, TypeInv, Rollback(l)
  PROVE  TypeInv'
  <1> USE DEF TypeInv, NoLocals
  <1>1. PICK snap \in checkpoints[l] : pc = "user" /\ Restore(snap)
    BY DEF Rollback
  <1>2. snap \in Snapshots
    BY <1>1 DEF TypeOK
  <1>3. /\ tick_count' \in Nat /\ marking' \in Marking /\ m_next' \in Marking
        /\ records' \subseteq NodeState /\ window' \subseteq NodeState
    BY <1>1, <1>2 DEF Restore, Snapshots, TruncateAfter
  <1>4. status' \in Statuses /\ cancel_reason' \in BOOLEAN
    BY <1>1, <1>2 DEF Restore, Snapshots, Statuses
  <1> QED BY <1>1, <1>3, <1>4 DEF Restore, TypeOK

\* The steps of tick() and run_until_idle() that do not depend on the runner.
SharedStep ==
  \/ LoopTest
  \/ BeginEngine("phase_a")
  \/ \E r \in firings, e \in graph.edges, v \in BOOLEAN : pc = "phase_b" /\ WriteEdge(r, e, v)
  \/ Commit
  \/ Settle
  \/ EndTick

LEMMA TypeShared == TypeInv /\ SharedStep => TypeInv'
  <1> SUFFICES ASSUME TypeInv, SharedStep PROVE TypeInv'
    OBVIOUS
  <1> USE DEF TypeInv, NoLocals, run, call
  <1>1. CASE LoopTest
    <2>1. fireable' \subseteq graph.nodes
      BY <1>1, MarkingTypes DEF LoopTest, EnterTick, TypeOK
    <2>2. loop' \in SUBSET RunArgs
      BY <1>1 DEF LoopTest, TypeOK
    <2>3. NoLocals' /\ pc' \in PCs
      BY <1>1 DEF LoopTest, EnterTick, PCs
    <2> QED BY <1>1, <2>1, <2>2, <2>3 DEF LoopTest, EnterTick, TypeOK
  <1>2. CASE BeginEngine("phase_a")
    BY <1>2 DEF BeginEngine, TypeOK, PCs
  <1>3. CASE \E r \in firings, e \in graph.edges, v \in BOOLEAN :
                  pc = "phase_b" /\ WriteEdge(r, e, v)
    <2>1. PICK r \in firings, e \in graph.edges, v \in BOOLEAN : WriteEdge(r, e, v)
      BY <1>3
    <2> DEFINE s == [r EXCEPT !.edges_fired = @ \cup {<<e, v>>}]
    <2>2. r \in NodeState /\ <<e, v>> \in AllEdges \X BOOLEAN
      BY GraphTypes DEF TypeOK
    <2>3. s \in NodeState
      BY <2>2 DEF NodeState
    <2>4. m_next' \in Marking
      BY <2>1, MarkingTypes DEF WriteEdge, TypeOK
    <2>5. firings' = (firings \ {r}) \cup {s} /\ records' = (records \ {r}) \cup {s}
      BY <2>1 DEF WriteEdge
    <2> HIDE DEF s
    <2>6. pc = "phase_b"
      BY <1>3
    <2> QED BY <2>1, <2>3, <2>4, <2>5, <2>6 DEF WriteEdge, TypeOK
  <1>4. CASE Commit
    BY <1>4 DEF Commit, TypeOK, PCs
  <1>5. CASE Settle
    BY <1>5 DEF Settle, Verdict, TypeOK, PCs, Statuses, Terminal
  <1>6. CASE EndTick
    BY <1>6 DEF EndTick, TypeOK, PCs
  <1> QED BY <1>1, <1>2, <1>3, <1>4, <1>5, <1>6 DEF SharedStep

LEMMA TypeUnwind == TypeInv /\ Unwind => TypeInv'
  BY DEF Unwind, TypeInv, NoLocals, TypeOK, PCs, run

-----------------------------------------------------------------------------
(* No foreign token *)

\* Marking m speaks of the current graph only.
IsOwn(m) == m.tokens \subseteq Slots(graph) /\ m.armed \subseteq graph.starts

OwnTokens ==
  /\ IsOwn(marking)
  /\ IsOwn(m_next)
  /\ \A l \in Labels : \A snap \in checkpoints[l] : IsOwn(snap.marking)

\* A rollback must not lead back to a marking of another graph.
GraphOrHistoryStays == Labels = {} \/ Remaps = {}

LEMMA OwnInit == BaseInit => OwnTokens
  BY DEF BaseInit, Bootstrap, OwnTokens, IsOwn

LEMMA OwnUser ==
  ASSUME GraphOrHistoryStays, OwnTokens, TypeOK, UserStep
  PROVE  OwnTokens'
  <1> USE DEF OwnTokens, IsOwn, run, call
  <1>1. CASE Cancel \/ Reset \/ CallTick \/ CallRunUntilIdle
    BY <1>1 DEF Cancel, Reset, CallTick, EnterTick, CallRunUntilIdle
  <1>2. CASE \E l \in Labels : Checkpoint(l)
    <2>1. PICK l \in Labels : Checkpoint(l)
      BY <1>2
    <2>2. Snapshot.marking = marking
      BY DEF Snapshot
    <2>3. \A k \in Labels : \A snap \in checkpoints'[k] : snap \in checkpoints[k] \/ snap = Snapshot
      BY <2>1 DEF Checkpoint, TypeOK
    <2> QED BY <2>1, <2>2, <2>3 DEF Checkpoint
  <1>3. CASE \E g \in Graphs : RemapGraph(g)
    <2>1. PICK g \in Graphs : RemapGraph(g)
      BY <1>3
    <2>2. Labels = {}
      BY <2>1 DEF RemapGraph, GraphOrHistoryStays
    <2>3. /\ PortMarking(g, marking).tokens \subseteq Slots(g)
          /\ PortMarking(g, marking).armed \subseteq g.starts
      BY DEF PortMarking
    <2> QED BY <2>1, <2>2, <2>3 DEF RemapGraph
  <1> QED BY <1>1, <1>2, <1>3 DEF UserStep

LEMMA OwnRollback ==
  ASSUME OwnTokens, NEW l \in Labels, Rollback(l)
  PROVE  OwnTokens'
  BY DEF OwnTokens, IsOwn, Rollback, Restore

LEMMA OwnShared ==
  ASSUME OwnTokens, SharedStep \/ Unwind
  PROVE  OwnTokens'
  <1> USE DEF OwnTokens, IsOwn, run, call
  <1>1. CASE \E r \in firings, e \in graph.edges, v \in BOOLEAN : pc = "phase_b" /\ WriteEdge(r, e, v)
    <2>1. PICK r \in firings, e \in graph.edges, v \in BOOLEAN : WriteEdge(r, e, v)
      BY <1>1
    <2>2. m_next' = Produce(e, v, m_next) /\ UNCHANGED <<graph, marking, checkpoints>>
      BY <2>1 DEF WriteEdge
    <2>3. <<e.dst, e.src>> \in Slots(graph)
      BY DEF Slots
    <2>4. /\ Produce(e, v, m_next).tokens \subseteq m_next.tokens \cup {<<e.dst, e.src>>}
          /\ Produce(e, v, m_next).armed \subseteq m_next.armed
      BY DEF Produce
    <2> QED BY <2>2, <2>3, <2>4
  <1>2. CASE LoopTest \/ BeginEngine("phase_a") \/ Commit \/ Settle \/ EndTick \/ Unwind
    BY <1>2 DEF LoopTest, EnterTick, BeginEngine, Commit, Settle, EndTick, Unwind
  <1> QED BY <1>1, <1>2 DEF SharedStep

-----------------------------------------------------------------------------
(* The tokens *)

\* No checkpoint is taken from an on_fire hook, and the graph stays.
Steady ==
  /\ "fire_hooks" \notin CheckpointAt
  /\ Remaps = {}

-----------------------------------------------------------------------------
(* The inductive invariant *)

\* The records below tick t.
Below(recs, t) == {r \in recs : r.tick < t}

Due(recs, d, s) ==
  \E r \in recs :
     /\ r.node = s
     /\ d \in HandedTo(r)
     /\ \A q \in recs : q.node \in {d, s} => q.tick <= r.tick

\* Marking m of graph g is what the firings in recs amount to.
Faithful(g, m, recs) ==
  /\ m.tokens \subseteq Slots(g)
  /\ \A slot \in Slots(g) : slot \in m.tokens <=> Due(recs, slot[1], slot[2])
  /\ m.armed = {n \in g.starts : \A r \in recs : r.node # n}

Engine == {"phase_a", "phase_b"}

\* The records of the tick under way are its firings, those before it are done.
CurrentTick ==
  IF pc \in Engine \cup {"fire_hooks"}
    THEN /\ firings = {r \in records : r.tick = tick_count}
         /\ \A r \in records : r.tick <= tick_count
    ELSE /\ \A r \in records : r.tick < tick_count
         /\ pc = "start_hooks" => firings = {}

MarkingInv ==
  /\ Faithful(graph, marking, Committed)
  /\ pc \notin Engine => m_next = marking

OncePerTick(recs) ==
  \A r, q \in recs : r.tick = q.tick /\ r.node = q.node => r = q

SavedInv ==
  \A l \in Labels : \A snap \in checkpoints[l] :
     LET recs == Below(snap.records, snap.tick)
     IN Faithful(graph, snap.marking, recs) /\ OncePerTick(recs)

\* Edges are written in the order of the edge list, each once.
WrittenInv ==
  \A r \in firings :
     /\ Written(r) \subseteq OutEdges(graph, r.node)
     /\ \A e \in Written(r), f \in Unwritten(r) : e.pos < f.pos

\* What Phase B has made of slot <<d, s>>: the last edge written decides.
Rewritten(r, d) == \E e \in Written(r) : e.dst = d

NextInv ==
  pc \in Engine =>
    /\ m_next.tokens \subseteq Slots(graph)
    /\ m_next.armed = marking.armed \ Fired
    /\ \A slot \in Slots(graph) :
         slot \in m_next.tokens <=>
           IF \E r \in firings : r.node = slot[2] /\ Rewritten(r, slot[1])
             THEN \E r \in firings : r.node = slot[2] /\ slot[1] \in HandedTo(r)
             ELSE slot \in marking.tokens /\ slot[1] \notin Fired

PhaseAInv == pc = "phase_a" => \A r \in firings : r.edges_fired = {}

TokenInv ==
  /\ TypeInv
  /\ OncePerTick(records)
  /\ CurrentTick
  /\ MarkingInv
  /\ SavedInv
  /\ WrittenInv
  /\ NextInv
  /\ PhaseAInv

-----------------------------------------------------------------------------
(* What writing one edge makes of a firing *)

LEMMA HandOver ==
  ASSUME NEW r \in NodeState, NEW s \in NodeState, NEW e \in AllEdges, NEW v \in BOOLEAN,
         s.edges_fired = r.edges_fired \cup {<<e, v>>},
         \A w \in Written(r) : w.pos < e.pos /\ w.src = e.src,
         \A f \in AllEdges : f.pos \in Int
  PROVE  /\ Written(s) = Written(r) \cup {e}
         /\ e.dst \in HandedTo(s) <=> v
         /\ \A d : d # e.dst => (d \in HandedTo(s) <=> d \in HandedTo(r))
  <1>1. Written(s) = Written(r) \cup {e}
    <2>1. <<e, v>>[1] = e
      OBVIOUS
    <2> QED BY <2>1 DEF Written
  <1>2. \A x \in r.edges_fired : x[1] \in Written(r) /\ x[1] \in AllEdges
    BY DEF Written, NodeState
  <1>3. IsLastEdge(Written(s), e)
    <2>1. \A f \in Written(s) : f = e \/ f \in Written(r)
      BY <1>1
    <2>2. \A f \in Written(r) : f \in AllEdges
      BY DEF Written, NodeState
    <2> QED BY <2>1, <2>2 DEF IsLastEdge
  <1>4. \A x \in r.edges_fired : x[1].dst = e.dst => ~IsLastEdge(Written(s), x[1])
    <2> SUFFICES ASSUME NEW x \in r.edges_fired, x[1].dst = e.dst
                 PROVE  ~IsLastEdge(Written(s), x[1])
      OBVIOUS
    <2>1. x[1].pos < e.pos /\ x[1].src = e.src /\ x[1].pos \in Int /\ e.pos \in Int
      BY <1>2
    <2> QED BY <1>1, <2>1 DEF IsLastEdge
  <1>5. \A x \in r.edges_fired : x[1].dst # e.dst =>
          (IsLastEdge(Written(s), x[1]) <=> IsLastEdge(Written(r), x[1]))
    BY <1>1 DEF IsLastEdge
  <1>6. e.dst \in HandedTo(s) <=> v
    <2>1. ASSUME v PROVE e.dst \in HandedTo(s)
      <3>1. <<e, v>> \in s.edges_fired /\ <<e, v>>[1] = e /\ <<e, v>>[2]
        BY <2>1
      <3> QED BY <1>3, <3>1 DEF HandedTo
    <2>2. ASSUME e.dst \in HandedTo(s) PROVE v
      <3>1. PICK x \in s.edges_fired : x[2] /\ IsLastEdge(Written(s), x[1]) /\ x[1].dst = e.dst
        BY <2>2 DEF HandedTo
      <3>2. x = <<e, v>>
        BY <1>4, <3>1
      <3> QED BY <3>1, <3>2
    <2> QED BY <2>1, <2>2
  <1>7. ASSUME NEW d, d # e.dst PROVE d \in HandedTo(s) <=> d \in HandedTo(r)
    <2>1. ASSUME d \in HandedTo(s) PROVE d \in HandedTo(r)
      <3>1. PICK x \in s.edges_fired : x[2] /\ IsLastEdge(Written(s), x[1]) /\ x[1].dst = d
        BY <2>1 DEF HandedTo
      <3>2. x \in r.edges_fired
        BY <1>7, <3>1
      <3> QED BY <1>5, <1>7, <3>1, <3>2 DEF HandedTo
    <2>2. ASSUME d \in HandedTo(r) PROVE d \in HandedTo(s)
      <3>1. PICK x \in r.edges_fired : x[2] /\ IsLastEdge(Written(r), x[1]) /\ x[1].dst = d
        BY <2>2 DEF HandedTo
      <3> QED BY <1>5, <1>7, <3>1 DEF HandedTo
    <2> QED BY <2>1, <2>2
  <1> QED BY <1>1, <1>6, <1>7

-----------------------------------------------------------------------------
(* The initial states and the steps of the user *)

USE DEF Engine

LEMMA TokenInit == BaseInit => TokenInv
  <1> SUFFICES ASSUME BaseInit PROVE TokenInv
    OBVIOUS
  <1>1. TypeInv
    BY TypeBaseInit
  <1>2. graph \in Graphs /\ marking = Bootstrap(graph) /\ records = {} /\ firings = {}
        /\ pc = "user" /\ tick_count = 0 /\ checkpoints = [l \in Labels |-> {}] /\ m_next = marking
    BY DEF BaseInit
  <1>3. Committed = {}
    BY <1>2 DEF Committed
  <1>4. Faithful(graph, marking, {})
    BY <1>2 DEF Faithful, Bootstrap, Due
  <1> QED BY <1>1, <1>2, <1>3, <1>4
        DEF TokenInv, OncePerTick, CurrentTick, MarkingInv, SavedInv, WrittenInv, NextInv, PhaseAInv

\* A step that leaves the marking, the history and the firings alone, and
\* neither enters nor leaves a tick's engine, keeps every part.
LEMMA TokenFrame ==
  ASSUME TokenInv, TypeInv',
         UNCHANGED <<graph, marking, tick_count, records, checkpoints, m_next, firings>>,
         pc' = pc \/ {pc, pc'} \subseteq {"user", "loop", "start_hooks"},
         pc' = "start_hooks" => firings = {}
  PROVE  TokenInv'
  <1>1. Committed' = Committed
    BY DEF Committed, Ticks
  <1>2. CurrentTick'
    BY DEF TokenInv, CurrentTick
  <1>3. MarkingInv'
    BY <1>1 DEF TokenInv, MarkingInv
  <1>4. NextInv'
    BY DEF TokenInv, NextInv, Fired
  <1>5. WrittenInv'
    BY DEF TokenInv, WrittenInv, Unwritten
  <1>6. SavedInv' /\ OncePerTick(records)' /\ PhaseAInv'
    BY DEF TokenInv, SavedInv, OncePerTick, PhaseAInv
  <1> QED BY <1>2, <1>3, <1>4, <1>5, <1>6 DEF TokenInv

LEMMA TokenUser == Steady /\ TokenInv /\ UserStep => TokenInv'
  <1> SUFFICES ASSUME Steady, TokenInv, UserStep PROVE TokenInv'
    OBVIOUS
  <1>0. TypeInv /\ TypeInv'
    BY TypeUser DEF TokenInv
  <1>1. CASE Cancel
    BY <1>0, <1>1, TokenFrame DEF Cancel, call, TokenInv, CurrentTick
  <1>2. CASE Reset
    BY <1>0, <1>2, TokenFrame DEF Reset, call, TokenInv, CurrentTick
  <1>3. CASE \E l \in Labels : Checkpoint(l)
    <2>1. PICK l \in Labels : Checkpoint(l)
      BY <1>3
    <2>2. Faithful(graph, marking, Below(records, tick_count)) /\ OncePerTick(Below(records, tick_count))
      <3>1. Committed = Below(records, tick_count)
        BY <2>1 DEF Checkpoint, Steady, Committed, Below, Ticks
      <3> QED BY <3>1 DEF TokenInv, MarkingInv, OncePerTick, Below
    <2>3. SavedInv'
      <3>1. graph' = graph
        BY <2>1 DEF Checkpoint
      <3> SUFFICES ASSUME NEW k \in Labels, NEW snap \in checkpoints'[k]
                   PROVE  LET recs == Below(snap.records, snap.tick)
                          IN Faithful(graph, snap.marking, recs) /\ OncePerTick(recs)
        BY <3>1 DEF SavedInv
      <3>2. CASE snap \in checkpoints[k]
        BY <3>2 DEF TokenInv, SavedInv
      <3>3. CASE snap = Snapshot
        BY <2>2, <3>3 DEF Snapshot
      <3>4. snap \in checkpoints[k] \/ snap = Snapshot
        BY <1>0, <2>1 DEF Checkpoint, TypeInv, TypeOK
      <3> QED BY <3>2, <3>3, <3>4
    <2>4. UNCHANGED <<graph, marking, tick_count, records, pc, m_next, firings>>
      BY <2>1 DEF Checkpoint, call
    <2>5. Committed' = Committed /\ Fired' = Fired
      BY <2>4 DEF Committed, Ticks, Fired
    <2>6. CurrentTick' /\ MarkingInv'
      BY <2>4, <2>5 DEF TokenInv, CurrentTick, MarkingInv
    <2>7. NextInv' /\ PhaseAInv'
      BY <2>4, <2>5 DEF TokenInv, NextInv, PhaseAInv
    <2>8. WrittenInv' /\ OncePerTick(records)'
      BY <2>4 DEF TokenInv, WrittenInv, Unwritten, OncePerTick
    <2> QED BY <1>0, <2>3, <2>6, <2>7, <2>8 DEF TokenInv
  <1>4. CASE \E g \in Graphs : RemapGraph(g)
    BY <1>4 DEF RemapGraph, Steady
  <1>5. CASE CallTick
    BY <1>0, <1>5, TokenFrame DEF CallTick, EnterTick, run, TypeInv, NoLocals
  <1>6. CASE CallRunUntilIdle
    BY <1>0, <1>6, TokenFrame DEF CallRunUntilIdle, run
  <1> QED BY <1>1, <1>2, <1>3, <1>4, <1>5, <1>6 DEF UserStep

LEMMA TokenRollback ==
  ASSUME NEW l \in Labels, TokenInv, Rollback(l)
  PROVE  TokenInv'
  <1>0. TypeInv /\ TypeInv'
    BY TypeRollback DEF TokenInv
  <1>1. PICK snap \in checkpoints[l] : pc = "user" /\ Restore(snap)
    BY DEF Rollback
  <1>2. snap \in Snapshots
    BY <1>0, <1>1 DEF TypeInv, TypeOK
  <1>3. /\ tick_count' = snap.tick /\ marking' = snap.marking /\ m_next' = snap.marking
        /\ graph' = graph /\ checkpoints' = checkpoints /\ pc' = "user"
        /\ firings' = {} /\ firings = {}
    BY <1>0, <1>1 DEF Restore, TypeInv, NoLocals
  <1>4. records' = Below(snap.records, snap.tick)
    <2>1. \A r \in snap.records : r.tick \in Nat
      BY <1>2 DEF Snapshots, NodeState
    <2>2. snap.tick \in Nat
      BY <1>2 DEF Snapshots
    <2>3. records' = {r \in snap.records : r.tick <= snap.tick - 1}
      BY <1>1 DEF Restore, TruncateAfter
    <2> QED BY <2>1, <2>2, <2>3 DEF Below
  <1>5. Committed' = records'
    BY <1>3, <1>4 DEF Committed, Below, Ticks
  <1>6. Faithful(graph, snap.marking, records') /\ OncePerTick(records')
    BY <1>1, <1>4 DEF TokenInv, SavedInv
  <1>7. CurrentTick'
    BY <1>3, <1>4 DEF CurrentTick, Below
  <1>8. MarkingInv' /\ SavedInv'
    BY <1>3, <1>5, <1>6 DEF TokenInv, MarkingInv, SavedInv
  <1>9. WrittenInv' /\ NextInv' /\ PhaseAInv' /\ OncePerTick(records)'
    BY <1>3, <1>6 DEF WrittenInv, NextInv, PhaseAInv, OncePerTick
  <1> QED BY <1>0, <1>7, <1>8, <1>9 DEF TokenInv

-----------------------------------------------------------------------------
(* The steps of a tick *)

LEMMA TokenBegin ==
  ASSUME TokenInv, TypeInv', BeginEngine("phase_a")
  PROVE  TokenInv'
  <1>1. /\ pc = "start_hooks" /\ pc' = "phase_a" /\ m_next' = marking
        /\ UNCHANGED <<graph, marking, tick_count, records, checkpoints, firings>>
    BY DEF BeginEngine, run
  <1>2. firings = {} /\ \A r \in records : r.tick < tick_count
    BY <1>1 DEF TokenInv, CurrentTick
  <1>3. \A r \in records : r.tick \in Nat /\ tick_count \in Nat
    BY DEF TokenInv, TypeInv, TypeOK, NodeState
  <1>4. CurrentTick'
    BY <1>1, <1>2, <1>3 DEF CurrentTick
  <1>5. Committed' = Committed
    BY <1>1 DEF Committed, Ticks
  <1>6. MarkingInv'
    BY <1>1, <1>5 DEF TokenInv, MarkingInv
  <1>7. NextInv'
    BY <1>1, <1>2 DEF TokenInv, MarkingInv, Faithful, NextInv, Fired
  <1>8. SavedInv' /\ OncePerTick(records)' /\ WrittenInv' /\ PhaseAInv'
    BY <1>1, <1>2 DEF TokenInv, SavedInv, OncePerTick, WrittenInv, PhaseAInv
  <1> QED BY <1>4, <1>6, <1>7, <1>8 DEF TokenInv

LEMMA TokenSettle ==
  ASSUME TokenInv, TypeInv', Settle
  PROVE  TokenInv'
  <1>1. /\ pc = "fire_hooks" /\ pc' = "end_hooks" /\ tick_count' = tick_count + 1
        /\ UNCHANGED <<graph, marking, records, checkpoints, m_next, firings>>
    BY DEF Settle
  <1>2. \A r \in records : r.tick \in Nat /\ r.tick <= tick_count /\ tick_count \in Nat
    BY <1>1 DEF TokenInv, CurrentTick, TypeInv, TypeOK, NodeState
  <1>3. CurrentTick'
    BY <1>1, <1>2 DEF CurrentTick
  <1>4. Committed' = Committed
    BY <1>1 DEF Committed, Ticks
  <1>5. MarkingInv' /\ SavedInv'
    BY <1>1, <1>4 DEF TokenInv, MarkingInv, SavedInv
  <1>6. OncePerTick(records)' /\ WrittenInv' /\ PhaseAInv' /\ NextInv'
    BY <1>1 DEF TokenInv, OncePerTick, WrittenInv, Unwritten, PhaseAInv, NextInv
  <1> QED BY <1>3, <1>5, <1>6 DEF TokenInv

LEMMA TokenEndTick ==
  ASSUME TokenInv, TypeInv', EndTick
  PROVE  TokenInv'
  <1>1. /\ pc = "end_hooks" /\ pc' \in {"user", "loop"} /\ firings' = {}
        /\ UNCHANGED <<graph, marking, tick_count, records, checkpoints, m_next>>
    BY DEF EndTick, run
  <1>2. Committed' = Committed
    BY <1>1 DEF Committed, Ticks
  <1>3. CurrentTick' /\ MarkingInv' /\ SavedInv'
    BY <1>1, <1>2 DEF TokenInv, CurrentTick, MarkingInv, SavedInv
  <1>4. OncePerTick(records)' /\ WrittenInv' /\ PhaseAInv' /\ NextInv'
    BY <1>1 DEF TokenInv, OncePerTick, WrittenInv, PhaseAInv, NextInv
  <1> QED BY <1>3, <1>4 DEF TokenInv

LEMMA TokenWrite ==
  ASSUME TokenInv, TypeInv', pc = "phase_b",
         NEW r \in firings, NEW e \in graph.edges, NEW v \in BOOLEAN, WriteEdge(r, e, v)
  PROVE  TokenInv'
  <1> DEFINE s == [r EXCEPT !.edges_fired = @ \cup {<<e, v>>}]
  <1>1. /\ e \in Unwritten(r) /\ IsFirst(e, Unwritten(r))
        /\ m_next' = Produce(e, v, m_next)
        /\ firings' = (firings \ {r}) \cup {s} /\ records' = (records \ {r}) \cup {s}
        /\ UNCHANGED <<graph, marking, tick_count, checkpoints, pc>>
    BY DEF WriteEdge
  <1>2. /\ graph \in Graphs /\ r \in NodeState /\ records \subseteq NodeState
        /\ firings \subseteq records /\ tick_count \in Nat
    BY DEF TokenInv, TypeInv, TypeOK
  <1>3. /\ s \in NodeState /\ s.tick = r.tick /\ s.node = r.node
        /\ s.edges_fired = r.edges_fired \cup {<<e, v>>}
    <2>1. <<e, v>> \in AllEdges \X BOOLEAN
      BY <1>2, GraphTypes
    <2> QED BY <1>2, <2>1 DEF NodeState
  <1> HIDE DEF s
  <1>4. /\ e.src = r.node /\ e.pos \in Nat /\ e \in AllEdges
        /\ \A f \in AllEdges : f.pos \in Int
        /\ \A f \in graph.edges : f.pos = e.pos => f = e
    <2>1. e.src = r.node
      BY <1>1 DEF Unwritten, OutEdges
    <2>2. \A f \in AllEdges : f.pos \in Nat
      <3> SUFFICES ASSUME NEW g \in Graphs, NEW f \in g.edges PROVE f.pos \in Nat
        BY DEF AllEdges
      <3> QED BY GraphsAssumption DEF IsGraph
    <2>3. e \in AllEdges
      BY <1>2, GraphTypes
    <2>4. \A f \in graph.edges : f.pos = e.pos => f = e
      BY <1>2, GraphsAssumption DEF IsGraph
    <2> QED BY <2>1, <2>2, <2>3, <2>4
  <1>5. /\ Written(r) \subseteq OutEdges(graph, r.node)
        /\ \A w \in Written(r), f \in Unwritten(r) : w.pos < f.pos
    BY DEF TokenInv, WrittenInv
  <1>6. /\ Written(s) = Written(r) \cup {e}
        /\ e.dst \in HandedTo(s) <=> v
        /\ \A d : d # e.dst => (d \in HandedTo(s) <=> d \in HandedTo(r))
    <2>1. \A w \in Written(r) : w.pos < e.pos /\ w.src = e.src
      BY <1>1, <1>4, <1>5 DEF OutEdges
    <2> HIDE DEF Written, HandedTo
    <2> QED BY <1>2, <1>3, <1>4, <2>1, HandOver
  <1>7. /\ firings = {q \in records : q.tick = tick_count}
        /\ \A q \in records : q.tick <= tick_count
        /\ OncePerTick(records)
    BY DEF TokenInv, CurrentTick
  <1>8. CurrentTick'
    BY <1>1, <1>3, <1>7 DEF CurrentTick
  <1>9. Committed' = Committed
    <2>1. r.tick = tick_count /\ s.tick = tick_count
      BY <1>3, <1>7
    <2>2. Ticks = tick_count /\ Ticks' = tick_count
      BY <1>1 DEF Ticks
    <2>3. r \notin Committed /\ s \notin {q \in records' : q.tick < tick_count}
      BY <1>2, <2>1, <2>2 DEF Committed
    <2>4. Committed' = {q \in records' : q.tick < tick_count}
      BY <2>2 DEF Committed
    <2> QED BY <1>1, <2>1, <2>2, <2>3, <2>4 DEF Committed
  <1>10. MarkingInv' /\ SavedInv' /\ PhaseAInv'
    BY <1>1, <1>9 DEF TokenInv, MarkingInv, SavedInv, PhaseAInv
  <1>11. OncePerTick(records)'
    BY <1>1, <1>2, <1>3, <1>7 DEF OncePerTick
  <1>12. WrittenInv'
    <2>1. Unwritten(s) = Unwritten(r) \ {e}
      BY <1>3, <1>6 DEF Unwritten
    <2>2. Written(s) \subseteq OutEdges(graph, s.node)
      BY <1>1, <1>3, <1>5, <1>6 DEF Unwritten
    <2>3. \A w \in Written(s), f \in Unwritten(s) : w.pos < f.pos
      <3> SUFFICES ASSUME NEW w \in Written(s), NEW f \in Unwritten(r) \ {e} PROVE w.pos < f.pos
        BY <2>1
      <3>1. CASE w \in Written(r)
        BY <1>5, <3>1
      <3>2. CASE w = e
        <4>1. e.pos <= f.pos /\ f.pos # e.pos /\ f \in AllEdges
          BY <1>1, <1>2, <1>4, GraphTypes DEF IsFirst, Unwritten, OutEdges
        <4> QED BY <1>4, <3>2, <4>1
      <3> QED BY <1>6, <3>1, <3>2
    <2>4. \A q \in firings' : q = s \/ q \in firings
      BY <1>1
    <2>5. \A q \in firings' : Unwritten(q)' = Unwritten(q)
      BY <1>1 DEF Unwritten, Written
    <2> QED BY <1>1, <2>2, <2>3, <2>4, <2>5 DEF TokenInv, WrittenInv, Written
  <1>13. NextInv'
    <2>1. Fired' = Fired
      BY <1>1, <1>3 DEF Fired
    <2>2. /\ m_next.tokens \subseteq Slots(graph) /\ m_next.armed = marking.armed \ Fired
          /\ \A slot \in Slots(graph) :
               slot \in m_next.tokens <=>
                 IF \E q \in firings : q.node = slot[2] /\ Rewritten(q, slot[1])
                   THEN \E q \in firings : q.node = slot[2] /\ slot[1] \in HandedTo(q)
                   ELSE slot \in marking.tokens /\ slot[1] \notin Fired
      BY DEF TokenInv, NextInv
    <2>3. /\ m_next'.tokens = IF v THEN m_next.tokens \cup {<<e.dst, e.src>>}
                                   ELSE m_next.tokens \ {<<e.dst, e.src>>}
          /\ m_next'.armed = m_next.armed
      <3>1. m_next \in Marking
        BY DEF TokenInv, TypeInv, TypeOK
      <3> QED BY <1>1, <3>1 DEF Produce, Marking
    <2>4. \A q \in firings : q.node = r.node => q = r
      BY <1>7 DEF OncePerTick
    <2>5. \A d : Rewritten(s, d) <=> Rewritten(r, d) \/ d = e.dst
      BY <1>6 DEF Rewritten
    <2>6. <<e.dst, e.src>> \in Slots(graph)
      BY DEF Slots
    <2>7. ASSUME NEW slot \in Slots(graph)
          PROVE  slot \in m_next'.tokens <=>
                   IF \E q \in firings' : q.node = slot[2] /\ Rewritten(q, slot[1])
                     THEN \E q \in firings' : q.node = slot[2] /\ slot[1] \in HandedTo(q)
                     ELSE slot \in marking.tokens /\ slot[1] \notin Fired
      <3>0. slot = <<slot[1], slot[2]>>
        BY <2>7 DEF Slots
      <3>1. CASE slot[2] # r.node
        <4>1. slot # <<e.dst, e.src>>
          BY <1>4, <3>1
        <4>2. \A q : q.node = slot[2] => (q \in firings' <=> q \in firings)
          BY <1>1, <1>3, <3>1
        <4>3. slot \in m_next'.tokens <=> slot \in m_next.tokens
          BY <2>3, <4>1
        <4> QED BY <2>2, <2>7, <4>2, <4>3
      <3>2. CASE slot[2] = r.node
        <4>1. \A q \in firings' : q.node = slot[2] <=> q = s
          BY <1>1, <1>3, <2>4, <3>2
        <4>2. \A q \in firings : q.node = slot[2] <=> q = r
          BY <2>4, <3>2
        <4>3. s \in firings'
          BY <1>1
        <4>4. slot \in m_next.tokens <=>
                IF Rewritten(r, slot[1]) THEN slot[1] \in HandedTo(r)
                                         ELSE slot \in marking.tokens /\ slot[1] \notin Fired
          BY <2>2, <2>7, <4>2
        <4>5. slot \in m_next'.tokens <=>
                IF Rewritten(s, slot[1]) THEN slot[1] \in HandedTo(s)
                                         ELSE slot \in marking.tokens /\ slot[1] \notin Fired
          <5>1. CASE slot[1] = e.dst
            <6>1. slot = <<e.dst, e.src>>
              BY <1>4, <3>0, <3>2, <5>1
            <6>2. slot \in m_next'.tokens <=> v
              BY <2>3, <6>1
            <6>3. Rewritten(s, slot[1]) /\ (slot[1] \in HandedTo(s) <=> v)
              BY <1>6, <2>5, <5>1
            <6> QED BY <6>2, <6>3
          <5>2. CASE slot[1] # e.dst
            <6>1. slot \in m_next'.tokens <=> slot \in m_next.tokens
              BY <2>3, <3>0, <5>2
            <6>2. Rewritten(s, slot[1]) <=> Rewritten(r, slot[1])
              BY <2>5, <5>2
            <6>3. slot[1] \in HandedTo(s) <=> slot[1] \in HandedTo(r)
              BY <1>6, <5>2
            <6> QED BY <4>4, <6>1, <6>2, <6>3
          <5> QED BY <5>1, <5>2
        <4> QED BY <4>1, <4>3, <4>5
      <3> QED BY <3>1, <3>2
    <2>8. m_next'.tokens \subseteq Slots(graph) /\ m_next'.armed = marking.armed \ Fired
      BY <2>2, <2>3, <2>6
    <2> QED BY <1>1, <2>1, <2>7, <2>8 DEF NextInv, Rewritten, Written, HandedTo
  <1> QED BY <1>8, <1>10, <1>11, <1>12, <1>13 DEF TokenInv

LEMMA TokenCommit ==
  ASSUME TokenInv, TypeInv', Commit
  PROVE  TokenInv'
  <1>1. /\ pc = "phase_b" /\ pc' = "fire_hooks" /\ marking' = m_next
        /\ \A r \in firings : Unwritten(r) = {}
        /\ UNCHANGED <<graph, tick_count, records, checkpoints, m_next, firings>>
    BY DEF Commit
  <1>2. /\ firings = {r \in records : r.tick = tick_count}
        /\ \A r \in records : r.tick <= tick_count /\ r.tick \in Nat
        /\ tick_count \in Nat
    BY <1>1 DEF TokenInv, CurrentTick, TypeInv, TypeOK, NodeState
  <1>3. Committed = {r \in records : r.tick < tick_count}
    BY <1>1 DEF Committed, Ticks
  <1>4. Committed' = records
    BY <1>1, <1>2 DEF Committed, Ticks
  <1>5. Faithful(graph, marking, Committed)
    BY DEF TokenInv, MarkingInv
  <1>6. /\ m_next.tokens \subseteq Slots(graph) /\ m_next.armed = marking.armed \ Fired
        /\ \A slot \in Slots(graph) :
             slot \in m_next.tokens <=>
               IF \E r \in firings : r.node = slot[2] /\ Rewritten(r, slot[1])
                 THEN \E r \in firings : r.node = slot[2] /\ slot[1] \in HandedTo(r)
                 ELSE slot \in marking.tokens /\ slot[1] \notin Fired
    BY <1>1 DEF TokenInv, NextInv
  <1>7. m_next.armed = {n \in graph.starts : \A r \in records : r.node # n}
    <2>1. marking.armed = {n \in graph.starts : \A r \in Committed : r.node # n}
      BY <1>5 DEF Faithful
    <2>2. \A r \in records : r \in Committed \/ r \in firings
      BY <1>2, <1>3
    <2> QED BY <1>2, <1>3, <1>6, <2>1, <2>2 DEF Fired
  <1>8. ASSUME NEW slot \in Slots(graph)
        PROVE  slot \in m_next.tokens <=> Due(records, slot[1], slot[2])
    <2> DEFINE d == slot[1]
               s == slot[2]
    <2>1. CASE s \in Fired
      <3>1. PICK r \in firings : r.node = s
        BY <2>1 DEF Fired
      <3>2. \A q \in firings : q.node = s => q = r
        BY <1>2, <3>1 DEF TokenInv, OncePerTick
      <3>3. Rewritten(r, d)
        <4>1. PICK e \in graph.edges : e.dst = d /\ e.src = s
          BY <1>8 DEF Slots
        <4>2. e \in Written(r)
          BY <1>1, <3>1, <4>1 DEF Unwritten, OutEdges
        <4> QED BY <4>1, <4>2 DEF Rewritten
      <3>4. slot \in m_next.tokens <=> d \in HandedTo(r)
        BY <1>6, <1>8, <3>1, <3>2, <3>3
      <3>5. d \in HandedTo(r) => Due(records, d, s)
        BY <1>2, <3>1 DEF Due
      <3>6. ASSUME Due(records, d, s) PROVE d \in HandedTo(r)
        <4>1. PICK q \in records : q.node = s /\ d \in HandedTo(q) /\ r.tick <= q.tick
          BY <1>2, <3>1, <3>6 DEF Due
        <4>2. q.tick = tick_count
          BY <1>2, <4>1
        <4> QED BY <1>2, <3>2, <4>1, <4>2
      <3> QED BY <3>4, <3>5, <3>6
    <2>2. CASE s \notin Fired
      <3>1. \A q \in firings : q.node # s
        BY <2>2 DEF Fired
      <3>2. slot \in m_next.tokens <=> slot \in marking.tokens /\ d \notin Fired
        BY <1>6, <1>8, <3>1
      <3>3. slot \in marking.tokens <=> Due(Committed, d, s)
        BY <1>5, <1>8 DEF Faithful
      <3>4. ASSUME Due(Committed, d, s), d \notin Fired PROVE Due(records, d, s)
        <4>1. PICK r \in Committed : r.node = s /\ d \in HandedTo(r)
                                      /\ \A q \in Committed : q.node \in {d, s} => q.tick <= r.tick
          BY <3>4 DEF Due
        <4>2. \A q \in records : q.node \in {d, s} => q \in Committed
          BY <1>2, <1>3, <3>1, <3>4 DEF Fired
        <4> QED BY <1>3, <4>1, <4>2 DEF Due
      <3>5. ASSUME Due(records, d, s) PROVE Due(Committed, d, s) /\ d \notin Fired
        <4>1. PICK r \in records : r.node = s /\ d \in HandedTo(r)
                                    /\ \A q \in records : q.node \in {d, s} => q.tick <= r.tick
          BY <3>5 DEF Due
        <4>2. r.tick < tick_count
          BY <1>2, <3>1, <4>1
        <4>3. Due(Committed, d, s)
          BY <1>3, <4>1, <4>2 DEF Due
        <4>4. d \notin Fired
          BY <1>2, <4>1, <4>2 DEF Fired
        <4> QED BY <4>3, <4>4
      <3> QED BY <3>2, <3>3, <3>4, <3>5
    <2> QED BY <2>1, <2>2
  <1>9. MarkingInv'
    BY <1>1, <1>4, <1>6, <1>7, <1>8 DEF MarkingInv, Faithful
  <1>10. CurrentTick' /\ SavedInv' /\ OncePerTick(records)'
    BY <1>1, <1>2 DEF TokenInv, CurrentTick, SavedInv, OncePerTick
  <1>11. WrittenInv' /\ NextInv' /\ PhaseAInv'
    BY <1>1 DEF TokenInv, WrittenInv, Unwritten, NextInv, PhaseAInv
  <1> QED BY <1>9, <1>10, <1>11 DEF TokenInv

LEMMA TokenShared ==
  ASSUME TokenInv, SharedStep
  PROVE  TokenInv'
  <1>0. TypeInv'
    BY TypeShared DEF TokenInv
  <1>1. CASE LoopTest
    BY <1>0, <1>1, TokenFrame DEF LoopTest, EnterTick, run, TokenInv, TypeInv, NoLocals
  <1>2. CASE BeginEngine("phase_a")
    BY <1>0, <1>2, TokenBegin
  <1>3. CASE \E r \in firings, e \in graph.edges, v \in BOOLEAN : pc = "phase_b" /\ WriteEdge(r, e, v)
    BY <1>0, <1>3, TokenWrite
  <1>4. CASE Commit
    BY <1>0, <1>4, TokenCommit
  <1>5. CASE Settle
    BY <1>0, <1>5, TokenSettle
  <1>6. CASE EndTick
    BY <1>0, <1>6, TokenEndTick
  <1> QED BY <1>1, <1>2, <1>3, <1>4, <1>5, <1>6 DEF SharedStep

LEMMA TokenStutters == TokenInv /\ UNCHANGED vars => TokenInv'
  <1> SUFFICES ASSUME TokenInv, UNCHANGED vars PROVE TokenInv'
    OBVIOUS
  <1>1. TypeInv'
    BY DEF vars, run, call, TokenInv, TypeInv, TypeOK, NoLocals
  <1> QED BY <1>1, TokenFrame DEF vars, run, call, TokenInv, CurrentTick

\* What the invariant comes to.
LEMMA TokenMeans ==
  TokenInv => NoPhantomToken /\ NoLostToken /\ NoStrandedStart /\ AtMostOncePerTick
  <1> SUFFICES ASSUME TokenInv
               PROVE  NoPhantomToken /\ NoLostToken /\ NoStrandedStart /\ AtMostOncePerTick
    OBVIOUS
  <1>1. \A d, s : TokenDue(d, s) <=> Due(Committed, d, s)
    BY DEF TokenDue, Due
  <1>2. Faithful(graph, marking, Committed)
    BY DEF TokenInv, MarkingInv
  <1>3. NoPhantomToken /\ NoLostToken
    BY <1>1, <1>2 DEF Faithful, NoPhantomToken, NoLostToken
  <1>4. NoStrandedStart
    BY <1>2 DEF Faithful, NoStrandedStart
  <1>5. AtMostOncePerTick
    BY DEF TokenInv, OncePerTick, AtMostOncePerTick
  <1> QED BY <1>3, <1>4, <1>5

-----------------------------------------------------------------------------
(* The log of a history *)

\* The recorded firings of the i-th tick, and the step they make.
OfTick(recs, i) == {r \in recs : r.tick = i - 1}

StepOf(now) ==
  [n \in {r.node : r \in now} |-> UNION {HandedTo(r) : r \in {q \in now : q.node = n}}]

LEMMA NetGraph ==
  /\ \A g, m : Net!Fireable(g, m) = Fireable(g, m)
  /\ \A g : Net!Slots(g) = Slots(g)
  /\ \A g, n : Net!OutEdges(g, n) = OutEdges(g, n) /\ Net!Consumers(g, n) = Consumers(g, n)
  /\ \A E, e : Net!IsLastEdge(E, e) <=> IsLastEdge(E, e)
  <1>1. \A g, n : Net!Producers(g, n) = Producers(g, n)
    BY DEF Net!Producers, Net!InEdges, Producers, InEdges
  <1>2. \A g, n, m : Net!JoinSatisfied(g, n, m) <=> JoinSatisfied(g, n, m)
    <2> TAKE g, n, m
    <2>1. Net!Producers(g, n) = Producers(g, n)
      BY <1>1
    <2> QED BY <2>1, Zenon DEF Net!JoinSatisfied, JoinSatisfied
  <1>3. \A g, m : Net!Fireable(g, m) = Fireable(g, m)
    BY <1>2 DEF Net!Fireable, Fireable
  <1>4. \A g : Net!Slots(g) = Slots(g)
    BY DEF Net!Slots, Slots
  <1>5. \A g, n : Net!OutEdges(g, n) = OutEdges(g, n)
    BY DEF Net!OutEdges, OutEdges
  <1>6. \A g, n : Net!Consumers(g, n) = Consumers(g, n)
    BY <1>5 DEF Net!Consumers, Consumers
  <1>7. \A E, e : Net!IsLastEdge(E, e) <=> IsLastEdge(E, e)
    BY DEF Net!IsLastEdge, IsLastEdge
  <1> QED BY <1>3, <1>4, <1>5, <1>6, <1>7

LEMMA LogShape ==
  ASSUME NEW recs, NEW t \in Nat
  PROVE  LogOf(recs, t) = [i \in 1 .. t |-> StepOf(OfTick(recs, i))]
  BY DEF LogOf, StepOf, OfTick

LEMMA StepShape ==
  ASSUME NEW now
  PROVE  /\ \A n : n \in DOMAIN StepOf(now) <=> \E r \in now : r.node = n
         /\ \A n \in DOMAIN StepOf(now) : \A d :
              d \in StepOf(now)[n] <=> \E r \in now : r.node = n /\ d \in HandedTo(r)
  BY DEF StepOf

\* A slot the log calls True is one whose token is due, and conversely.
LEMMA LogToken ==
  ASSUME NEW recs \in SUBSET NodeState, NEW t \in Nat, NEW d, NEW s
  PROVE  Net!Token(LogOf(recs, t), d, s) <=> Due(Below(recs, t), d, s)
  <1> DEFINE l == LogOf(recs, t)
  <1>1. DOMAIN l = 1 .. t /\ \A i \in 1 .. t : l[i] = StepOf(OfTick(recs, i))
    BY LogShape
  <1>2. \A r \in recs : r.tick \in Nat
    BY DEF NodeState
  <1>3. \A i \in 1 .. t : \A r \in OfTick(recs, i) : r \in Below(recs, t) /\ r.tick + 1 = i
    BY <1>2 DEF OfTick, Below
  <1>4. \A r \in Below(recs, t) : r.tick + 1 \in 1 .. t /\ r \in OfTick(recs, r.tick + 1)
    BY <1>2 DEF OfTick, Below
  <1> HIDE DEF l
  <1>5. ASSUME Net!Token(l, d, s) PROVE Due(Below(recs, t), d, s)
    <2>1. PICK i \in 1 .. t :
            /\ s \in DOMAIN l[i]
            /\ d \in l[i][s]
            /\ \A u \in 1 .. t : u > i => s \notin DOMAIN l[u] /\ d \notin DOMAIN l[u]
      BY <1>1, <1>5 DEF Net!Token
    <2>2. PICK r \in OfTick(recs, i) : r.node = s /\ d \in HandedTo(r)
      BY <1>1, <2>1, StepShape
    <2>3. ASSUME NEW q \in Below(recs, t), q.node \in {d, s} PROVE q.tick <= r.tick
      <3>1. q.node \in DOMAIN l[q.tick + 1] /\ q.tick + 1 \in 1 .. t
        BY <1>1, <1>4, StepShape
      <3>2. ~(q.tick + 1 > i)
        BY <2>1, <2>3, <3>1
      <3> QED BY <1>2, <1>3, <2>2, <3>1, <3>2 DEF Below
    <2> QED BY <1>3, <2>2, <2>3 DEF Due
  <1>6. ASSUME Due(Below(recs, t), d, s) PROVE Net!Token(l, d, s)
    <2>1. PICK r \in Below(recs, t) :
            /\ r.node = s
            /\ d \in HandedTo(r)
            /\ \A q \in Below(recs, t) : q.node \in {d, s} => q.tick <= r.tick
      BY <1>6 DEF Due
    <2>2. r.tick + 1 \in 1 .. t /\ s \in DOMAIN l[r.tick + 1] /\ d \in l[r.tick + 1][s]
      BY <1>1, <1>4, <2>1, StepShape
    <2>3. ASSUME NEW u \in 1 .. t, u > r.tick + 1, NEW n \in {d, s}, n \in DOMAIN l[u]
          PROVE  FALSE
      <3>1. PICK q \in OfTick(recs, u) : q.node = n
        BY <1>1, <2>3, StepShape
      <3>2. q \in Below(recs, t) /\ q.tick + 1 = u /\ q.tick <= r.tick
        BY <1>3, <2>1, <2>3, <3>1
      <3> QED BY <1>2, <2>3, <3>2 DEF Below
    <2> QED BY <1>1, <2>2, <2>3 DEF Net!Token
  <1> QED BY <1>5, <1>6 DEF l

\* The marking a log stands for is the marking its history amounts to.
LEMMA LogMarking ==
  ASSUME NEW recs \in SUBSET NodeState, NEW t \in Nat, graph \in Graphs,
         NEW m \in Marking, Faithful(graph, m, Below(recs, t))
  PROVE  Net!MarkingOf(graph, LogOf(recs, t)) = m
  <1>1. {slot \in Net!Slots(graph) : Net!Token(LogOf(recs, t), slot[1], slot[2])} = m.tokens
    BY NetGraph, LogToken DEF Faithful
  <1>2. ASSUME NEW n
        PROVE  Net!NeverFired(LogOf(recs, t), n) <=> \A r \in Below(recs, t) : r.node # n
    <2>1. /\ DOMAIN LogOf(recs, t) = 1 .. t
          /\ \A i \in 1 .. t : LogOf(recs, t)[i] = StepOf(OfTick(recs, i))
      BY LogShape
    <2>2. \A i \in 1 .. t : \A r \in OfTick(recs, i) : r \in Below(recs, t)
      BY DEF OfTick, Below, NodeState
    <2>3. \A r \in Below(recs, t) : r.tick + 1 \in 1 .. t /\ r \in OfTick(recs, r.tick + 1)
      BY DEF OfTick, Below, NodeState
    <2> QED BY <2>1, <2>2, <2>3, StepShape DEF Net!NeverFired
  <1>3. {n \in graph.starts : Net!NeverFired(LogOf(recs, t), n)} = m.armed
    BY <1>2 DEF Faithful
  <1>4. m = [tokens |-> m.tokens, armed |-> m.armed]
    BY DEF Marking
  <1> QED BY <1>1, <1>3, <1>4 DEF Net!MarkingOf

\* Only the records below tick t count.
LEMMA LogBelow ==
  ASSUME NEW recs \in SUBSET NodeState, NEW others \in SUBSET NodeState, NEW t \in Nat,
         Below(recs, t) = Below(others, t)
  PROVE  LogOf(recs, t) = LogOf(others, t)
  <1>1. \A i \in 1 .. t : OfTick(recs, i) = OfTick(others, i)
    <2>1. \A i \in 1 .. t : OfTick(recs, i) = OfTick(Below(recs, t), i)
      BY DEF OfTick, Below, NodeState
    <2>2. \A i \in 1 .. t : OfTick(others, i) = OfTick(Below(others, t), i)
      BY DEF OfTick, Below, NodeState
    <2> QED BY <2>1, <2>2
  <1> QED BY <1>1, LogShape

LEMMA LogAppend ==
  ASSUME NEW recs, NEW t \in Nat
  PROVE  /\ LogOf(recs, t + 1) = Append(LogOf(recs, t), StepOf(OfTick(recs, t + 1)))
         /\ Len(LogOf(recs, t)) = t
  <1> DEFINE f(i) == StepOf(OfTick(recs, i))
             S == {f(i) : i \in 1 .. t + 1}
  <1>1. LogOf(recs, t) = [i \in 1 .. t |-> f(i)] /\ LogOf(recs, t + 1) = [i \in 1 .. t + 1 |-> f(i)]
    BY LogShape
  <1> HIDE DEF f
  <1>2. [i \in 1 .. t |-> f(i)] \in [1 .. t -> S] /\ f(t + 1) \in S
    OBVIOUS
  <1> HIDE DEF S
  <1>3. [i \in 1 .. t |-> f(i)] \in Seq(S) /\ Len([i \in 1 .. t |-> f(i)]) = t
    BY <1>2
  <1>4. Append([i \in 1 .. t |-> f(i)], f(t + 1)) = [i \in 1 .. t + 1 |-> f(i)]
    BY <1>2, <1>3
  <1> QED BY <1>1, <1>3, <1>4 DEF f

-----------------------------------------------------------------------------
(* The runners implement the net *)

\* Until its commit a tick fires what the marking it started from enables, has
\* fired all of it when Phase B begins, and writes what the engine may write.
TickInv ==
  /\ pc \in {"start_hooks"} \cup Engine =>
       fireable = Fireable(graph, marking) /\ tick_count < MaxTicks
  /\ pc = "phase_b" => Fired = fireable
  /\ \A r \in firings : \A w \in r.edges_fired : w[2] \in EdgeValues(r, w[1])

LEMMA TickInit == BaseInit => TickInv
  BY DEF BaseInit, TickInv

LEMMA TickUser ==
  ASSUME Steady, TickInv, UserStep
  PROVE  TickInv'
  <1> USE DEF TickInv, Fired, EdgeValues, run, call
  <1>1. CASE Cancel
    BY <1>1 DEF Cancel
  <1>2. CASE Reset
    BY <1>2 DEF Reset
  <1>3. CASE \E l \in Labels : Checkpoint(l)
    BY <1>3 DEF Checkpoint
  <1>4. CASE \E g \in Graphs : RemapGraph(g)
    BY <1>4 DEF RemapGraph, Steady
  <1>5. CASE CallTick
    BY <1>5 DEF CallTick, EnterTick
  <1>6. CASE CallRunUntilIdle
    BY <1>6 DEF CallRunUntilIdle
  <1> QED BY <1>1, <1>2, <1>3, <1>4, <1>5, <1>6 DEF UserStep

LEMMA TickRollback ==
  ASSUME NEW l \in Labels, TickInv, Rollback(l)
  PROVE  TickInv'
  BY DEF Rollback, Restore, TickInv, Fired, EdgeValues

LEMMA TickShared ==
  ASSUME TypeInv, TickInv, SharedStep
  PROVE  TickInv'
  <1> USE DEF TickInv, Fired, run, call
  <1>1. CASE LoopTest
    <2>1. PICK a \in loop : IF LoopStops(a) THEN pc' = "user" ELSE EnterTick
      BY <1>1 DEF LoopTest
    <2>2. a.max \in 0 .. MaxTicks /\ tick_count \in Nat /\ MaxTicks \in Nat
      BY BaseAssumption DEF TypeInv, TypeOK
    <2>3. UNCHANGED <<graph, marking, tick_count, firings>>
      BY <1>1 DEF LoopTest
    <2>4. pc' # "user" => fireable' = Fireable(graph, marking) /\ tick_count < MaxTicks
      BY <2>1, <2>2 DEF LoopStops, EnterTick
    <2>5. pc' \in {"user", "start_hooks"}
      BY <2>1 DEF EnterTick
    <2> QED BY <2>3, <2>4, <2>5 DEF EdgeValues
  <1>2. CASE BeginEngine("phase_a")
    BY <1>2 DEF BeginEngine, EdgeValues
  <1>3. CASE \E r \in firings, e \in graph.edges, v \in BOOLEAN : pc = "phase_b" /\ WriteEdge(r, e, v)
    <2>1. PICK r \in firings, e \in graph.edges, v \in BOOLEAN : pc = "phase_b" /\ WriteEdge(r, e, v)
      BY <1>3
    <2> DEFINE s == [r EXCEPT !.edges_fired = @ \cup {<<e, v>>}]
    <2>2. /\ v \in EdgeValues(r, e) /\ firings' = (firings \ {r}) \cup {s}
          /\ UNCHANGED <<graph, marking, tick_count, pc, fireable>>
      BY <2>1 DEF WriteEdge
    <2>3. /\ s.node = r.node /\ s.outcome = r.outcome
          /\ s.edges_fired = r.edges_fired \cup {<<e, v>>}
      BY DEF TypeInv, TypeOK, NodeState
    <2> HIDE DEF s
    <2>4. \A w \in s.edges_fired : w[2] \in EdgeValues(s, w[1])
      <3>1. \A w \in s.edges_fired : w \in r.edges_fired \/ w = <<e, v>>
        BY <2>3
      <3>2. \A f : EdgeValues(s, f) = EdgeValues(r, f)
        BY <2>3 DEF EdgeValues
      <3>3. <<e, v>>[2] \in EdgeValues(s, <<e, v>>[1])
        BY <2>2, <3>2
      <3>4. \A w \in r.edges_fired : w[2] \in EdgeValues(s, w[1])
        BY <3>2
      <3> QED BY <3>1, <3>3, <3>4
    <2>5. Fired' = Fired
      BY <2>2, <2>3
    <2> QED BY <2>2, <2>4, <2>5 DEF EdgeValues
  <1>4. CASE Commit
    BY <1>4 DEF Commit, EdgeValues
  <1>5. CASE Settle
    BY <1>5 DEF Settle, EdgeValues
  <1>6. CASE EndTick
    BY <1>6 DEF EndTick
  <1> QED BY <1>1, <1>2, <1>3, <1>4, <1>5, <1>6 DEF SharedStep

LEMMA NetInit == BaseInit => Net!Init
  <1> SUFFICES ASSUME BaseInit PROVE Net!Init
    OBVIOUS
  <1>1. graph \in Graphs /\ records = {} /\ Ticks = 0 /\ checkpoints = [l \in Labels |-> {}]
    BY DEF BaseInit, Ticks
  <1>2. Log = <<>>
    BY <1>1 DEF Log, LogOf
  <1>3. Saved = [l \in Labels |-> {}]
    BY <1>1 DEF Saved
  <1> QED BY <1>1, <1>2, <1>3 DEF Net!Init

\* A step that neither counts a tick nor changes a firing of a counted one is a
\* stuttering step of the net.
LEMMA NetStutters ==
  ASSUME TypeOK, TypeOK', UNCHANGED <<graph, checkpoints>>, Ticks' = Ticks,
         Committed' = Committed
  PROVE  UNCHANGED Net!vars
  <1>1. Ticks \in Nat
    BY DEF TypeOK, Ticks
  <1>2. Committed = Below(records, Ticks) /\ Committed' = Below(records', Ticks)
    BY DEF Committed, Below
  <1>3. LogOf(records, Ticks) = LogOf(records', Ticks)
    <2>1. records \in SUBSET NodeState /\ records' \in SUBSET NodeState
      BY DEF TypeOK, NodeState
    <2>2. Below(records, Ticks) = Below(records', Ticks)
      BY <1>2
    <2> QED BY <1>1, <2>1, <2>2, LogBelow
  <1>4. Log' = Log
    BY <1>3 DEF Log, LogOf, HandedTo, IsLastEdge, Written
  <1>5. Saved' = Saved
    BY DEF Saved, LogOf, HandedTo, IsLastEdge, Written
  <1> QED BY <1>4, <1>5 DEF Net!vars

LEMMA NetUser ==
  ASSUME Steady, TokenInv, UserStep
  PROVE  [Net!Next]_(Net!vars)
  <1>0. TypeOK /\ TypeOK'
    BY TypeUser DEF TokenInv, TypeInv
  <1>1. CASE \E l \in Labels : Checkpoint(l)
    <2>1. PICK l \in Labels : Checkpoint(l)
      BY <1>1
    <2>2. /\ checkpoints' = [checkpoints EXCEPT ![l] = {Snapshot}]
          /\ UNCHANGED <<graph, records, tick_count, pc>> /\ pc # "fire_hooks"
      BY <2>1 DEF Checkpoint, call, Steady
    <2>3. Log' = Log
      BY <2>2 DEF Log, Ticks, LogOf, HandedTo, IsLastEdge, Written
    <2>4. {LogOf(snap.records, snap.tick) : snap \in {Snapshot}} = {Log}
      BY <2>2 DEF Snapshot, Log, Ticks
    <2>5. Saved' = [Saved EXCEPT ![l] = {Log}]
      <3>1. checkpoints \in [Labels -> SUBSET Snapshots]
        BY <1>0 DEF TypeOK
      <3>2. Saved' = [k \in Labels |-> {LogOf(snap.records, snap.tick) : snap \in checkpoints'[k]}]
        BY DEF Saved, LogOf, HandedTo, IsLastEdge, Written
      <3>3. \A k \in Labels : checkpoints'[k] = IF k = l THEN {Snapshot} ELSE checkpoints[k]
        BY <2>2, <3>1
      <3> QED BY <2>4, <3>2, <3>3 DEF Saved
    <2> QED BY <2>1, <2>2, <2>3, <2>5 DEF Net!Next, Net!Checkpoint
  <1>2. CASE Cancel \/ Reset \/ CallTick \/ CallRunUntilIdle
    <2>1. UNCHANGED <<graph, checkpoints, records>> /\ Ticks' = Ticks
      BY <1>2 DEF Cancel, Reset, CallTick, EnterTick, CallRunUntilIdle, run, call, Ticks
    <2>2. Committed' = Committed
      BY <2>1 DEF Committed
    <2> QED BY <1>0, <2>1, <2>2, NetStutters
  <1>3. ~ \E g \in Graphs : RemapGraph(g)
    BY DEF RemapGraph, Steady
  <1> QED BY <1>1, <1>2, <1>3 DEF UserStep

LEMMA NetRollback ==
  ASSUME NEW l \in Labels, TokenInv, Rollback(l)
  PROVE  Net!Rollback(l)
  <1>1. PICK snap \in checkpoints[l] : pc = "user" /\ Restore(snap)
    BY DEF Rollback
  <1>2. snap \in Snapshots
    BY <1>1 DEF TokenInv, TypeInv, TypeOK
  <1>3. /\ snap.tick \in Nat /\ snap.records \in SUBSET NodeState
        /\ records' = {r \in snap.records : r.tick <= snap.tick - 1}
        /\ Ticks' = snap.tick /\ UNCHANGED <<graph, checkpoints>>
    BY <1>1, <1>2 DEF Restore, TruncateAfter, Ticks, Snapshots
  <1>4. Below(records', snap.tick) = Below(snap.records, snap.tick) /\ records' \in SUBSET NodeState
    BY <1>3 DEF Below, NodeState
  <1>5. LogOf(records', snap.tick) = LogOf(snap.records, snap.tick)
    BY <1>3, <1>4, LogBelow
  <1>6. Log' = LogOf(records', snap.tick)
    BY <1>3 DEF Log, LogOf, HandedTo, IsLastEdge, Written
  <1>7. Log' \in Saved[l]
    BY <1>1, <1>5, <1>6 DEF Saved
  <1>8. Saved' = Saved
    BY <1>3 DEF Saved, LogOf, HandedTo, IsLastEdge, Written
  <1> QED BY <1>3, <1>7, <1>8 DEF Net!Rollback

\* A firing whose edges are all written delivers what the net allows.
LEMMA Delivers ==
  ASSUME TypeOK, WrittenInv, TickInv, NEW r \in firings, Unwritten(r) = {}
  PROVE  /\ HandedTo(r) \in Net!Deliveries(graph, r.node)
         /\ HandedTo(r) \subseteq graph.nodes
  <1>1. Written(r) = OutEdges(graph, r.node)
    BY DEF WrittenInv, Unwritten
  <1>2. \A w \in r.edges_fired : w[1] \in OutEdges(graph, r.node) /\ w[2] \in EdgeValues(r, w[1])
    BY <1>1 DEF Written, TickInv
  <1>3. HandedTo(r) \subseteq Consumers(graph, r.node)
    BY <1>2 DEF HandedTo, Consumers
  <1>4. HandedTo(r) \subseteq graph.nodes
    BY <1>3, GraphTypes DEF Consumers, OutEdges, TypeOK
  <1>5. CASE r.outcome \in Failures
    <2>1. HandedTo(r) = {}
      BY <1>2, <1>5 DEF HandedTo, EdgeValues
    <2> QED BY <1>4, <2>1 DEF Net!Deliveries
  <1>6. CASE r.outcome \notin Failures
    <2>1. ASSUME NEW e \in OutEdges(graph, r.node), ~e.guarded, IsLastEdge(graph.edges, e)
          PROVE  e.dst \in HandedTo(r)
      <3>1. PICK w \in r.edges_fired : w[1] = e
        BY <1>1 DEF Written
      <3>2. w[2] = TRUE
        BY <1>2, <1>6, <2>1, <3>1 DEF EdgeValues
      <3>3. IsLastEdge(Written(r), e)
        BY <1>1, <2>1 DEF IsLastEdge, OutEdges
      <3> QED BY <3>1, <3>2, <3>3 DEF HandedTo
    <2>2. Net!Forced(graph, r.node) \subseteq HandedTo(r)
      BY <2>1, NetGraph DEF Net!Forced
    <2> QED BY <1>3, <1>4, <2>2, NetGraph DEF Net!Deliveries
  <1> QED BY <1>5, <1>6

LEMMA NetCommit ==
  ASSUME TokenInv, TickInv, Commit
  PROVE  Net!Tick
  <1>1. /\ pc = "phase_b" /\ pc' = "fire_hooks"
        /\ \A r \in firings : Unwritten(r) = {}
        /\ UNCHANGED <<graph, tick_count, records, checkpoints>>
    BY DEF Commit
  <1>2. /\ TypeOK /\ tick_count \in Nat /\ records \in SUBSET NodeState /\ graph \in Graphs
        /\ marking \in Marking
    BY DEF TokenInv, TypeInv, TypeOK
  <1>3. Ticks = tick_count /\ Ticks' = tick_count + 1
    BY <1>1 DEF Ticks
  <1>4. Log = LogOf(records, tick_count)
    BY <1>3 DEF Log
  <1>5. Log' = LogOf(records, tick_count + 1)
    BY <1>1, <1>3 DEF Log, LogOf, HandedTo, IsLastEdge, Written
  <1>6. OfTick(records, tick_count + 1) = firings
    BY <1>1, <1>2 DEF OfTick, TokenInv, CurrentTick, NodeState
  <1>7. Log' = Append(Log, StepOf(firings)) /\ Len(Log) = tick_count
    BY <1>2, <1>4, <1>5, <1>6, LogAppend
  <1>8. Net!Enabled(graph, Log) = Fired
    <2>1. Faithful(graph, marking, Below(records, tick_count))
      BY <1>3 DEF TokenInv, MarkingInv, Committed, Below
    <2>2. Net!MarkingOf(graph, Log) = marking
      BY <1>2, <1>4, <2>1, LogMarking
    <2> QED BY <1>1, <2>2, NetGraph DEF Net!Enabled, TickInv
  <1>9. StepOf(firings) \in Net!Steps(graph, Fired)
    <2>1. \A r \in firings :
            HandedTo(r) \in Net!Deliveries(graph, r.node) /\ HandedTo(r) \subseteq graph.nodes
      BY <1>1, <1>2, Delivers DEF TokenInv
    <2>2. ASSUME NEW n \in Fired
          PROVE  /\ StepOf(firings)[n] \in Net!Deliveries(graph, n)
                 /\ StepOf(firings)[n] \in SUBSET graph.nodes
      <3>1. PICK r \in firings : r.node = n
        BY <2>2 DEF Fired
      <3>2. {q \in firings : q.node = n} = {r}
        BY <1>1, <3>1 DEF TokenInv, CurrentTick, OncePerTick
      <3>3. StepOf(firings)[n] = HandedTo(r)
        BY <2>2, <3>2 DEF StepOf, Fired
      <3> QED BY <2>1, <3>1, <3>3
    <2>3. StepOf(firings) \in [Fired -> SUBSET graph.nodes]
      BY <2>2 DEF StepOf, Fired
    <2> QED BY <2>2, <2>3 DEF Net!Steps
  <1>10. Saved' = Saved
    BY <1>1 DEF Saved, LogOf, HandedTo, IsLastEdge, Written
  <1>11. tick_count < MaxTicks
    BY <1>1 DEF TickInv
  <1> QED BY <1>1, <1>7, <1>8, <1>9, <1>10, <1>11 DEF Net!Tick

LEMMA NetShared ==
  ASSUME TokenInv, TickInv, SharedStep
  PROVE  [Net!Next]_(Net!vars)
  <1>0. TypeOK /\ TypeOK' /\ tick_count \in Nat /\ \A r \in records : r.tick \in Nat
    BY TypeShared DEF TokenInv, TypeInv, TypeOK, NodeState
  <1>1. CASE Commit
    BY <1>1, NetCommit DEF Net!Next
  <1>2. CASE LoopTest \/ BeginEngine("phase_a") \/ EndTick \/ Settle
    <2>1. UNCHANGED <<graph, checkpoints, records>> /\ Ticks' = Ticks
      BY <1>2 DEF LoopTest, EnterTick, BeginEngine, EndTick, Settle, run, Ticks
    <2>2. Committed' = Committed
      BY <2>1 DEF Committed
    <2> QED BY <1>0, <2>1, <2>2, NetStutters
  <1>3. CASE \E r \in firings, e \in graph.edges, v \in BOOLEAN : pc = "phase_b" /\ WriteEdge(r, e, v)
    <2>1. PICK r \in firings, e \in graph.edges, v \in BOOLEAN : pc = "phase_b" /\ WriteEdge(r, e, v)
      BY <1>3
    <2> DEFINE s == [r EXCEPT !.edges_fired = @ \cup {<<e, v>>}]
    <2>2. /\ records' = (records \ {r}) \cup {s}
          /\ UNCHANGED <<graph, checkpoints, tick_count, pc>>
      BY <2>1 DEF WriteEdge
    <2>3. s.tick = r.tick
      BY DEF TokenInv, TypeInv, TypeOK, NodeState
    <2> HIDE DEF s
    <2>4. Ticks = tick_count /\ Ticks' = tick_count
      BY <2>1, <2>2 DEF Ticks
    <2>5. r.tick = tick_count
      BY <2>1 DEF TokenInv, CurrentTick
    <2>6. Committed' = {q \in records' : q.tick < tick_count}
      BY <2>4 DEF Committed
    <2>7. Committed' = Committed
      BY <1>0, <2>2, <2>3, <2>4, <2>5, <2>6 DEF Committed
    <2> QED BY <1>0, <2>2, <2>4, <2>7, NetStutters
  <1> QED BY <1>1, <1>2, <1>3 DEF SharedStep

=============================================================================
