-------------------------- MODULE AsyncRunner_proofs --------------------------
(***************************************************************************)
(* Proofs about the asyncio runner, for every set of graphs and every      *)
(* choice of the other constants, whatever bodies and guards raise and     *)
(* whatever coroutines outlive their tick.                                 *)
(***************************************************************************)
EXTENDS AsyncRunner, BaseRunner_proofs

\* The active gather() exists in Phase A only.
GatherScoped == pc # "phase_a" => running = {} /\ answers = {}

\* The firings of the active tick and the firings of stray coroutines are
\* different objects.  Without it the types are not inductive: a stray write
\* could replace a record that the active tick still holds.
Detached ==
  /\ \A r \in firings : r.attempt = raised
  /\ \A s \in strays : s.firing.attempt < raised

AsyncInv == AsyncTypeOK /\ NoLocals /\ GatherScoped /\ Detached

-----------------------------------------------------------------------------
(* The type invariant *)

LEMMA AsyncInit == Init => AsyncInv
  <1> SUFFICES ASSUME Init PROVE AsyncInv
    OBVIOUS
  <1>1. TypeInv
    BY TypeBaseInit DEF Init
  <1> QED BY <1>1 DEF Init, BaseInit, TypeInv, AsyncInv, AsyncTypeOK, GatherScoped, Detached

LEMMA AsyncUser == AsyncInv /\ UserStep /\ UNCHANGED async => AsyncInv'
  <1> SUFFICES ASSUME AsyncInv, UserStep, UNCHANGED async PROVE AsyncInv'
    OBVIOUS
  <1>1. TypeInv'
    BY TypeUser DEF AsyncInv, AsyncTypeOK, TypeInv
  <1>2. firings' = firings /\ raised' = raised
    BY DEF UserStep, Cancel, Reset, Checkpoint, RemapGraph, CallTick, CallRunUntilIdle, EnterTick,
           run, call
  <1>3. \/ fireable' = fireable /\ graph' = graph /\ pc' = pc
        \/ pc = "user" /\ pc' # "phase_a"
    BY DEF UserStep, Cancel, Reset, Checkpoint, RemapGraph, CallTick, CallRunUntilIdle, EnterTick,
           run, call
  <1>4. running' \subseteq fireable' /\ answers' \subseteq graph'.nodes \X Outcomes
    BY <1>3 DEF AsyncInv, AsyncTypeOK, GatherScoped, async
  <1>5. GatherScoped'
    BY <1>3 DEF AsyncInv, GatherScoped, async
  <1>6. Detached'
    BY <1>2 DEF AsyncInv, Detached, async
  <1> QED BY <1>1, <1>4, <1>5, <1>6 DEF AsyncInv, AsyncTypeOK, TypeInv, async

LEMMA AsyncRollback ==
  ASSUME NEW l \in Labels, AsyncInv, RollbackDetaches(l)
  PROVE  AsyncInv'
  <1>1. TypeInv'
    BY TypeRollback DEF RollbackDetaches, AsyncInv, AsyncTypeOK, TypeInv
  <1>2. /\ pc = "user" /\ pc' = pc /\ firings' = firings /\ raised' = raised
        /\ fireable' = fireable
    BY DEF RollbackDetaches, Rollback, Restore
  <1>3. running' = {} /\ answers' = {} /\ strays' = {} /\ orphans' = orphans
    BY <1>2 DEF RollbackDetaches, AsyncInv, GatherScoped
  <1> QED BY <1>1, <1>2, <1>3 DEF AsyncInv, AsyncTypeOK, TypeInv, GatherScoped, Detached

\* A coroutine outside any tick ends or writes its next edge.
Leftovers ==
  \/ \E n \in AllNodes : OrphanEnds(n)
  \/ \E s \in strays : StrayWrites(s) \/ StrayRaises(s)

\* The object a firing is once edge e has been written, and what a stray write
\* of it does to the history.
Amended(r, e, v) == [r EXCEPT !.edges_fired = @ \cup {<<e, v>>}]

StrayWritesAs(s, done) ==
  /\ records' = IF s.firing \in records
                  THEN (records \ {s.firing}) \cup {done} ELSE records
  /\ strays' \subseteq strays \cup [firing : {done}, left : SUBSET s.left]

\* The object a stray write changes keeps its tick, node and attempt, and is
\* not one the active tick holds.
LEMMA StrayObject ==
  ASSUME AsyncInv, NEW s \in strays, StrayWrites(s)
  PROVE  \E done \in NodeState :
            /\ done.tick = s.firing.tick /\ done.node = s.firing.node
            /\ done.attempt = s.firing.attempt
            /\ s.firing \notin firings
            /\ StrayWritesAs(s, done)
  <1>1. PICK e \in s.left : \E v \in EdgeValues(s.firing, e) :
          /\ records' = IF s.firing \in records
                          THEN (records \ {s.firing}) \cup {Amended(s.firing, e, v)} ELSE records
          /\ strays' = (strays \ {s}) \cup
               {[firing |-> Amended(s.firing, e, v), left |-> left] : left \in {s.left \ {e}} \ {{}}}
    BY DEF StrayWrites, Amended
  <1>2. PICK v \in EdgeValues(s.firing, e) :
          /\ records' = IF s.firing \in records
                          THEN (records \ {s.firing}) \cup {Amended(s.firing, e, v)} ELSE records
          /\ strays' = (strays \ {s}) \cup
               {[firing |-> Amended(s.firing, e, v), left |-> left] : left \in {s.left \ {e}} \ {{}}}
    BY <1>1
  <1>3. s.firing \in NodeState /\ e \in AllEdges
    BY DEF AsyncInv, AsyncTypeOK
  <1>4. v \in BOOLEAN
    BY DEF EdgeValues
  <1>5. Amended(s.firing, e, v) \in NodeState
    BY <1>3, <1>4 DEF NodeState, Amended
  <1>6. LET done == Amended(s.firing, e, v)
        IN /\ done.tick = s.firing.tick /\ done.node = s.firing.node
           /\ done.attempt = s.firing.attempt
    BY <1>3 DEF NodeState, Amended
  <1>7. s.firing.attempt < raised /\ s.firing.attempt \in Nat /\ raised \in Nat
    BY <1>3 DEF AsyncInv, Detached, AsyncTypeOK, TypeOK, NodeState
  <1>8. s.firing \notin firings
    BY <1>7 DEF AsyncInv, Detached
  <1>9. StrayWritesAs(s, Amended(s.firing, e, v))
    BY <1>2 DEF StrayWritesAs
  <1> QED BY <1>5, <1>6, <1>8, <1>9

LEMMA AsyncLeftovers == AsyncInv /\ Leftovers => AsyncInv'
  <1> SUFFICES ASSUME AsyncInv, Leftovers PROVE AsyncInv'
    OBVIOUS
  <1> USE DEF AsyncInv, AsyncTypeOK, TypeOK, NoLocals, GatherScoped, Detached
  <1>1. CASE \E n \in AllNodes : OrphanEnds(n)
    BY <1>1 DEF OrphanEnds, vars, run, call
  <1>2. CASE \E s \in strays : StrayRaises(s)
    BY <1>2 DEF StrayRaises, vars, run, call
  <1>3. CASE \E s \in strays : StrayWrites(s)
    <2>1. PICK s \in strays : StrayWrites(s)
      BY <1>3
    <2>2. PICK done \in NodeState :
            /\ done.attempt = s.firing.attempt
            /\ s.firing \notin firings
            /\ StrayWritesAs(s, done)
      BY <2>1, StrayObject
    <2>3. records' \subseteq NodeState /\ firings \subseteq records'
      BY <2>2 DEF StrayWritesAs
    <2>4. s.left \in SUBSET AllEdges /\ s.firing.attempt < raised
      OBVIOUS
    <2>5. \A t \in strays' : t \in strays \/ t \in [firing : {done}, left : SUBSET s.left]
      BY <2>2 DEF StrayWritesAs
    <2>6. \A t \in strays' : t.firing.attempt < raised
      BY <2>2, <2>4, <2>5
    <2>7. strays' \subseteq [firing : NodeState, left : SUBSET AllEdges]
      BY <2>2, <2>4, <2>5
    <2> QED BY <2>1, <2>3, <2>6, <2>7 DEF StrayWrites, call
  <1> QED BY <1>1, <1>2, <1>3 DEF Leftovers

LEMMA AsyncTick == AsyncInv /\ TickStep => AsyncInv'
  <1> SUFFICES ASSUME AsyncInv, TickStep PROVE AsyncInv'
    OBVIOUS
  <1>0. TypeInv
    BY DEF AsyncInv, AsyncTypeOK, TypeInv
  <1> USE DEF AsyncInv, AsyncTypeOK, GatherScoped, Detached, async, vars, run, call
  <1>1. CASE StartBodies
    <2>1. TypeInv'
      BY <1>0, <1>1, TypeShared DEF StartBodies, SharedStep
    <2> QED BY <1>1, <2>1 DEF StartBodies, BeginEngine, TypeInv
  <1>2. CASE \E n \in AllNodes : BodyAnswers(n)
    <2>1. PICK n \in AllNodes : BodyAnswers(n)
      BY <1>2
    <2>2. n \in graph.nodes
      BY <2>1 DEF BodyAnswers, TypeOK
    <2>3. answers' \subseteq graph.nodes \X Outcomes
      BY <2>1, <2>2 DEF BodyAnswers
    <2> QED BY <2>1, <2>3 DEF BodyAnswers, TypeOK, NoLocals
  <1>3. CASE \E n \in AllNodes : BodyRaises(n)
    <2>1. PICK n \in AllNodes : BodyRaises(n)
      BY <1>3
    <2>2. TypeInv'
      BY <1>0, <2>1, TypeUnwind DEF BodyRaises
    <2>3. running \subseteq AllNodes
      BY GraphTypes DEF TypeOK
    <2>4. \A t \in strays : t.firing.attempt < raised + 1
      BY DEF TypeOK, NodeState
    <2> QED BY <2>1, <2>2, <2>3, <2>4 DEF BodyRaises, Unwind, TypeInv
  <1>4. CASE RecordAll
    <2>1. \A a \in answers : NewRecord(a[1], a[2]) \in NodeState
      BY NewRecordType, GraphTypes DEF TypeOK
    <2>2. firings' \subseteq NodeState /\ \A r \in firings' : r.attempt = raised
      BY <1>4, <2>1 DEF RecordAll, RecordWith, NewRecord
    <2>3. records' = records \cup firings'
      BY <1>4 DEF RecordAll, RecordWith
    <2>4. m_next' \in Marking
      BY <1>4 DEF RecordAll, RecordWith, UnusedTokens, TypeOK, Marking
    <2>5. window' \subseteq NodeState
      BY <1>4, <2>2 DEF RecordAll, RecordWith, Pushed, TypeOK
    <2> QED BY <1>4, <2>2, <2>3, <2>4, <2>5 DEF RecordAll, RecordWith, TypeOK, NoLocals, PCs
  <1>5. CASE PhaseB
    <2>1. PICK r \in firings, e \in graph.edges, v \in BOOLEAN : WriteEdge(r, e, v)
      BY <1>5 DEF PhaseB
    <2>2. TypeInv'
      BY <1>0, <1>5, <2>1, TypeShared DEF PhaseB, SharedStep
    <2>3. firings' = (firings \ {r}) \cup {Amended(r, e, v)}
      BY <2>1 DEF WriteEdge, Amended
    <2>4. Amended(r, e, v).attempt = r.attempt
      BY DEF Amended, TypeOK, NodeState
    <2>5. \A q \in firings' : q.attempt = raised
      BY <2>3, <2>4
    <2> QED BY <1>5, <2>1, <2>2, <2>5 DEF PhaseB, WriteEdge, TypeInv
  <1>6. CASE \E r \in firings : GuardRaises(r)
    <2>1. PICK r \in firings : GuardRaises(r)
      BY <1>6
    <2>2. TypeInv'
      BY <1>0, <2>1, TypeUnwind DEF GuardRaises
    <2>3. \A q : Unwritten(q) \in SUBSET AllEdges
      BY GraphTypes DEF Unwritten, OutEdges, TypeOK
    <2>4. \A t \in strays' : t \in strays \/ t \in [firing : firings, left : SUBSET AllEdges]
      BY <2>1, <2>3 DEF GuardRaises
    <2>5. \A t \in strays' : t.firing.attempt < raised + 1
      BY <2>4 DEF TypeOK, NodeState
    <2>6. strays' \subseteq [firing : NodeState, left : SUBSET AllEdges]
      BY <2>4 DEF TypeOK
    <2> QED BY <2>1, <2>2, <2>5, <2>6 DEF GuardRaises, Unwind, TypeInv
  <1>7. CASE (LoopTest \/ Commit \/ Settle \/ EndTick) /\ UNCHANGED async
    <2>1. TypeInv'
      BY <1>0, <1>7, TypeShared DEF SharedStep
    <2>2. /\ pc # "phase_a" /\ pc' # "phase_a"
          /\ graph' = graph /\ raised' = raised /\ firings' \subseteq firings
      BY <1>7 DEF LoopTest, EnterTick, Commit, Settle, EndTick
    <2> QED BY <1>7, <2>1, <2>2 DEF TypeInv
  <1> QED BY <1>1, <1>2, <1>3, <1>4, <1>5, <1>6, <1>7 DEF TickStep

LEMMA AsyncInvariance == Spec => []AsyncInv
  <1>1. AsyncInv /\ [Next]_avars => AsyncInv'
    <2> SUFFICES ASSUME AsyncInv, [Next]_avars PROVE AsyncInv'
      OBVIOUS
    <2>1. CASE UNCHANGED avars
      BY <2>1 DEF avars, async, vars, run, call, AsyncInv, AsyncTypeOK, TypeOK, NoLocals,
                  GatherScoped, Detached
    <2>2. CASE Next
      BY <2>2, AsyncUser, AsyncRollback, AsyncLeftovers, AsyncTick DEF Next, Leftovers
    <2> QED BY <2>1, <2>2
  <1> QED BY <1>1, AsyncInit, PTL DEF Spec

\* The variables of the asyncio runner keep their types: whatever coroutines
\* outlive their tick, none of them takes a record away from the active tick.
THEOREM AsyncTypeCorrect == Spec => []AsyncTypeOK
  BY AsyncInvariance, PTL DEF AsyncInv

-----------------------------------------------------------------------------
(* A tick is recorded as a whole *)

\* The nodes recorded for the tick that is not counted yet.
Uncounted == {r.node : r \in {q \in records : q.tick >= tick_count}}

\* A tick that raised leaves all its records or none, so the nodes recorded for
\* the uncounted tick are either none or those the marking enables; its repeat
\* finds the same marking and adds the same nodes.
WholeTick ==
  /\ pc \in {"start_hooks", "phase_a", "phase_b"} => fireable = Fireable(graph, marking)
  /\ pc = "phase_a" => {a[1] : a \in answers} \cup running = fireable
  /\ pc \in {"user", "loop", "start_hooks", "phase_a"} =>
       Uncounted = {} \/ Uncounted = Fireable(graph, marking)
  /\ pc = "phase_b" => Uncounted = fireable
  /\ \A r \in records : r.tick <= tick_count
  /\ pc = "end_hooks" => \A r \in records : r.tick < tick_count

WholeInv == AsyncInv /\ WholeTick

LEMMA WholeInit == Init => WholeInv
  BY AsyncInit DEF Init, BaseInit, WholeInv, WholeTick, Uncounted

\* A record that is replaced by one of the same tick and node leaves Uncounted
\* and the range of ticks as they are.
LEMMA Replaced ==
  ASSUME NEW r \in records, NEW s, s.tick = r.tick, s.node = r.node,
         records' = (records \ {r}) \cup {s}, tick_count' = tick_count
  PROVE  /\ Uncounted' = Uncounted
         /\ (\A q \in records : q.tick <= tick_count) => \A q \in records' : q.tick <= tick_count
         /\ (\A q \in records : q.tick < tick_count) => \A q \in records' : q.tick < tick_count
  BY DEF Uncounted

LEMMA WholeUser ==
  ASSUME Remaps = {}, WholeInv, UserStep, UNCHANGED async
  PROVE  WholeTick'
  <1> USE DEF WholeInv, WholeTick, Uncounted, run, call, async
  <1>1. CASE Cancel
    BY <1>1 DEF Cancel
  <1>2. CASE Reset
    BY <1>2 DEF Reset
  <1>3. CASE \E l \in Labels : Checkpoint(l)
    BY <1>3 DEF Checkpoint
  <1>4. CASE \E g \in Graphs : RemapGraph(g)
    BY <1>4 DEF RemapGraph
  <1>5. CASE CallTick
    BY <1>5 DEF CallTick, EnterTick
  <1>6. CASE CallRunUntilIdle
    BY <1>6 DEF CallRunUntilIdle
  <1> QED BY <1>1, <1>2, <1>3, <1>4, <1>5, <1>6 DEF UserStep

LEMMA WholeRollback ==
  ASSUME NEW l \in Labels, WholeInv, RollbackDetaches(l)
  PROVE  WholeTick'
  <1>1. PICK snap \in checkpoints[l] : pc = "user" /\ Restore(snap)
    BY DEF RollbackDetaches, Rollback
  <1>2. snap \in Snapshots
    BY <1>1 DEF WholeInv, AsyncInv, AsyncTypeOK, TypeOK
  <1>3. /\ tick_count' = snap.tick /\ snap.tick \in Nat
        /\ \A r \in records' : r.tick \in Nat /\ r.tick <= snap.tick - 1
    BY <1>1, <1>2 DEF Restore, TruncateAfter, Snapshots, NodeState
  <1>4. \A r \in records' : r.tick < tick_count'
    BY <1>3
  <1>5. Uncounted' = {}
    BY <1>3, <1>4 DEF Uncounted
  <1> QED BY <1>1, <1>3, <1>4, <1>5 DEF Restore, WholeTick

LEMMA WholeLeftovers ==
  ASSUME WholeInv, Leftovers
  PROVE  WholeTick'
  <1> USE DEF WholeInv, WholeTick, vars, run, call
  <1>1. CASE \E n \in AllNodes : OrphanEnds(n)
    BY <1>1 DEF OrphanEnds, Uncounted
  <1>2. CASE \E s \in strays : StrayRaises(s)
    BY <1>2 DEF StrayRaises, Uncounted
  <1>3. CASE \E s \in strays : StrayWrites(s)
    <2>1. PICK s \in strays : StrayWrites(s)
      BY <1>3
    <2>2. PICK done \in NodeState :
            /\ done.tick = s.firing.tick /\ done.node = s.firing.node
            /\ StrayWritesAs(s, done)
      BY <2>1, StrayObject
    <2>3. /\ UNCHANGED <<graph, marking, tick_count, pc, fireable, running, answers>>
      BY <2>1 DEF StrayWrites
    <2>4. CASE s.firing \in records
      <3>1. records' = (records \ {s.firing}) \cup {done}
        BY <2>2, <2>4 DEF StrayWritesAs
      <3> QED BY <2>2, <2>3, <2>4, <3>1, Replaced
    <2>5. CASE s.firing \notin records
      BY <2>2, <2>3, <2>5 DEF StrayWritesAs, Uncounted
    <2> QED BY <2>4, <2>5
  <1> QED BY <1>1, <1>2, <1>3 DEF Leftovers

LEMMA WholeTicks ==
  ASSUME WholeInv, TickStep
  PROVE  WholeTick'
  <1> USE DEF WholeInv, WholeTick, async, vars, run, call
  <1>0. tick_count \in Nat /\ \A r \in records : r.tick \in Nat
    BY DEF AsyncInv, AsyncTypeOK, TypeOK, NodeState
  <1>1. CASE StartBodies
    BY <1>1 DEF StartBodies, BeginEngine, Uncounted
  <1>2. CASE \E n \in AllNodes : BodyAnswers(n)
    <2>1. PICK n \in AllNodes, outcome \in Outcomes :
            /\ BodyAnswers(n) /\ n \in running
            /\ answers' = answers \cup {<<n, outcome>>}
            /\ running' = running \ {n}
      BY <1>2 DEF BodyAnswers
    <2>2. {a[1] : a \in answers'} = {a[1] : a \in answers} \cup {<<n, outcome>>[1]}
      BY <2>1
    <2>3. {a[1] : a \in answers'} \cup running' = {a[1] : a \in answers} \cup running
      BY <2>1, <2>2
    <2> QED BY <2>1, <2>3 DEF BodyAnswers, Uncounted
  <1>3. CASE \E n \in AllNodes : BodyRaises(n)
    BY <1>3 DEF BodyRaises, Unwind, Uncounted
  <1>4. CASE RecordAll
    <2>1. firings' = {NewRecord(a[1], a[2]) : a \in answers} /\ records' = records \cup firings'
      BY <1>4 DEF RecordAll, RecordWith
    <2>2. \A r \in firings' : r.tick = tick_count
      BY <2>1 DEF NewRecord
    <2>3. {r.node : r \in firings'} = fireable
      <3>1. \A a \in answers : NewRecord(a[1], a[2]).node = a[1]
        BY DEF NewRecord
      <3>2. {a[1] : a \in answers} = fireable
        BY <1>4 DEF RecordAll, RecordWith
      <3> QED BY <2>1, <3>1, <3>2
    <2>4. tick_count' = tick_count
      BY <1>4 DEF RecordAll, RecordWith
    <2>5. Uncounted' = Uncounted \cup fireable
      BY <1>0, <2>1, <2>2, <2>3, <2>4 DEF Uncounted
    <2>6. \A r \in records' : r.tick <= tick_count'
      BY <1>0, <2>1, <2>2, <2>4
    <2>7. Uncounted' = fireable
      BY <1>4, <2>5 DEF RecordAll, RecordWith
    <2> QED BY <1>4, <2>6, <2>7 DEF RecordAll, RecordWith
  <1>5. CASE PhaseB
    <2>1. PICK r \in firings, e \in graph.edges, v \in BOOLEAN : WriteEdge(r, e, v)
      BY <1>5 DEF PhaseB
    <2>2. records' = (records \ {r}) \cup {Amended(r, e, v)}
      BY <2>1 DEF WriteEdge, Amended
    <2>3. Amended(r, e, v).tick = r.tick /\ Amended(r, e, v).node = r.node
      BY DEF Amended, AsyncInv, AsyncTypeOK, TypeOK, NodeState
    <2>4. r \in records
      BY DEF AsyncInv, AsyncTypeOK, TypeOK
    <2>5. /\ UNCHANGED <<graph, marking, tick_count, pc, fireable, running, answers>>
      BY <1>5, <2>1 DEF PhaseB, WriteEdge
    <2> QED BY <2>2, <2>3, <2>4, <2>5, Replaced
  <1>6. CASE \E r \in firings : GuardRaises(r)
    BY <1>6 DEF GuardRaises, Unwind, Uncounted
  <1>7. CASE LoopTest /\ UNCHANGED async
    BY <1>7 DEF LoopTest, EnterTick, Uncounted
  <1>8. CASE Commit /\ UNCHANGED async
    BY <1>8 DEF Commit, Uncounted
  <1>9. CASE Settle /\ UNCHANGED async
    BY <1>0, <1>9 DEF Settle, Uncounted
  <1>10. CASE EndTick /\ UNCHANGED async
    <2>1. Uncounted = {}
      BY <1>0, <1>10 DEF EndTick, Uncounted
    <2>2. Uncounted' = Uncounted
      BY <1>10 DEF EndTick, Uncounted
    <2> QED BY <1>10, <2>1, <2>2 DEF EndTick
  <1> QED BY <1>1, <1>2, <1>3, <1>4, <1>5, <1>6, <1>7, <1>8, <1>9, <1>10 DEF TickStep

LEMMA WholeInvariance ==
  ASSUME Remaps = {}
  PROVE  Spec => []WholeInv
  <1>1. WholeInv /\ [Next]_avars => WholeInv'
    <2> SUFFICES ASSUME WholeInv, [Next]_avars PROVE WholeInv'
      OBVIOUS
    <2>1. CASE UNCHANGED avars
      BY <2>1 DEF avars, async, vars, run, call, WholeInv, WholeTick, Uncounted, AsyncInv,
                  AsyncTypeOK, TypeOK, NoLocals, GatherScoped, Detached
    <2>2. CASE Next
      <3>1. AsyncInv'
        BY <2>2, AsyncUser, AsyncRollback, AsyncLeftovers, AsyncTick DEF Next, Leftovers, WholeInv
      <3>2. WholeTick'
        BY <2>2, WholeUser, WholeRollback, WholeLeftovers, WholeTicks DEF Next, Leftovers
      <3> QED BY <3>1, <3>2 DEF WholeInv
    <2> QED BY <2>1, <2>2
  <1> QED BY <1>1, WholeInit, PTL DEF Spec

\* As long as the graph is not replaced, a tick is recorded as a whole or not
\* at all, whatever raises in it and whatever is still writing from an earlier
\* one.
THEOREM TickRecordedWhole ==
  ASSUME Remaps = {}
  PROVE  Spec => []RecordedWhole
  <1>1. WholeInv => RecordedWhole
    BY DEF WholeInv, WholeTick, Uncounted, RecordedWhole
  <1> QED BY <1>1, WholeInvariance, PTL

-----------------------------------------------------------------------------
(* Marking and history in step *)

USE DEF Engine

\* The conditions under which the asyncio runner is transactional.  Bodies may
\* raise: nothing has been recorded yet when they do.
GuardsReturn == "guard" \notin MayRaise /\ Steady

\* No edge writer outlives its tick, and the active gather() gets one answer
\* from each body before anything is recorded.
Gathered ==
  /\ strays = {}
  /\ pc = "phase_a" => firings = {}
  /\ \A a, b \in answers : a[1] = b[1] => a = b
  /\ \A a \in answers : a[1] \notin running

SerialInv == TokenInv /\ TickInv /\ Gathered

LEMMA SerialInit == Init => SerialInv /\ Net!Init
  <1>1. BaseInit => TokenInv /\ TickInv /\ Net!Init
    BY TokenInit, TickInit, NetInit
  <1> QED BY <1>1 DEF Init, BaseInit, SerialInv, Gathered

\* gather() returned: all firings of the tick enter the history at once.
LEMMA SerialRecord ==
  ASSUME SerialInv, WholeInv, TypeInv', RecordAll
  PROVE  SerialInv' /\ UNCHANGED Net!vars
  <1>1. /\ pc = "phase_a" /\ pc' = "phase_b" /\ running = {}
        /\ m_next' = [tokens |-> UnusedTokens, armed |-> m_next.armed \ fireable]
        /\ firings' = {NewRecord(a[1], a[2]) : a \in answers}
        /\ records' = records \cup firings'
        /\ UNCHANGED <<graph, marking, tick_count, checkpoints, fireable, strays>>
        /\ answers' = {}
    BY DEF RecordAll, RecordWith
  <1>2. /\ firings = {} /\ TokenInv /\ TickInv /\ TypeOK
        /\ \A a, b \in answers : a[1] = b[1] => a = b
    BY <1>1 DEF SerialInv, Gathered, TokenInv, TypeInv
  <1>3. tick_count \in Nat /\ \A r \in records : r.tick < tick_count /\ r.tick \in Nat
    BY <1>1, <1>2 DEF TokenInv, CurrentTick, TypeOK, NodeState
  <1>4. \A a : /\ NewRecord(a[1], a[2]).tick = tick_count
               /\ NewRecord(a[1], a[2]).node = a[1]
               /\ NewRecord(a[1], a[2]).edges_fired = {}
    BY DEF NewRecord
  <1>5. /\ \A r \in firings' : r.tick = tick_count /\ r.edges_fired = {}
        /\ \A r, q \in firings' : r.node = q.node => r = q
    <2>1. ASSUME NEW r \in firings', NEW q \in firings', r.node = q.node PROVE r = q
      <3>1. PICK a \in answers, b \in answers :
              r = NewRecord(a[1], a[2]) /\ q = NewRecord(b[1], b[2])
        BY <1>1
      <3>2. a = b
        BY <1>2, <1>4, <2>1, <3>1
      <3> QED BY <3>1, <3>2
    <2>2. \A r \in firings' : r.tick = tick_count /\ r.edges_fired = {}
      BY <1>1, <1>4
    <2> QED BY <2>1, <2>2
  <1>6. Fired' = fireable
    <2>1. {a[1] : a \in answers} = fireable
      BY <1>1 DEF WholeInv, WholeTick
    <2> QED BY <1>1, <1>4, <2>1 DEF Fired
  <1>7. Ticks = tick_count /\ Ticks' = tick_count /\ Committed' = Committed
    BY <1>1, <1>3, <1>5 DEF Ticks, Committed
  <1>8. CurrentTick'
    BY <1>1, <1>3, <1>5 DEF CurrentTick
  <1>9. OncePerTick(records)'
    BY <1>1, <1>2, <1>3, <1>5 DEF TokenInv, OncePerTick
  <1>10. MarkingInv' /\ SavedInv'
    BY <1>1, <1>2, <1>7 DEF TokenInv, MarkingInv, SavedInv
  <1>11. WrittenInv' /\ PhaseAInv'
    BY <1>1, <1>5 DEF WrittenInv, Written, PhaseAInv
  <1>12. NextInv'
    <2>1. /\ m_next.tokens \subseteq Slots(graph) /\ m_next.armed = marking.armed
          /\ \A slot \in Slots(graph) : slot \in m_next.tokens <=> slot \in marking.tokens
      BY <1>1, <1>2 DEF TokenInv, NextInv, Fired
    <2>2. /\ m_next'.tokens = {slot \in m_next.tokens : slot[1] \notin fireable}
          /\ m_next'.armed = marking.armed \ Fired'
      BY <1>1, <1>6, <2>1 DEF UnusedTokens
    <2>3. \A slot \in Slots(graph) :
            slot \in m_next'.tokens <=> slot \in marking.tokens /\ slot[1] \notin Fired'
      BY <1>6, <2>1, <2>2
    <2>4. \A r \in firings' : \A d : ~(\E e \in {w[1] : w \in r.edges_fired} : e.dst = d)
      BY <1>5
    <2> QED BY <1>1, <2>1, <2>2, <2>3, <2>4 DEF NextInv, Rewritten, Written
  <1>13. TokenInv'
    BY <1>8, <1>9, <1>10, <1>11, <1>12 DEF TokenInv
  <1>14. TickInv'
    BY <1>1, <1>2, <1>5, <1>6 DEF TickInv, EdgeValues
  <1>15. Gathered'
    BY <1>1 DEF SerialInv, Gathered
  <1>16. UNCHANGED Net!vars
    BY <1>1, <1>2, <1>7, NetStutters DEF TypeInv
  <1> QED BY <1>13, <1>14, <1>15, <1>16 DEF SerialInv

\* A step that leaves the runner alone.
LEMMA SerialStutters ==
  ASSUME SerialInv, UNCHANGED vars
  PROVE  TokenInv' /\ TickInv' /\ UNCHANGED Net!vars
  <1>1. TypeOK /\ TypeOK'
    BY DEF SerialInv, TokenInv, TypeInv, TypeOK, vars, run, call
  <1>2. UNCHANGED <<graph, checkpoints>> /\ Ticks' = Ticks /\ Committed' = Committed
    BY DEF vars, run, call, Ticks, Committed
  <1>3. TickInv'
    BY DEF SerialInv, vars, run, call, TickInv, Fired, EdgeValues
  <1> QED BY <1>1, <1>2, <1>3, NetStutters, TokenStutters DEF SerialInv

\* A body raises: the tick is gone without a trace.
SerialUnwound == TokenInv' /\ TickInv' /\ UNCHANGED Net!vars

LEMMA SerialUnwinds ==
  ASSUME TokenInv, TickInv, pc = "phase_a", firings = {}, Unwind
  PROVE  SerialUnwound
  <1>1. /\ pc' = "user" /\ firings' = {} /\ m_next' = marking
        /\ UNCHANGED <<graph, marking, tick_count, records, checkpoints>>
    BY DEF Unwind, run
  <1>2. TypeInv /\ TypeInv'
    BY TypeUnwind DEF TokenInv
  <1>3. tick_count \in Nat /\ \A r \in records : r.tick < tick_count /\ r.tick \in Nat
    BY <1>2 DEF TokenInv, CurrentTick, TypeInv, TypeOK, NodeState
  <1>4. Ticks' = Ticks /\ Committed' = Committed
    BY <1>1 DEF Ticks, Committed
  <1>5. CurrentTick' /\ MarkingInv' /\ SavedInv'
    BY <1>1, <1>3, <1>4 DEF TokenInv, CurrentTick, MarkingInv, SavedInv
  <1>6. OncePerTick(records)' /\ WrittenInv' /\ NextInv' /\ PhaseAInv'
    BY <1>1 DEF TokenInv, OncePerTick, WrittenInv, NextInv, PhaseAInv
  <1>7. TickInv'
    BY <1>1 DEF TickInv
  <1>8. UNCHANGED Net!vars
    BY <1>1, <1>2, <1>4, NetStutters DEF TypeInv
  <1> QED BY <1>2, <1>5, <1>6, <1>7, <1>8 DEF TokenInv, SerialUnwound

LEMMA SerialTick ==
  ASSUME GuardsReturn, SerialInv, WholeInv, TickStep
  PROVE  SerialInv' /\ [Net!Next]_(Net!vars)
  <1>1. CASE SharedStep /\ (StartBodies \/ PhaseB \/ UNCHANGED async)
    <2>1. TokenInv' /\ TickInv' /\ [Net!Next]_(Net!vars)
      BY <1>1, TokenShared, TickShared, NetShared DEF SerialInv, TokenInv
    <2>2. CASE StartBodies
      BY <2>1, <2>2 DEF StartBodies, BeginEngine, SerialInv, Gathered, TokenInv, CurrentTick
    <2>3. CASE PhaseB
      BY <2>1, <2>3 DEF PhaseB, WriteEdge, async, SerialInv, Gathered
    <2>4. CASE UNCHANGED async /\ ~StartBodies /\ ~PhaseB
      <3>1. firings' = firings \/ pc' # "phase_a"
        BY <1>1, <2>4 DEF SharedStep, LoopTest, BeginEngine, Commit, Settle, EndTick, WriteEdge
      <3>2. pc' = "phase_a" => firings' = {}
        BY <1>1, <3>1 DEF SharedStep, LoopTest, EnterTick, BeginEngine, Commit, Settle, EndTick,
                          WriteEdge, SerialInv, TokenInv, CurrentTick
      <3> QED BY <2>1, <2>4, <3>2 DEF async, SerialInv, Gathered
    <2> QED BY <1>1, <2>2, <2>3, <2>4
  <1>2. CASE \E n \in AllNodes : BodyAnswers(n)
    <2>1. PICK n \in AllNodes, outcome \in Outcomes :
            /\ BodyAnswers(n) /\ n \in running
            /\ answers' = answers \cup {<<n, outcome>>}
            /\ running' = running \ {n}
      BY <1>2 DEF BodyAnswers
    <2>2. UNCHANGED vars /\ strays' = strays
      BY <2>1 DEF BodyAnswers
    <2>3. TokenInv' /\ TickInv' /\ UNCHANGED Net!vars
      BY <2>2, SerialStutters
    <2>4. <<n, outcome>>[1] = n
      OBVIOUS
    <2>5. Gathered'
      BY <2>1, <2>2, <2>4 DEF SerialInv, Gathered, vars, call
    <2> QED BY <2>3, <2>5 DEF SerialInv
  <1>3. CASE RecordAll
    <2>1. TypeInv'
      BY AsyncTick DEF WholeInv, AsyncInv, AsyncTypeOK, TypeInv
    <2> QED BY <1>3, <2>1, SerialRecord
  <1>4. CASE \E n \in AllNodes : BodyRaises(n)
    <2>1. PICK n \in AllNodes : BodyRaises(n)
      BY <1>4
    <2>2. pc = "phase_a" /\ Unwind /\ running' = {} /\ answers' = {} /\ strays' = strays
      BY <2>1 DEF BodyRaises
    <2>3. SerialUnwound
      BY <2>2, SerialUnwinds DEF SerialInv, Gathered
    <2> QED BY <2>2, <2>3 DEF SerialUnwound, SerialInv, Gathered, Unwind
  <1>5. \A r \in firings : ~GuardRaises(r)
    BY DEF GuardRaises, GuardsReturn
  <1>6. StartBodies \/ PhaseB => SharedStep
    BY DEF StartBodies, PhaseB, SharedStep
  <1>7. (LoopTest \/ Commit \/ Settle \/ EndTick) /\ UNCHANGED async
          => SharedStep /\ UNCHANGED async
    BY DEF SharedStep
  <1> QED BY <1>1, <1>2, <1>3, <1>4, <1>5, <1>6, <1>7 DEF TickStep

LEMMA SerialStep ==
  ASSUME GuardsReturn, SerialInv, WholeInv, [Next]_avars
  PROVE  SerialInv' /\ [Net!Next]_(Net!vars)
  <1>1. CASE TickStep
    BY <1>1, SerialTick
  <1>2. CASE UserStep /\ UNCHANGED async
    <2>1. TokenInv' /\ TickInv' /\ [Net!Next]_(Net!vars)
      BY <1>2, TokenUser, TickUser, NetUser DEF SerialInv, GuardsReturn
    <2>2. firings' = firings /\ (pc' = pc \/ pc' # "phase_a")
      BY <1>2 DEF UserStep, Cancel, Reset, Checkpoint, RemapGraph, CallTick, CallRunUntilIdle,
                  EnterTick, run, call
    <2> QED BY <1>2, <2>1, <2>2 DEF SerialInv, Gathered, async
  <1>3. CASE \E l \in Labels : RollbackDetaches(l)
    <2>1. PICK l \in Labels : Rollback(l) /\ UNCHANGED <<running, answers>> /\ strays' = {}
      BY <1>3 DEF RollbackDetaches
    <2>2. TokenInv' /\ TickInv' /\ [Net!Next]_(Net!vars)
      BY <2>1, TokenRollback, TickRollback, NetRollback DEF SerialInv, Net!Next
    <2>3. pc' = "user"
      BY <2>1 DEF Rollback, Restore
    <2> QED BY <2>1, <2>2, <2>3 DEF SerialInv, Gathered
  <1>4. CASE \E n \in AllNodes : OrphanEnds(n)
    <2>1. UNCHANGED <<vars, running, answers, strays>>
      BY <1>4 DEF OrphanEnds
    <2> QED BY <2>1, SerialStutters DEF SerialInv, Gathered, vars, call
  <1>5. CASE UNCHANGED avars
    <2>1. UNCHANGED <<vars, running, answers, strays>>
      BY <1>5 DEF avars, async
    <2> QED BY <2>1, SerialStutters DEF SerialInv, Gathered, vars, call
  <1>6. strays = {}
    BY DEF SerialInv, Gathered
  <1> QED BY <1>1, <1>2, <1>3, <1>4, <1>5, <1>6 DEF Next

LEMMA SerialInvariance ==
  ASSUME GuardsReturn
  PROVE  Spec => []SerialInv
  <1>1. Remaps = {}
    BY DEF GuardsReturn, Steady
  <1> QED BY <1>1, SerialInit, SerialStep, WholeInvariance, PTL DEF Spec

\* GuardsReturn, whatever the order in which bodies answer and edge writes
\* interleave, a True slot is always backed by a recorded firing that delivered
\* it and that nothing has consumed since.
THEOREM AsyncNoTokenFromNowhere ==
  ASSUME GuardsReturn
  PROVE  Spec => []NoPhantomToken
  <1>1. SerialInv => NoPhantomToken
    BY TokenMeans DEF SerialInv
  <1> QED BY <1>1, SerialInvariance, PTL

\* GuardsReturn, the asyncio runner implements the same net as the synchronous
\* one: no order of answers and writes shows in the steps it takes.
THEOREM AsyncImplementsNet ==
  ASSUME GuardsReturn
  PROVE  Spec => ImplementsNet
  <1>1. Remaps = {}
    BY DEF GuardsReturn, Steady
  <1> QED BY <1>1, SerialInit, SerialStep, SerialInvariance, WholeInvariance, PTL
          DEF Spec, ImplementsNet, Net!Spec

=============================================================================
