---------------------------- MODULE Runner_proofs ----------------------------
(***************************************************************************)
(* Proofs about the synchronous runner, for every set of graphs and every  *)
(* choice of the other constants: its types, what FAILED tells the user    *)
(* and when a cancellation holds, and that it keeps its marking and its    *)
(* history in step, for which BaseRunner_proofs leaves open only that      *)
(* firing one node after the other does.                                   *)
(***************************************************************************)
EXTENDS Runner, BaseRunner_proofs, FiringLog_proofs

LEMMA TypeInit == Init => TypeInv
  BY TypeBaseInit DEF Init

LEMMA TypeTick == TypeInv /\ TickStep => TypeInv'
  <1> SUFFICES ASSUME TypeInv, TickStep PROVE TypeInv'
    OBVIOUS
  <1> USE DEF TypeInv, NoLocals, run, call
  <1>1. CASE \E n \in AllNodes : FireNode(n)
    <2>1. PICK n \in AllNodes, outcome \in Outcomes :
            /\ FireNode(n)
            /\ firings' = firings \cup {NewRecord(n, outcome)}
            /\ records' = records \cup {NewRecord(n, outcome)}
            /\ window' = Pushed(window, {NewRecord(n, outcome)})
      BY <1>1 DEF FireNode
    <2>2. NewRecord(n, outcome) \in NodeState
      BY NewRecordType
    <2>4. window' \subseteq NodeState
      BY <2>1, <2>2 DEF Pushed, TypeOK
    <2>3. m_next' \in Marking
      BY <2>1, MarkingTypes DEF FireNode, TypeOK
    <2> QED BY <2>1, <2>2, <2>3, <2>4 DEF FireNode, TypeOK
  <1>2. CASE EndPhaseA
    BY <1>2 DEF EndPhaseA, TypeOK, PCs
  <1>3. CASE SharedStep \/ Unwind
    BY <1>3, TypeShared, TypeUnwind
  <1>4. PhaseB \/ BodyRaises \/ GuardRaises => SharedStep \/ Unwind
    BY DEF PhaseB, BodyRaises, GuardRaises, SharedStep
  <1> QED BY <1>1, <1>2, <1>3, <1>4 DEF TickStep, SharedStep

LEMMA TypeInvariance == Spec => []TypeInv
  <1>1. TypeInv /\ [Next]_vars => TypeInv'
    <2> SUFFICES ASSUME TypeInv, [Next]_vars PROVE TypeInv'
      OBVIOUS
    <2>1. CASE UNCHANGED vars
      BY <2>1 DEF vars, run, call, TypeInv, TypeOK, NoLocals
    <2> QED BY <2>1, TypeUser, TypeRollback, TypeTick DEF Next
  <1> QED BY <1>1, TypeInit, PTL DEF Spec

\* The variables of the runner keep their types: in particular the firings of a
\* tick are always recorded ones, whatever rollbacks and remaps went before.
THEOREM TypeCorrect == Spec => []TypeOK
  BY TypeInvariance, PTL DEF TypeInv

-----------------------------------------------------------------------------
(* No foreign token *)

\* Unless both happen, a replaced graph and a rollback, the marking speaks of
\* the current graph only, whatever raises: there is no slot that would stay
\* pending for want of a node to consume it.
THEOREM NoTokenForeign ==
  ASSUME GraphOrHistoryStays
  PROVE  Spec => []NoForeignToken
  <1>1. OwnTokens /\ TypeOK /\ [Next]_vars => OwnTokens'
    <2> SUFFICES ASSUME OwnTokens, TypeOK, [Next]_vars PROVE OwnTokens'
      OBVIOUS
    <2>1. CASE UNCHANGED vars
      BY <2>1 DEF vars, run, call, OwnTokens, IsOwn
    <2>2. CASE UserStep
      BY <2>2, OwnUser
    <2>3. CASE \E l \in Labels : Rollback(l)
      BY <2>3, OwnRollback
    <2>4. CASE SharedStep \/ Unwind
      BY <2>4, OwnShared
    <2>5. CASE \E n \in AllNodes : FireNode(n)
      <3>1. PICK n \in AllNodes : FireNode(n)
        BY <2>5
      <3>2. /\ Consume(graph, n, m_next).tokens \subseteq m_next.tokens
            /\ Consume(graph, n, m_next).armed \subseteq m_next.armed
        BY DEF Consume
      <3> QED BY <3>1, <3>2 DEF FireNode, OwnTokens, IsOwn
    <2>6. CASE EndPhaseA
      BY <2>6 DEF EndPhaseA, OwnTokens, IsOwn, run
    <2>7. PhaseB \/ BodyRaises \/ GuardRaises => SharedStep \/ Unwind
      BY DEF PhaseB, BodyRaises, GuardRaises, SharedStep
    <2> QED BY <2>1, <2>2, <2>3, <2>4, <2>5, <2>6, <2>7 DEF Next, TickStep, SharedStep
  <1>2. Init => OwnTokens
    BY OwnInit DEF Init
  <1>3. OwnTokens => NoForeignToken
    BY DEF OwnTokens, IsOwn, NoForeignToken
  <1> QED BY <1>1, <1>2, <1>3, TypeCorrect, PTL DEF Spec

-----------------------------------------------------------------------------
(* The status *)

\* Where a terminal status can be seen: tick() is not entered with one.
Resting == {"user", "loop", "end_hooks"}

-----------------------------------------------------------------------------
(* The starved verdict *)

\* Before the engine fires anything, the fireable set is that of the marking
\* it starts from; when nothing fired, the marking is still that one.
EmptyTick ==
  /\ pc \in {"start_hooks", "phase_a"} => fireable = Fireable(graph, marking)
  /\ pc \in {"phase_a", "phase_b"} /\ firings = {} => m_next = marking
  /\ pc \in {"phase_b", "fire_hooks"} /\ firings = {} => Fireable(graph, marking) = {}

StarvedInv ==
  /\ StarvedVerdict
  /\ status = "FAILED" => pc \in Resting
  /\ EmptyTick

LEMMA StarvedInit == Init => StarvedInv
  BY DEF Init, BaseInit, StarvedInv, StarvedVerdict, EmptyTick, Resting

LEMMA StarvedUser == StarvedInv /\ UserStep => StarvedInv'
  <1> SUFFICES ASSUME StarvedInv, UserStep PROVE StarvedInv'
    OBVIOUS
  <1> USE DEF StarvedInv, StarvedVerdict, EmptyTick, Resting, call, run
  <1>1. CASE Cancel
    BY <1>1 DEF Cancel
  <1>2. CASE Reset
    BY <1>2 DEF Reset
  <1>3. CASE \E l \in Labels : Checkpoint(l)
    BY <1>3 DEF Checkpoint
  <1>4. CASE \E g \in Graphs : RemapGraph(g)
    BY <1>4 DEF RemapGraph
  <1>5. CASE CallTick
    BY <1>5 DEF CallTick, EnterTick, Terminal
  <1>6. CASE CallRunUntilIdle
    BY <1>6 DEF CallRunUntilIdle
  <1> QED BY <1>1, <1>2, <1>3, <1>4, <1>5, <1>6 DEF UserStep

LEMMA StarvedTick == TypeInv /\ StarvedInv /\ TickStep => StarvedInv'
  <1> SUFFICES ASSUME TypeInv, StarvedInv, TickStep PROVE StarvedInv'
    OBVIOUS
  <1> USE DEF StarvedInv, StarvedVerdict, EmptyTick, Resting, call, run
  <1>1. CASE LoopTest
    BY <1>1 DEF LoopTest, EnterTick, Terminal
  <1>2. CASE BeginEngine("phase_a")
    BY <1>2 DEF BeginEngine
  <1>3. CASE \E n \in AllNodes : FireNode(n)
    BY <1>3 DEF FireNode
  <1>4. CASE EndPhaseA
    <2>1. firings = {} => fireable = {}
      BY <1>4 DEF EndPhaseA, Fired
    <2> QED BY <1>4, <2>1 DEF EndPhaseA
  <1>5. CASE PhaseB
    BY <1>5 DEF PhaseB, WriteEdge
  <1>6. CASE Commit
    BY <1>6 DEF Commit
  <1>7. CASE Settle
    <2>1. Verdict = "FAILED" => firings = {} /\ HasPending(marking)
      BY DEF Verdict
    <2> QED BY <1>7, <2>1 DEF Settle
  <1>8. CASE EndTick
    BY <1>8 DEF EndTick
  <1>9. CASE BodyRaises \/ GuardRaises
    BY <1>9 DEF BodyRaises, GuardRaises, Unwind
  <1> QED BY <1>1, <1>2, <1>3, <1>4, <1>5, <1>6, <1>7, <1>8, <1>9 DEF TickStep

LEMMA StarvedInvariance == Spec => []StarvedInv
  <1>1. TypeInv /\ StarvedInv /\ [Next]_vars => StarvedInv'
    <2> SUFFICES ASSUME TypeInv, StarvedInv, [Next]_vars PROVE StarvedInv'
      OBVIOUS
    <2>1. CASE UNCHANGED vars
      BY <2>1 DEF vars, run, call, StarvedInv, StarvedVerdict, EmptyTick
    <2>2. CASE \E l \in Labels : Rollback(l)
      BY <2>2 DEF Rollback, Restore, StarvedInv, StarvedVerdict, EmptyTick, Resting, Terminal
    <2> QED BY <2>1, <2>2, StarvedUser, StarvedTick DEF Next
  <1> QED BY <1>1, StarvedInit, TypeInvariance, PTL DEF Spec

\* FAILED is the truth.  Whatever the user, the hooks and the callables do, a
\* run that stands at FAILED has work pending that no further tick could reach.
THEOREM FailedMeansStarved == Spec => []StarvedVerdict
  BY StarvedInvariance, PTL DEF StarvedInv

-----------------------------------------------------------------------------
(* Cancellation *)

\* The reason is set only while the run is cancelled, in the saved runs too.
CancelInv ==
  /\ CancelSticks
  /\ status = "CANCELLED" => pc \in Resting
  /\ \A l \in Labels : \A snap \in checkpoints[l] :
        snap.cancel_reason => snap.status = "CANCELLED"

LEMMA CancelStep ==
  ASSUME CancelAt \subseteq Resting, TypeInv, CancelInv, Next
  PROVE  CancelInv'
  <1> USE DEF CancelInv, CancelSticks, Resting, call, run, Terminal
  <1>1. CASE UserStep
    <2>1. CASE Cancel
      BY <1>1, <2>1 DEF Cancel
    <2>2. CASE Reset
      BY <2>2 DEF Reset
    <2>3. CASE \E l \in Labels : Checkpoint(l)
      <3>1. PICK l \in Labels : Checkpoint(l)
        BY <2>3
      <3>2. \A k \in Labels : \A snap \in checkpoints'[k] : snap \in checkpoints[k] \/ snap = Snapshot
        BY <3>1 DEF Checkpoint, TypeInv, TypeOK
      <3>3. Snapshot.cancel_reason => Snapshot.status = "CANCELLED"
        BY DEF Snapshot
      <3> QED BY <3>1, <3>2, <3>3 DEF Checkpoint
    <2>4. CASE \E g \in Graphs : RemapGraph(g)
      BY <2>4 DEF RemapGraph
    <2>5. CASE CallTick
      BY <2>5 DEF CallTick, EnterTick
    <2>6. CASE CallRunUntilIdle
      BY <2>6 DEF CallRunUntilIdle
    <2> QED BY <1>1, <2>1, <2>2, <2>3, <2>4, <2>5, <2>6 DEF UserStep
  <1>2. CASE \E l \in Labels : Rollback(l)
    <2>1. PICK l \in Labels : Rollback(l)
      BY <1>2
    <2>2. PICK snap \in checkpoints[l] : pc = "user" /\ Restore(snap)
      BY <2>1 DEF Rollback
    <2>3. snap.cancel_reason => snap.status = "CANCELLED"
      BY <2>2
    <2>4. ~cancel_reason' /\ status' # "CANCELLED"
      BY <2>2, <2>3 DEF Restore
    <2> QED BY <2>2, <2>4 DEF Restore
  <1>3. CASE TickStep
    <2>1. CASE LoopTest
      BY <2>1 DEF LoopTest, EnterTick
    <2>2. CASE BeginEngine("phase_a")
      BY <2>2 DEF BeginEngine
    <2>3. CASE \E n \in AllNodes : FireNode(n)
      BY <2>3 DEF FireNode
    <2>4. CASE EndPhaseA
      BY <2>4 DEF EndPhaseA
    <2>5. CASE PhaseB
      BY <2>5 DEF PhaseB, WriteEdge
    <2>6. CASE Commit
      BY <2>6 DEF Commit
    <2>7. CASE Settle
      BY <2>7 DEF Settle, Verdict
    <2>8. CASE EndTick
      BY <2>8 DEF EndTick
    <2>9. CASE BodyRaises \/ GuardRaises
      BY <2>9 DEF BodyRaises, GuardRaises, Unwind
    <2> QED BY <1>3, <2>1, <2>2, <2>3, <2>4, <2>5, <2>6, <2>7, <2>8, <2>9 DEF TickStep
  <1> QED BY <1>1, <1>2, <1>3 DEF Next

\* A cancel() between ticks, or from a tick-end hook, holds: no tick overwrites
\* the status while the reason is set, whatever was saved and rolled back to.
\* (From the other hooks, from bodies and from guards it does not.)
THEOREM CancelHolds ==
  ASSUME CancelAt \subseteq Resting
  PROVE  Spec => []CancelSticks
  <1>1. Init => CancelInv
    BY DEF Init, BaseInit, CancelInv, CancelSticks
  <1>2. TypeInv /\ CancelInv /\ [Next]_vars => CancelInv'
    <2> SUFFICES ASSUME TypeInv, CancelInv, [Next]_vars PROVE CancelInv'
      OBVIOUS
    <2>1. CASE UNCHANGED vars
      BY <2>1 DEF vars, run, call, CancelInv, CancelSticks
    <2> QED BY <2>1, CancelStep
  <1>3. CancelInv => CancelSticks
    BY DEF CancelInv
  <1> QED BY <1>1, <1>2, <1>3, TypeInvariance, PTL DEF Spec

-----------------------------------------------------------------------------
(* The verdict of run_until_idle() *)

\* A loop has one set of arguments; after an empty tick nothing can fire, and
\* either nothing is pending or the status is terminal, unless a hook reset it.
LoopInv ==
  /\ loop = {} \/ \E a \in RunArgs : loop = {a}
  /\ pc = "end_hooks" /\ firings = {} =>
       /\ Fireable(graph, marking) = {}
       /\ status \in Terminal \/ ~HasPending(marking) \/ "end_hooks" \in ResetAt

LEMMA LoopUser == TypeInv /\ LoopInv /\ UserStep => LoopInv'
  <1> SUFFICES ASSUME TypeInv, LoopInv, UserStep PROVE LoopInv'
    OBVIOUS
  <1> USE DEF LoopInv, run, call
  <1>1. CASE Cancel
    BY <1>1 DEF Cancel, Terminal
  <1>2. CASE Reset
    BY <1>2 DEF Reset
  <1>3. CASE \E l \in Labels : Checkpoint(l)
    BY <1>3 DEF Checkpoint
  <1>4. CASE \E g \in Graphs : RemapGraph(g)
    BY <1>4 DEF RemapGraph
  <1>5. CASE CallTick
    BY <1>5 DEF CallTick, EnterTick
  <1>6. CASE CallRunUntilIdle
    BY <1>6 DEF CallRunUntilIdle
  <1> QED BY <1>1, <1>2, <1>3, <1>4, <1>5, <1>6 DEF UserStep

LEMMA LoopTick == TypeInv /\ StarvedInv /\ LoopInv /\ TickStep => LoopInv'
  <1> SUFFICES ASSUME TypeInv, StarvedInv, LoopInv, TickStep PROVE LoopInv'
    OBVIOUS
  <1> USE DEF LoopInv, run, call
  <1>1. CASE LoopTest
    BY <1>1 DEF LoopTest, EnterTick
  <1>2. CASE BeginEngine("phase_a")
    BY <1>2 DEF BeginEngine
  <1>3. CASE \E n \in AllNodes : FireNode(n)
    BY <1>3 DEF FireNode
  <1>4. CASE EndPhaseA
    BY <1>4 DEF EndPhaseA
  <1>5. CASE PhaseB
    BY <1>5 DEF PhaseB, WriteEdge
  <1>6. CASE Commit
    BY <1>6 DEF Commit
  <1>7. CASE Settle
    <2>1. firings = {} /\ HasPending(marking) => Verdict \in Terminal
      BY DEF Verdict, Terminal
    <2>2. HasPending(marking)' <=> HasPending(marking)
      BY <1>7 DEF Settle, HasPending
    <2>3. firings = {} => Fireable(graph, marking)' = {}
      BY <1>7 DEF Settle, StarvedInv, EmptyTick
    <2> QED BY <1>7, <2>1, <2>2, <2>3 DEF Settle
  <1>8. CASE EndTick
    BY <1>8 DEF EndTick
  <1>9. CASE BodyRaises \/ GuardRaises
    BY <1>9 DEF BodyRaises, GuardRaises, Unwind
  <1> QED BY <1>1, <1>2, <1>3, <1>4, <1>5, <1>6, <1>7, <1>8, <1>9 DEF TickStep

\* run_until_idle never walks away from work: when it returns by itself, the run
\* is terminal, at a pause, at the end of its budget, or nothing is pending (or
\* nothing can be done, if a tick-end hook may reset the run); whatever hooks and
\* callables do and whatever was cancelled or reset under way.
THEOREM LoopReturnsRightly == Spec => LoopVerdict
  <1>1. Init => LoopInv
    BY DEF Init, BaseInit, LoopInv
  <1>2. TypeInv /\ StarvedInv /\ LoopInv /\ [Next]_vars => LoopInv'
    <2> SUFFICES ASSUME TypeInv, StarvedInv, LoopInv, [Next]_vars PROVE LoopInv'
      OBVIOUS
    <2>1. CASE UNCHANGED vars
      BY <2>1 DEF vars, run, call, LoopInv
    <2>2. CASE \E l \in Labels : Rollback(l)
      BY <2>2 DEF Rollback, Restore, LoopInv
    <2> QED BY <2>1, <2>2, LoopUser, LoopTick DEF Next
  <1>3. TypeInv /\ LoopInv /\ [Next]_vars
          => [(loop' = {} /\ pc \in {"loop", "end_hooks"}) => \A a \in loop : MayLeave(a)]_vars
    <2> SUFFICES ASSUME TypeInv, LoopInv, Next, loop' = {}, pc \in {"loop", "end_hooks"},
                        NEW a \in loop
                 PROVE  MayLeave(a)
      OBVIOUS
    <2>1. loop = {a} /\ loop' # loop
      BY DEF LoopInv
    <2>2. LoopTest \/ EndTick
      <3> USE DEF run, call
      <3>1. ~\E l \in Labels : Rollback(l)
        BY DEF Rollback
      <3>2. ~UserStep
        BY <2>1 DEF UserStep, Cancel, Reset, Checkpoint, RemapGraph, CallTick, CallRunUntilIdle
      <3> QED BY <3>1, <3>2 DEF Next, TickStep, BeginEngine, FireNode, EndPhaseA, PhaseB, Commit,
                               Settle, BodyRaises, GuardRaises
    <2>3. CASE LoopTest
      <3>1. LoopStops(a)
        BY <2>1, <2>3 DEF LoopTest, EnterTick
      <3> QED BY <3>1 DEF LoopStops, MayLeave
    <2>4. CASE EndTick
      BY <2>1, <2>4 DEF EndTick, LoopInv, MayLeave
    <2> QED BY <2>2, <2>3, <2>4
  <1> QED BY <1>1, <1>2, <1>3, TypeInvariance, StarvedInvariance, PTL DEF Spec, LoopVerdict

-----------------------------------------------------------------------------
(* Promotions *)

\* A record made now would be older than none there is.
InThePast ==
  \A r \in records \cup window : r.tick <= tick_count /\ r.attempt <= raised

\* Every entry of the window stands for a record.
Backed ==
  \A e \in window : \E r \in records :
     r.node = e.node /\ r.tick = e.tick /\ r.attempt = e.attempt /\ r.outcome = e.outcome

IsNewest(e) == \A f \in window : f.node = e.node => ~IsOlder(e, f)

\* The newest entry of a node is at least as new as any record of it.
Covered ==
  \A r \in records : \E e \in window : e.node = r.node /\ ~IsOlder(e, r) /\ IsNewest(e)

WindowInv == InThePast /\ Backed /\ Covered

LEMMA WindowUser ==
  ASSUME WindowInv, UserStep
  PROVE  WindowInv'
  <1> USE DEF WindowInv, InThePast, Backed, Covered, IsNewest, run, call
  <1>1. CASE \E g \in Graphs : RemapGraph(g)
    <2>1. PICK g \in Graphs : RemapGraph(g)
      BY <1>1
    <2>2. /\ records' = {r \in records : r.node \in g.nodes}
          /\ window' = {r \in window : r.node \in g.nodes}
          /\ UNCHANGED <<tick_count, raised>>
      BY <2>1 DEF RemapGraph, KeepNodes
    <2> HIDE DEF InThePast, Backed, Covered
    <2>3. InThePast'
      BY <2>2 DEF InThePast
    <2>4. Backed'
      BY <2>2 DEF Backed
    <2>5. Covered'
      BY <2>2 DEF Covered
    <2> QED BY <2>3, <2>4, <2>5
  <1>2. CASE ~\E g \in Graphs : RemapGraph(g)
    <2>1. UNCHANGED <<records, window, tick_count, raised>>
      BY <1>2 DEF UserStep, Cancel, Reset, Checkpoint, CallTick, EnterTick, CallRunUntilIdle
    <2> QED BY <2>1
  <1> QED BY <1>1, <1>2

LEMMA WindowFire ==
  ASSUME TypeInv, WindowInv, NEW n \in AllNodes, FireNode(n)
  PROVE  WindowInv'
  <1>1. PICK outcome \in Outcomes :
          /\ records' = records \cup {NewRecord(n, outcome)}
          /\ window' = Pushed(window, {NewRecord(n, outcome)})
    BY DEF FireNode
  <1> DEFINE new == NewRecord(n, outcome)
  <1>2. new.node = n /\ new.tick = tick_count /\ new.attempt = raised
    BY DEF NewRecord
  <1>3. UNCHANGED <<tick_count, raised>> /\ tick_count \in Nat /\ raised \in Nat
    BY DEF FireNode, TypeInv, TypeOK
  <1>4. \A r \in records \cup window : r.tick \in Nat /\ r.attempt \in Nat
    BY DEF TypeInv, TypeOK, NodeState
  <1> HIDE DEF new
  <1>5. records' = records \cup {new} /\ window' = Pushed(window, {new})
    BY <1>1 DEF new
  <1>6. /\ new \in window'
        /\ window' \subseteq window \cup {new}
        /\ \A e \in window : e.node # n => e \in window'
    BY <1>2, <1>5 DEF Pushed
  <1>7. \A r \in records \cup window \cup {new} : ~IsOlder(new, r)
    BY <1>2, <1>3, <1>4 DEF WindowInv, InThePast, IsOlder
  <1>8. InThePast'
    <2>1. \A r \in records' \cup window' : r \in records \cup window \/ r = new
      BY <1>5, <1>6
    <2>2. new.tick <= tick_count /\ new.attempt <= raised
      BY <1>2, <1>3
    <2> QED BY <1>3, <2>1, <2>2 DEF WindowInv, InThePast
  <1>9. Backed'
    BY <1>5, <1>6 DEF WindowInv, Backed
  <1>10. Covered'
    <2> SUFFICES ASSUME NEW r \in records'
                 PROVE  \E e \in window' : e.node = r.node /\ ~IsOlder(e, r) /\ IsNewest(e)'
      BY DEF Covered, IsOlder
    <2>1. CASE r.node = n
      BY <1>2, <1>5, <1>6, <1>7, <2>1 DEF IsNewest, IsOlder
    <2>2. CASE r.node # n
      <3>1. PICK e \in window : e.node = r.node /\ ~IsOlder(e, r) /\ IsNewest(e)
        BY <1>2, <1>5, <2>2 DEF WindowInv, Covered
      <3>2. IsNewest(e)'
        BY <1>2, <1>6, <2>2, <3>1 DEF IsNewest, IsOlder
      <3> QED BY <1>6, <2>2, <3>1, <3>2
    <2> QED BY <2>1, <2>2
  <1> QED BY <1>8, <1>9, <1>10 DEF WindowInv

LEMMA WindowTick == TypeInv /\ WindowInv /\ TickStep => WindowInv'
  <1> SUFFICES ASSUME TypeInv, WindowInv, TickStep PROVE WindowInv'
    OBVIOUS
  <1>0. tick_count \in Nat /\ raised \in Nat
        /\ \A r \in records \cup window : r.tick \in Nat /\ r.attempt \in Nat
    BY DEF TypeInv, TypeOK, NodeState
  <1> USE DEF run, call
  <1>1. CASE \E n \in AllNodes : FireNode(n)
    BY <1>1, WindowFire
  <1>2. CASE PhaseB
    <2>1. PICK r \in firings, e \in graph.edges, v \in BOOLEAN : WriteEdge(r, e, v)
      BY <1>2 DEF PhaseB
    <2> DEFINE s == [r EXCEPT !.edges_fired = @ \cup {<<e, v>>}]
    <2>2. r \in records /\ r \in NodeState
      BY DEF TypeInv, TypeOK
    <2>3. s.node = r.node /\ s.tick = r.tick /\ s.attempt = r.attempt /\ s.outcome = r.outcome
      BY <2>2 DEF NodeState
    <2>4. records' = (records \ {r}) \cup {s} /\ UNCHANGED <<window, tick_count, raised>>
      BY <2>1 DEF WriteEdge
    <2> HIDE DEF s
    <2>5. InThePast'
      BY <2>2, <2>3, <2>4 DEF WindowInv, InThePast
    <2>6. Backed'
      BY <2>2, <2>3, <2>4 DEF WindowInv, Backed
    <2>7. Covered'
      BY <2>2, <2>3, <2>4 DEF WindowInv, Covered, IsNewest, IsOlder
    <2> QED BY <2>5, <2>6, <2>7 DEF WindowInv
  <1>3. ASSUME UNCHANGED <<records, window>>, tick_count <= tick_count', raised <= raised',
               tick_count' \in Nat, raised' \in Nat
        PROVE  WindowInv'
    BY <1>0, <1>3 DEF WindowInv, InThePast, Backed, Covered, IsNewest, IsOlder
  <1>4. CASE Settle
    BY <1>0, <1>3, <1>4 DEF Settle
  <1>5. CASE BodyRaises \/ GuardRaises
    BY <1>0, <1>3, <1>5 DEF BodyRaises, GuardRaises, Unwind
  <1>6. CASE LoopTest \/ BeginEngine("phase_a") \/ EndPhaseA \/ Commit \/ EndTick
    BY <1>0, <1>3, <1>6 DEF LoopTest, EnterTick, BeginEngine, EndPhaseA, Commit, EndTick
  <1> QED BY <1>1, <1>2, <1>4, <1>5, <1>6 DEF TickStep

\* As long as nothing is rolled back, a swap of graphs makes a start of a node
\* that has fired only if the node has returned None since its last record with a
\* value: the window the check looks at always ends with the node's last firing.
THEOREM RemapsRefuseHistory ==
  ASSUME Labels = {}
  PROVE  Spec => RemapRefusesHistory
  <1>1. Init => WindowInv
    BY DEF Init, BaseInit, WindowInv, InThePast, Backed, Covered
  <1>2. TypeInv /\ WindowInv /\ [Next]_vars => WindowInv'
    <2> SUFFICES ASSUME TypeInv, WindowInv, [Next]_vars PROVE WindowInv'
      OBVIOUS
    <2>1. CASE UNCHANGED vars
      BY <2>1 DEF vars, run, call, WindowInv, InThePast, Backed, Covered, IsNewest
    <2> QED BY <2>1, WindowUser, WindowTick DEF Next
  <1>3. TypeInv /\ WindowInv /\ [Next]_vars
          => [\A n \in (graph'.starts \cap graph.nodes) \ graph.starts :
                \A r \in records : r.node = n =>
                   \E q \in records : q.node = n /\ q.outcome = "none" /\ ~IsOlder(q, r)]_vars
    <2> SUFFICES ASSUME TypeInv, WindowInv, Next,
                        NEW n \in (graph'.starts \cap graph.nodes) \ graph.starts,
                        NEW r \in records, r.node = n
                 PROVE  \E q \in records : q.node = n /\ q.outcome = "none" /\ ~IsOlder(q, r)
      OBVIOUS
    <2>1. graph' # graph
      OBVIOUS
    <2>2. \E g \in Graphs : RemapGraph(g)
      <3> USE DEF run, call
      <3>1. ~TickStep
        BY <2>1 DEF TickStep, LoopTest, BeginEngine, FireNode, EndPhaseA, PhaseB, WriteEdge, Commit,
                    Settle, EndTick, BodyRaises, GuardRaises, Unwind
      <3> QED BY <2>1, <3>1 DEF Next, UserStep, Cancel, Reset, Checkpoint, CallTick,
                                CallRunUntilIdle
    <2>3. ~HasOutput(n)
      BY <2>2 DEF RemapGraph, MayPromote
    <2>4. PICK e \in window : e.node = n /\ ~IsOlder(e, r) /\ IsNewest(e)
      BY DEF WindowInv, Covered
    <2>5. e.outcome = "none"
      BY <2>3, <2>4 DEF HasOutput, IsNewest
    <2>6. PICK q \in records :
            q.node = e.node /\ q.tick = e.tick /\ q.attempt = e.attempt /\ q.outcome = e.outcome
      BY DEF WindowInv, Backed
    <2> QED BY <2>4, <2>5, <2>6 DEF IsOlder
  <1> QED BY <1>1, <1>2, <1>3, TypeInvariance, PTL DEF Spec, RemapRefusesHistory

-----------------------------------------------------------------------------
(* The tokens *)

USE DEF Engine

\* The conditions under which the synchronous runner is transactional: no
\* callable raises, no checkpoint is taken from an on_fire hook, the graph stays.
Undisturbed == MayRaise = {} /\ Steady

LEMMA TokenFire ==
  ASSUME TokenInv, TypeInv', NEW n \in AllNodes, FireNode(n)
  PROVE  TokenInv'
  <1>1. PICK outcome \in Outcomes :
          /\ firings' = firings \cup {NewRecord(n, outcome)}
          /\ records' = records \cup {NewRecord(n, outcome)}
    BY DEF FireNode
  <1> DEFINE new == NewRecord(n, outcome)
  <1>2. /\ pc = "phase_a" /\ pc' = "phase_a" /\ n \notin Fired /\ m_next' = Consume(graph, n, m_next)
        /\ UNCHANGED <<graph, marking, tick_count, checkpoints>>
    BY DEF FireNode
  <1>3. new.tick = tick_count /\ new.node = n /\ new.edges_fired = {}
    BY DEF NewRecord
  <1>4. /\ firings = {r \in records : r.tick = tick_count}
        /\ \A r \in records : r.tick <= tick_count
        /\ tick_count \in Nat
    BY <1>2 DEF TokenInv, CurrentTick, TypeInv, TypeOK
  <1> HIDE DEF new
  <1>5. firings' = firings \cup {new} /\ records' = records \cup {new}
    BY <1>1 DEF new
  <1>6. CurrentTick'
    BY <1>2, <1>3, <1>4, <1>5 DEF CurrentTick
  <1>7. Committed' = Committed
    BY <1>2, <1>3, <1>4, <1>5 DEF Committed, Ticks
  <1>8. MarkingInv' /\ SavedInv'
    BY <1>2, <1>7 DEF TokenInv, MarkingInv, SavedInv
  <1>9. OncePerTick(records)'
    <2>1. \A q \in records : q.tick = tick_count => q.node # n
      BY <1>2, <1>4 DEF Fired
    <2> QED BY <1>3, <1>5, <2>1 DEF TokenInv, OncePerTick
  <1>10. PhaseAInv' /\ \A r \in firings' : r.edges_fired = {}
    BY <1>2, <1>3, <1>5 DEF TokenInv, PhaseAInv
  <1>11. WrittenInv'
    BY <1>10 DEF WrittenInv, Written
  <1>12. NextInv'
    <2>1. Fired' = Fired \cup {n}
      BY <1>3, <1>5 DEF Fired
    <2>2. \A r \in firings : \A d : ~Rewritten(r, d)
      BY <1>2 DEF TokenInv, PhaseAInv, Rewritten, Written
    <2>3. \A r \in firings' : \A d : ~(\E e \in {w[1] : w \in r.edges_fired} : e.dst = d)
      BY <1>10
    <2>4. \A slot \in Slots(graph) : slot \in m_next.tokens <=> slot \in marking.tokens /\ slot[1] \notin Fired
      BY <1>2, <2>2 DEF TokenInv, NextInv
    <2>5. \A slot \in Slots(graph) : slot \in m_next'.tokens <=> slot \in m_next.tokens /\ slot[1] # n
      <3> SUFFICES ASSUME NEW e \in graph.edges
                   PROVE  <<e.dst, e.src>> \in m_next'.tokens <=> <<e.dst, e.src>> \in m_next.tokens /\ e.dst # n
        BY DEF Slots
      <3>1. m_next'.tokens = m_next.tokens \ {<<n, p>> : p \in Producers(graph, n)}
        BY <1>2 DEF Consume
      <3>2. e.dst = n => e.src \in Producers(graph, n)
        BY DEF Producers, InEdges
      <3> QED BY <3>1, <3>2
    <2>6. m_next'.tokens \subseteq Slots(graph) /\ m_next'.armed = m_next.armed \ {n}
      BY <1>2 DEF Consume, TokenInv, NextInv
    <2>7. m_next.armed = marking.armed \ Fired
      BY <1>2 DEF TokenInv, NextInv
    <2>8. m_next'.armed = marking.armed \ Fired'
      BY <2>1, <2>6, <2>7
    <2>9. \A slot \in Slots(graph) :
            slot \in m_next'.tokens <=> slot \in marking.tokens /\ slot[1] \notin Fired'
      BY <2>1, <2>4, <2>5
    <2> QED BY <1>2, <2>3, <2>6, <2>8, <2>9 DEF NextInv, Rewritten, Written
  <1> QED BY <1>6, <1>8, <1>9, <1>10, <1>11, <1>12 DEF TokenInv

LEMMA TokenEndPhaseA ==
  ASSUME TokenInv, TypeInv', EndPhaseA
  PROVE  TokenInv'
  <1>1. /\ pc = "phase_a" /\ pc' = "phase_b"
        /\ UNCHANGED <<graph, marking, tick_count, records, checkpoints, m_next, firings>>
    BY DEF EndPhaseA, run
  <1>2. Committed' = Committed /\ Fired' = Fired
    BY <1>1 DEF Committed, Ticks, Fired
  <1>3. CurrentTick' /\ MarkingInv' /\ SavedInv'
    BY <1>1, <1>2 DEF TokenInv, CurrentTick, MarkingInv, SavedInv
  <1>4. NextInv'
    BY <1>1, <1>2 DEF TokenInv, NextInv
  <1>5. OncePerTick(records)' /\ WrittenInv' /\ PhaseAInv'
    BY <1>1 DEF TokenInv, OncePerTick, WrittenInv, Unwritten, PhaseAInv
  <1> QED BY <1>3, <1>4, <1>5 DEF TokenInv

-----------------------------------------------------------------------------
(* The theorems *)

LEMMA TokenStep == Undisturbed /\ TokenInv /\ [Next]_vars => TokenInv'
  <1> SUFFICES ASSUME Undisturbed, TokenInv, [Next]_vars PROVE TokenInv'
    OBVIOUS
  <1>1. CASE UNCHANGED vars
    BY <1>1, TokenStutters
  <1>2. CASE UserStep
    BY <1>2, TokenUser DEF Undisturbed
  <1>3. CASE \E l \in Labels : Rollback(l)
    BY <1>3, TokenRollback
  <1>4. CASE TickStep
    <2>0. TypeInv'
      BY <1>4, TypeTick DEF TokenInv
    <2>1. CASE SharedStep
      BY <2>1, TokenShared
    <2>2. CASE \E n \in AllNodes : FireNode(n)
      BY <2>0, <2>2, TokenFire
    <2>3. CASE EndPhaseA
      BY <2>0, <2>3, TokenEndPhaseA
    <2>4. ~BodyRaises /\ ~GuardRaises
      BY DEF BodyRaises, GuardRaises, Undisturbed
    <2>5. PhaseB => SharedStep
      BY DEF PhaseB, SharedStep
    <2> QED BY <1>4, <2>1, <2>2, <2>3, <2>4, <2>5 DEF TickStep, SharedStep
  <1> QED BY <1>1, <1>2, <1>3, <1>4 DEF Next

LEMMA TokenInvariance ==
  ASSUME Undisturbed
  PROVE  Spec => []TokenInv
  <1>1. Init => TokenInv
    BY TokenInit DEF Init
  <1> QED BY <1>1, TokenStep, PTL DEF Spec

\* Undisturbed, a True slot is always backed by a recorded firing that delivered
\* it and that nothing has consumed since: the marking holds no token from
\* nowhere, on every graph and whatever was rolled back to.
THEOREM NoTokenFromNowhere ==
  ASSUME Undisturbed
  PROVE  Spec => []NoPhantomToken
  BY TokenInvariance, TokenMeans, PTL

\* Undisturbed, every token that a recorded firing delivered is in its slot.
THEOREM NoTokenLost ==
  ASSUME Undisturbed
  PROVE  Spec => []NoLostToken
  BY TokenInvariance, TokenMeans, PTL

\* Undisturbed, every start that has not fired is armed.
THEOREM NoStartStranded ==
  ASSUME Undisturbed
  PROVE  Spec => []NoStrandedStart
  BY TokenInvariance, TokenMeans, PTL

\* Undisturbed, a node has at most one record for a tick, through any number of
\* rollbacks and replays.
THEOREM OneRecordPerTick ==
  ASSUME Undisturbed
  PROVE  Spec => []AtMostOncePerTick
  BY TokenInvariance, TokenMeans, PTL

-----------------------------------------------------------------------------
(* The runner implements the net *)

LEMMA TickStepKeeps ==
  ASSUME Undisturbed, TokenInv, TickInv, TickStep
  PROVE  TickInv' /\ [Net!Next]_(Net!vars)
  <1>0. TypeOK /\ TypeOK' /\ tick_count \in Nat /\ \A r \in records : r.tick \in Nat
    BY TypeTick DEF TokenInv, TypeInv, TypeOK, NodeState
  <1>1. CASE SharedStep
    BY <1>1, TickShared, NetShared DEF TokenInv
  <1>2. CASE \E n \in AllNodes : FireNode(n)
    <2>1. PICK n \in AllNodes : FireNode(n)
      BY <1>2
    <2>2. PICK outcome \in Outcomes :
            /\ firings' = firings \cup {NewRecord(n, outcome)}
            /\ records' = records \cup {NewRecord(n, outcome)}
      BY <2>1 DEF FireNode
    <2>3. pc = "phase_a" /\ UNCHANGED <<graph, marking, tick_count, checkpoints, pc, fireable>>
      BY <2>1 DEF FireNode
    <2>4. NewRecord(n, outcome).tick = tick_count /\ NewRecord(n, outcome).edges_fired = {}
      BY DEF NewRecord
    <2>5. Ticks = tick_count /\ Ticks' = tick_count /\ Committed' = Committed
      BY <1>0, <2>2, <2>3, <2>4 DEF Ticks, Committed
    <2>6. TickInv'
      BY <2>2, <2>3, <2>4 DEF TickInv, EdgeValues
    <2> QED BY <1>0, <2>3, <2>5, <2>6, NetStutters
  <1>3. CASE EndPhaseA
    <2>1. UNCHANGED <<graph, checkpoints>> /\ Ticks' = Ticks /\ Committed' = Committed
      BY <1>3 DEF EndPhaseA, run, Ticks, Committed
    <2>2. TickInv'
      BY <1>3 DEF EndPhaseA, run, TickInv, Fired, EdgeValues
    <2> QED BY <1>0, <2>1, <2>2, NetStutters
  <1>4. ~BodyRaises /\ ~GuardRaises
    BY DEF BodyRaises, GuardRaises, Undisturbed
  <1>5. PhaseB => SharedStep
    BY DEF PhaseB, SharedStep
  <1> QED BY <1>1, <1>2, <1>3, <1>4, <1>5 DEF TickStep, SharedStep

\* Undisturbed, the synchronous runner implements the net: every tick amounts to
\* one atomic firing of all enabled nodes, which happens when the new marking is
\* installed, and every rollback returns to a log that was really reached.
THEOREM RunnerImplementsNet ==
  ASSUME Undisturbed
  PROVE  Spec => ImplementsNet
  <1>1. Init => TickInv /\ Net!Init
    BY TickInit, NetInit DEF Init
  <1>2. TokenInv /\ TickInv /\ [Next]_vars => TickInv' /\ [Net!Next]_(Net!vars)
    <2> SUFFICES ASSUME TokenInv, TickInv, [Next]_vars
                 PROVE  TickInv' /\ [Net!Next]_(Net!vars)
      OBVIOUS
    <2>1. CASE UserStep
      BY <2>1, TickUser, NetUser DEF Undisturbed
    <2>2. CASE \E l \in Labels : Rollback(l)
      BY <2>2, TickRollback, NetRollback DEF Net!Next
    <2>3. CASE TickStep
      BY <2>3, TickStepKeeps
    <2>4. CASE UNCHANGED vars
      <3>1. TickInv'
        BY <2>4 DEF vars, run, call, TickInv, Fired, EdgeValues
      <3>2. TypeOK /\ TypeOK'
        BY <2>4 DEF TokenInv, TypeInv, TypeOK, vars, run, call
      <3>3. UNCHANGED <<graph, checkpoints>> /\ Ticks' = Ticks /\ Committed' = Committed
        BY <2>4 DEF vars, run, call, Ticks, Committed
      <3> QED BY <3>1, <3>2, <3>3, NetStutters
    <2> QED BY <2>1, <2>2, <2>3, <2>4 DEF Next
  <1> QED BY <1>1, <1>2, TokenInvariance, PTL DEF Spec, ImplementsNet, Net!Spec

=============================================================================
