---------------------------- MODULE AsyncRunner ----------------------------
(***************************************************************************)
(* The asyncio AsyncRunner: async_tick gathers the bodies of all fireable  *)
(* nodes, records the firings only when every body has answered, and then  *)
(* gathers one coroutine per firing that writes its out-edges.  Bodies     *)
(* answer in any order, writes of different firings interleave, and other  *)
(* tasks (cancel, checkpoint) run at every await.                          *)
(*                                                                         *)
(* asyncio.gather does not cancel the other coroutines when one raises:    *)
(* bodies keep running and their results are dropped; coroutines that were *)
(* writing out-edges keep writing, into a marking that nobody installs and *)
(* into the edges_fired of records that are in the history.                *)
(***************************************************************************)
EXTENDS BaseRunner

VARIABLES
  running,   \* the nodes whose body the active gather still waits for
  answers,   \* the <<node, status>> of the bodies that have answered
  orphans,   \* nodes with a body that outlived the tick that started it
  strays     \* the [firing, left]: firings whose coroutine outlived the tick,
             \* with the edges it has left to write

async == <<running, answers, orphans, strays>>
avars == <<vars, async>>

Init ==
  /\ BaseInit
  /\ running = {}
  /\ answers = {}
  /\ orphans = {}
  /\ strays = {}

\* Faulty variant: gathers the bodies of all nodes.
StartAllBodies ==
  /\ BeginEngine("phase_a")
  /\ running' = graph.nodes
  /\ answers' = {}
  /\ UNCHANGED <<orphans, strays>>

\* gather() schedules one body for each fireable node.
StartBodies ==
  /\ BeginEngine("phase_a")
  /\ running' = fireable
  /\ answers' = {}
  /\ UNCHANGED <<orphans, strays>>

\* Faulty variant: a firing is recorded as soon as its body answers.
BodyAnswersRecorded(n) ==
  /\ pc = "phase_a"
  /\ n \in running
  /\ running' = running \ {n}
  /\ \E outcome \in Outcomes :
       /\ answers' = answers \cup {<<n, outcome>>}
       /\ records' = records \cup {NewRecord(n, outcome)}
       /\ window' = Pushed(window, {NewRecord(n, outcome)})
  /\ UNCHANGED <<graph, marking, tick_count, status, cancel_reason, checkpoints, call,
                 orphans, strays>>

BodyAnswers(n) ==
  /\ pc = "phase_a"
  /\ n \in running
  /\ running' = running \ {n}
  /\ \E outcome \in Outcomes : answers' = answers \cup {<<n, outcome>>}
  /\ UNCHANGED <<vars, orphans, strays>>

\* The first exception ends gather() and the tick.
BodyRaises(n) ==
  /\ "body" \in MayRaise
  /\ pc = "phase_a"
  /\ n \in running
  /\ Unwind
  /\ orphans' = orphans \cup (running \ {n})
  /\ running' = {}
  /\ answers' = {}
  /\ UNCHANGED strays

OrphanEnds(n) ==
  /\ n \in orphans
  /\ orphans' = orphans \ {n}
  /\ UNCHANGED <<vars, running, answers, strays>>

RecordWith(tokens) ==
  /\ pc = "phase_a"
  /\ firings' = {NewRecord(a[1], a[2]) : a \in answers}
  /\ records' = records \cup firings'
  /\ window' = Pushed(window, firings')
  /\ m_next' = [tokens |-> tokens, armed |-> m_next.armed \ fireable]
  /\ pc' = "phase_b"
  /\ running' = {}
  /\ answers' = {}
  /\ UNCHANGED <<graph, marking, tick_count, status, cancel_reason, checkpoints,
                 loop, fireable, raised, orphans, strays>>

UnusedTokens == {slot \in m_next.tokens : slot[1] \notin fireable}

\* Faulty variant: the slots are not reset.
RecordAllNoReset == running = {} /\ RecordWith(m_next.tokens)

\* Faulty variant: does not wait for the peers of an infrastructure failure.
RecordAllEarly ==
  /\ running = {} \/ \E a \in answers : a[2] = "aborted"
  /\ RecordWith(UnusedTokens)

\* gather() returned: record every firing, consume every slot.
RecordAll == running = {} /\ RecordWith(UnusedTokens)

\* One of the coroutines of the second gather() writes its next edge.
PhaseB ==
  /\ pc = "phase_b"
  /\ \E r \in firings : \E e \in graph.edges, v \in BOOLEAN : WriteEdge(r, e, v)
  /\ UNCHANGED async

\* The guard of firing r's next edge raises: the other coroutines go astray.
GuardRaises(r) ==
  /\ "guard" \in MayRaise
  /\ pc = "phase_b"
  /\ r \in firings
  /\ r.outcome \notin Failures
  /\ \E e \in Unwritten(r) : e.guarded /\ IsFirst(e, Unwritten(r))
  /\ Unwind
  /\ strays' = strays \cup
       {[firing |-> q, left |-> Unwritten(q)] : q \in {p \in firings \ {r} : Unwritten(p) # {}}}
  /\ UNCHANGED <<running, answers, orphans>>

\* Faulty variant: the tick works on the shared marking, not on its own copy.
StrayWritesMarking(s) ==
  /\ s \in strays
  /\ \E e \in s.left : \E v \in EdgeValues(s.firing, e) :
       /\ IsFirst(e, s.left)
       /\ m_next' = Produce(e, v, m_next)
  /\ strays' = strays \ {s}
  /\ UNCHANGED <<run, pc, loop, fireable, firings, raised, running, answers, orphans>>

\* A stray coroutine writes its next edge: only the record, if it is still in
\* the history, sees it.
StrayWrites(s) ==
  /\ s \in strays
  /\ \E e \in s.left : \E v \in EdgeValues(s.firing, e) :
       LET done == [s.firing EXCEPT !.edges_fired = @ \cup {<<e, v>>}]
       IN /\ IsFirst(e, s.left)
          /\ records' = IF s.firing \in records
                          THEN (records \ {s.firing}) \cup {done} ELSE records
          /\ strays' = (strays \ {s}) \cup
               {[firing |-> done, left |-> left] : left \in {s.left \ {e}} \ {{}}}
  /\ UNCHANGED <<graph, marking, tick_count, status, cancel_reason, window, checkpoints, call,
                 running, answers, orphans>>

\* Its guard raises: nobody retrieves the exception.
StrayRaises(s) ==
  /\ "guard" \in MayRaise
  /\ s \in strays
  /\ s.firing.outcome \notin Failures
  /\ \E e \in s.left : e.guarded /\ IsFirst(e, s.left)
  /\ strays' = strays \ {s}
  /\ UNCHANGED <<vars, running, answers, orphans>>

\* A rollback replaces the records: strays write into objects nobody holds.
RollbackDetaches(l) ==
  /\ Rollback(l)
  /\ strays' = {}
  /\ UNCHANGED <<running, answers, orphans>>

TickStep ==
  \/ StartBodies
  \/ \E n \in AllNodes : BodyAnswers(n) \/ BodyRaises(n)
  \/ RecordAll
  \/ PhaseB
  \/ \E r \in firings : GuardRaises(r)
  \/ (LoopTest \/ Commit \/ Settle \/ EndTick) /\ UNCHANGED async

Next ==
  \/ TickStep
  \/ UserStep /\ UNCHANGED async
  \/ \E l \in Labels : RollbackDetaches(l)
  \/ \E n \in AllNodes : OrphanEnds(n)
  \/ \E s \in strays : StrayWrites(s) \/ StrayRaises(s)

Spec == Init /\ [][Next]_avars

\* Every awaited body and guard completes and the event loop runs every ready
\* task, so a call that is under way goes on.
FairSpec == Spec /\ WF_avars(TickStep)

-----------------------------------------------------------------------------
(* Properties *)

AsyncTypeOK ==
  /\ TypeOK
  /\ running \subseteq fireable
  /\ answers \subseteq graph.nodes \X Outcomes
  /\ orphans \subseteq AllNodes
  /\ strays \subseteq [firing : NodeState, left : SUBSET AllEdges]

\* A tick is recorded as a whole or not at all.  When a call is over, the
\* records of a tick that was not counted (a guard raised) are those of all the
\* nodes that were fireable: a body that raises leaves no record of its peers.
RecordedWhole ==
  pc = "user" =>
    LET now == {r.node : r \in {q \in records : q.tick >= tick_count}}
    IN now = {} \/ now = Fireable(graph, marking)

\* Every tick() and every run_until_idle() returns.
CallsReturn == (pc # "user") ~> (pc = "user")

=============================================================================
