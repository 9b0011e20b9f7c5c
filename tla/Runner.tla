------------------------------- MODULE Runner -------------------------------
(***************************************************************************)
(* The synchronous Runner: tickflow.engine.tick runs the bodies one after  *)
(* the other in declaration order, recording each firing at once, and then *)
(* writes the out-edges firing by firing.                                  *)
(***************************************************************************)
EXTENDS BaseRunner

\* Phase A for one node: run the body, record the firing, consume the slots.
FireNode(n) ==
  /\ pc = "phase_a"
  /\ n \in fireable \ Fired
  /\ \A k \in fireable \ Fired : graph.order[n] <= graph.order[k]
  /\ \E outcome \in Outcomes :
       /\ firings' = firings \cup {NewRecord(n, outcome)}
       /\ records' = records \cup {NewRecord(n, outcome)}
       /\ window' = Pushed(window, {NewRecord(n, outcome)})
  /\ m_next' = Consume(graph, n, m_next)
  /\ UNCHANGED <<graph, marking, tick_count, status, cancel_reason, checkpoints,
                 pc, loop, fireable, raised>>

\* Faulty variant: an infrastructure failure cuts the tick short.
EndPhaseAEarly ==
  /\ pc = "phase_a"
  /\ Fired = fireable \/ \E r \in firings : r.outcome = "aborted"
  /\ pc' = "phase_b"
  /\ UNCHANGED <<run, loop, fireable, m_next, firings, raised>>

EndPhaseA ==
  /\ pc = "phase_a"
  /\ Fired = fireable
  /\ pc' = "phase_b"
  /\ UNCHANGED <<run, loop, fireable, m_next, firings, raised>>

\* The firing Phase B is at: the first, in firing order, with edges to write.
IsCurrent(r) ==
  /\ r \in firings
  /\ Unwritten(r) # {}
  /\ \A q \in firings : Unwritten(q) # {} => graph.order[r.node] <= graph.order[q.node]

PhaseB ==
  /\ pc = "phase_b"
  /\ \E r \in firings : IsCurrent(r) /\ \E e \in graph.edges, v \in BOOLEAN : WriteEdge(r, e, v)

\* The body of the next node raises: the nodes before it stay recorded.
BodyRaises ==
  /\ "body" \in MayRaise
  /\ pc = "phase_a"
  /\ Fired # fireable
  /\ Unwind

\* The guard of the edge Phase B is at raises.
GuardRaises ==
  /\ "guard" \in MayRaise
  /\ pc = "phase_b"
  /\ \E r \in firings :
       /\ IsCurrent(r)
       /\ r.outcome \notin Failures
       /\ \E e \in Unwritten(r) : e.guarded /\ IsFirst(e, Unwritten(r))
  /\ Unwind

Init == BaseInit

\* The steps of a call that is under way.
TickStep ==
  \/ LoopTest
  \/ BeginEngine("phase_a")
  \/ \E n \in AllNodes : FireNode(n)
  \/ EndPhaseA
  \/ PhaseB
  \/ Commit
  \/ Settle
  \/ EndTick
  \/ BodyRaises
  \/ GuardRaises

Next ==
  \/ UserStep
  \/ \E l \in Labels : Rollback(l)
  \/ TickStep

Spec == Init /\ [][Next]_vars

\* Callbacks return, so a call that is under way goes on.  The user owes
\* nothing: no fairness on UserStep.
FairSpec == Spec /\ WF_vars(TickStep)

-----------------------------------------------------------------------------
(* Liveness *)

\* Every tick() and every run_until_idle() returns, on cyclic graphs too.
CallsReturn == (pc # "user") ~> (pc = "user")

=============================================================================
