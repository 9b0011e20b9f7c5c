------------------------------ MODULE PetriNet ------------------------------
(***************************************************************************)
(* What the runners promise: the graph is a Petri net that advances in     *)
(* atomic steps.  One step fires every enabled node at once; a firing      *)
(* consumes the tokens in the node's slots and writes each out-edge, True  *)
(* or False.  The state is nothing but the log of the steps taken: log[t]  *)
(* maps each node fired in tick t-1 to the set of consumers it handed a    *)
(* token.  There is no slot variable: which slots hold a token, which      *)
(* starts are still armed and which nodes may fire are read off the log.   *)
(***************************************************************************)
EXTENDS TickGraph, Sequences

CONSTANTS Labels,     \* checkpoint labels
          MaxTicks    \* bound: no step is taken from a log of this length

ASSUME MaxTicksAssumption == MaxTicks \in Nat

VARIABLES graph, log, saved

vars == <<graph, log, saved>>

-----------------------------------------------------------------------------
(* The marking a log stands for *)

\* Slot (d, s) is True: some firing of s wrote it so, s did not fire again,
\* and d did not fire in a later step (in the same step d consumed the slot
\* before s wrote it).
Token(l, d, s) ==
  \E t \in DOMAIN l :
     /\ s \in DOMAIN l[t]
     /\ d \in l[t][s]
     /\ \A u \in DOMAIN l : u > t => s \notin DOMAIN l[u] /\ d \notin DOMAIN l[u]

NeverFired(l, n) == \A t \in DOMAIN l : n \notin DOMAIN l[t]

\* Faulty variant: a start is armed again whenever it holds no token.
MarkingRearmed(g, l) ==
  [tokens |-> {slot \in Slots(g) : Token(l, slot[1], slot[2])}, armed |-> g.starts]

MarkingOf(g, l) ==
  [tokens |-> {slot \in Slots(g) : Token(l, slot[1], slot[2])},
   armed  |-> {n \in g.starts : NeverFired(l, n)}]

Enabled(g, l) == Fireable(g, MarkingOf(g, l))

\* A firing that did not fail hands a token to every consumer whose last edge
\* is unguarded and to any of the others; a failed one to nobody.
Forced(g, n) ==
  {e.dst : e \in {f \in OutEdges(g, n) : ~f.guarded /\ IsLastEdge(g.edges, f)}}

Deliveries(g, n) ==
  {{}} \cup {W \in SUBSET Consumers(g, n) : Forced(g, n) \subseteq W}

\* The steps that fire exactly the nodes of F.
Steps(g, F) ==
  {step \in [F -> SUBSET g.nodes] : \A n \in F : step[n] \in Deliveries(g, n)}

-----------------------------------------------------------------------------

Init ==
  /\ graph \in Graphs
  /\ log = <<>>
  /\ saved = [l \in Labels |-> {}]

Tick ==
  /\ Len(log) < MaxTicks
  /\ \E step \in Steps(graph, Enabled(graph, log)) : log' = Append(log, step)
  /\ UNCHANGED <<graph, saved>>

Checkpoint(l) ==
  /\ saved' = [saved EXCEPT ![l] = {log}]
  /\ UNCHANGED <<graph, log>>

\* Faulty variant: the marking is rolled back but the tick count is not.
RollbackKeepsTick(l) ==
  /\ \E old \in saved[l] :
       log' = [t \in DOMAIN log |-> IF t \in DOMAIN old THEN old[t] ELSE <<>>]
  /\ UNCHANGED <<graph, saved>>

Rollback(l) ==
  /\ log' \in saved[l]
  /\ UNCHANGED <<graph, saved>>

Next ==
  \/ Tick
  \/ \E l \in Labels : Checkpoint(l) \/ Rollback(l)

Spec == Init /\ [][Next]_vars

-----------------------------------------------------------------------------
(* Properties *)

\* No idle gap.  A node that fires in any tick but the first was handed a
\* token in the tick just before: nothing enabled is ever left waiting, so no
\* firing can come late (tickflow.engine.tick fires the whole fireable set).
NoIdleGap ==
  \A t \in DOMAIN log : t > 1 =>
    \A n \in DOMAIN log[t] : \E s \in DOMAIN log[t - 1] : n \in log[t - 1][s]

\* An acyclic graph runs dry.  Whatever bodies and guards answer, the firings
\* of a graph without cycles all lie in its first |nodes| ticks, so
\* run_until_idle(max_ticks > |nodes|) always comes to rest by itself.
Acyclic(g) ==
  \E depth \in [g.nodes -> 1 .. Cardinality(g.nodes)] :
     \A e \in g.edges : depth[e.src] < depth[e.dst]

AcyclicRunsDry ==
  (\E t \in DOMAIN log : t > Cardinality(graph.nodes) /\ DOMAIN log[t] # {})
     => ~Acyclic(graph)

=============================================================================
