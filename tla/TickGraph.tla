----------------------------- MODULE TickGraph -----------------------------
(***************************************************************************)
(* The static half of tickflow: the graph of src/tickflow/ir.py and the    *)
(* pure functions the engine computes from a graph and a marking.          *)
(*                                                                         *)
(* A graph is a record                                                     *)
(*   nodes   the node names                                                *)
(*   order   node -> position in the `nodes` dict (declaration order,      *)
(*           which is the order in which the sync engine fires)            *)
(*   starts  the nodes marked as start                                     *)
(*   join    node -> "AND" | "OR"                                          *)
(*   edges   records [src, dst, guarded, pos]; pos is the position in the  *)
(*           `edges` list, so two edges may join the same two nodes        *)
(*                                                                         *)
(* A marking keeps the slots that are True: the code reads a slot with     *)
(* `.get(slot, False)`, so a False slot and an absent one are the same.    *)
(***************************************************************************)
EXTENDS Integers, FiniteSets

CONSTANT Graphs  \* the graphs a runner may be given

IsGraph(g) ==
  /\ IsFiniteSet(g.nodes)
  /\ g.order \in [g.nodes -> Nat]
  /\ \A m, n \in g.nodes : g.order[m] = g.order[n] => m = n
  /\ g.starts \in SUBSET g.nodes
  /\ g.join \in [g.nodes -> {"AND", "OR"}]
  /\ g.edges \in SUBSET [src : g.nodes, dst : g.nodes, guarded : BOOLEAN, pos : Nat]
  /\ IsFiniteSet(g.edges)
  /\ \A e, f \in g.edges : e.pos = f.pos => e = f

ASSUME GraphsAssumption == \A g \in Graphs : IsGraph(g)

AllNodes == UNION {g.nodes : g \in Graphs}
AllEdges == UNION {g.edges : g \in Graphs}

-----------------------------------------------------------------------------
(* Adjacency *)

InEdges(g, n)   == {e \in g.edges : e.dst = n}
OutEdges(g, n)  == {e \in g.edges : e.src = n}
Producers(g, n) == {e.src : e \in InEdges(g, n)}
Consumers(g, n) == {e.dst : e \in OutEdges(g, n)}
Slots(g)        == {<<e.dst, e.src>> : e \in g.edges}

\* The edges from s to d in which the last one written decides: writes are
\* made in the order of the edge list and share the one slot (d, s).
IsLastEdge(E, e) == \A f \in E : f.src = e.src /\ f.dst = e.dst => f.pos <= e.pos

-----------------------------------------------------------------------------
(* Marking *)

Marking == [tokens : SUBSET (AllNodes \X AllNodes), armed : SUBSET AllNodes]

Bootstrap(g) == [tokens |-> {}, armed |-> g.starts]

\* Faulty variant: an OR-join waits for all its producers.
JoinSatisfiedByAll(g, n, m) ==
  \/ n \in m.armed
  \/ /\ Producers(g, n) # {}
     /\ \A p \in Producers(g, n) : <<n, p>> \in m.tokens

JoinSatisfied(g, n, m) ==
  \/ n \in m.armed
  \/ /\ Producers(g, n) # {}
     /\ \/ /\ g.join[n] = "AND"
           /\ \A p \in Producers(g, n) : <<n, p>> \in m.tokens
        \/ /\ g.join[n] = "OR"
           /\ \E p \in Producers(g, n) : <<n, p>> \in m.tokens

Fireable(g, m) == {n \in g.nodes : JoinSatisfied(g, n, m)}

HasPending(m) == m.armed # {} \/ m.tokens # {}

\* Faulty variant: the slots of the node that fires are not reset.
ConsumeNoReset(g, n, m) == [m EXCEPT !.armed = @ \ {n}]

\* Faulty variant: a tick starts from an empty marking instead of a copy.
ConsumeFresh(g, n, m) == [tokens |-> {}, armed |-> m.armed \ {n}]

Consume(g, n, m) ==
  [tokens |-> m.tokens \ {<<n, p>> : p \in Producers(g, n)},
   armed  |-> m.armed \ {n}]

Produce(e, v, m) ==
  [m EXCEPT !.tokens = IF v THEN @ \cup {<<e.dst, e.src>>}
                            ELSE @ \ {<<e.dst, e.src>>}]

=============================================================================
