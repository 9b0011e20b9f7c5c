----------------------------- MODULE MCPetriNet -----------------------------
(* The abstract net on every two-node graph with one start, every three-node
   acyclic graph and the example shapes with cycles. *)
EXTENDS PetriNet, MCGraphs

NetGraphs ==
  {g \in TwoNodeGraphs : g.starts = {"a"}} \cup ThreeNodeDags \cup {Loop, Retry, Parallel}

=============================================================================
