------------------------------ MODULE Checker ------------------------------
(***************************************************************************)
(* The static checks of src/tickflow/checker.py and the way to a runner:   *)
(* check() suggests AND-joins to promote, the user promotes some, the      *)
(* runner is constructed, which refuses a graph with suggestions unless    *)
(* strict_deadlock is off; check_unguarded_cycles() warns of cycles        *)
(* without an exit.                                                        *)
(*                                                                         *)
(* What the checks predict is compared with what the net can do.  Instead  *)
(* of one run, `front` carries all runs at once, tick by tick, under the   *)
(* assumption check() is made for: a splitter's guards exclude each other. *)
(* A run is its marking, the set of nodes that have fired in it and those  *)
(* of them whose body returned a Failure.  An infrastructure Failure also  *)
(* ends the run: that leaves a beginning of it, which is among the runs.   *)
(*                                                                         *)
(* A graph has one field more than in TickGraph: guard, from its guarded   *)
(* edges to the names of their guard functions.                            *)
(***************************************************************************)
EXTENDS TickGraph

HasGuards(g) ==
  /\ g = [nodes |-> g.nodes, order |-> g.order, starts |-> g.starts, join |-> g.join,
          edges |-> g.edges, guard |-> g.guard]
  /\ DOMAIN g.guard = {e \in g.edges : e.guarded}

ASSUME CheckerAssumption == \A g \in Graphs : HasGuards(g)

VARIABLES
  graph,
  phase,        \* "fresh", "asked" (check() has answered), "running", "over"
  suggestions,  \* what is left of check()'s answer: <<join, splitter>> pairs
  front,        \* the runs, as they stand just now
  seen,         \* all the runs so far
  promoted      \* the joins that were promoted

vars == <<graph, phase, suggestions, front, seen, promoted>>

-----------------------------------------------------------------------------
(* Reachability *)

\* The nodes that next, a function from nodes to sets of nodes, leads to from
\* those in S, themselves included.
Reached(next, S) ==
  LET reach[i \in 0 .. Cardinality(DOMAIN next)] ==
        IF i = 0 THEN S ELSE reach[i - 1] \cup UNION {next[n] : n \in reach[i - 1]}
  IN reach[Cardinality(DOMAIN next)]

\* The nodes that have a path from n, and those that have a path to one in S.
ReachableFrom(g, n) == Reached([k \in g.nodes |-> Consumers(g, k)], {n})
LeadingTo(g, S)     == Reached([k \in g.nodes |-> Producers(g, k)], S)

-----------------------------------------------------------------------------
(* check() *)

GuardedEdges(g, n) == {e \in OutEdges(g, n) : e.guarded}
GuardNames(g, n)   == {g.guard[e] : e \in GuardedEdges(g, n)}
IsXorSplitter(g, n) == Cardinality(GuardedEdges(g, n)) >= 2

\* Faulty variant: a branch is its first node.
ReachableShort(g, start) == {start}

\* The nodes on paths from start that do not go on past a merge.
ReachableUntilMerge(g, start) ==
  Reached([n \in g.nodes |-> IF n = start \/ Cardinality(Producers(g, n)) < 2
                               THEN Consumers(g, n) ELSE {}],
          {start})

\* Guard name -> branch; of two edges with one guard the first decides.
BranchesOf(g, b) ==
  [name \in GuardNames(g, b) |->
     LET first == CHOOSE e \in GuardedEdges(g, b) :
                    /\ g.guard[e] = name
                    /\ \A f \in GuardedEdges(g, b) : g.guard[f] = name => e.pos <= f.pos
     IN ReachableUntilMerge(g, first.dst) \ {b}]

\* Faulty variant: does not ask whether the branches are the same.
OnAnyBranches(g, m, b) ==
  Cardinality(Producers(g, m) \cap UNION {BranchesOf(g, b)[name] : name \in GuardNames(g, b)}) > 1

\* Two producers of m lie on branches of b, and share none.
OnDistinctBranches(g, m, b) ==
  LET branches   == BranchesOf(g, b)
      GuardsTo(p) == {name \in DOMAIN branches : p \in branches[name]}
  IN \E p, q \in Producers(g, m) :
       /\ GuardsTo(p) # {}
       /\ GuardsTo(q) # {}
       /\ GuardsTo(p) \cap GuardsTo(q) = {}

Check(g) ==
  {s \in g.nodes \X g.nodes :
     /\ g.join[s[1]] = "AND"
     /\ IsXorSplitter(g, s[2])
     /\ OnDistinctBranches(g, s[1], s[2])}

Promoted(g, m) == [g EXCEPT !.join[m] = "OR"]

-----------------------------------------------------------------------------
(* check_unguarded_cycles() *)

Sccs(g) ==
  {{k \in ReachableFrom(g, n) : n \in ReachableFrom(g, k)} : n \in g.nodes}

Internal(g, scc) == {e \in g.edges : e.src \in scc /\ e.dst \in scc}

\* Faulty variant: one edge without a guard is enough.
UnguardedPartly(g) == {scc \in Sccs(g) : \E e \in Internal(g, scc) : ~e.guarded}

\* Faulty variant: a component of one node is no cycle.
UnguardedNoSelfLoops(g) ==
  {scc \in Sccs(g) : Cardinality(scc) > 1 /\ \A e \in Internal(g, scc) : ~e.guarded}

CheckUnguardedCycles(g) ==
  {scc \in Sccs(g) : Internal(g, scc) # {} /\ \A e \in Internal(g, scc) : ~e.guarded}

-----------------------------------------------------------------------------
(* All runs at once *)

\* What comes of a firing of n: a Failure, or an output for which one of its
\* guards holds, or none.
Answers(g, n) ==
  {[ok |-> FALSE, holds |-> {}], [ok |-> TRUE, holds |-> {}]}
  \cup {[ok |-> TRUE, holds |-> {name}] : name \in GuardNames(g, n)}

\* After a Failure every edge is False, also one without a guard.
Delivered(g, n, answer) ==
  {e.dst : e \in {f \in OutEdges(g, n) :
                    /\ answer.ok
                    /\ IsLastEdge(g.edges, f)
                    /\ f.guarded => g.guard[f] \in answer.holds}}

\* The marking after one tick from m, if each node n fired answers[n].
After(g, m, answers) ==
  LET F == DOMAIN answers
  IN [tokens |-> {slot \in m.tokens : slot[1] \notin F /\ slot[2] \notin F}
                   \cup {slot \in Slots(g) :
                           slot[2] \in F /\ slot[1] \in Delivered(g, slot[2], answers[slot[2]])},
      armed  |-> m.armed \ F]

Successors(g, r) ==
  LET F == Fireable(g, r.marking)
  IN {[marking |-> After(g, r.marking, answers), fired |-> r.fired \cup F,
       failed |-> r.failed \cup {n \in F : ~answers[n].ok}] :
        answers \in {c \in [F -> UNION {Answers(g, n) : n \in F}] :
                       \A n \in F : c[n] \in Answers(g, n)}}

-----------------------------------------------------------------------------

Init ==
  /\ graph \in Graphs
  /\ phase = "fresh"
  /\ suggestions = {}
  /\ front = {}
  /\ seen = {}
  /\ promoted = {}

CheckGraph ==
  /\ phase \in {"fresh", "over"}
  /\ phase' = "asked"
  /\ suggestions' = Check(graph)
  /\ UNCHANGED <<graph, front, seen, promoted>>

\* promote(s), for a suggestion of the answer in hand.
Promote(s) ==
  /\ phase = "asked"
  /\ s \in suggestions
  /\ suggestions' = suggestions \ {s}
  /\ graph' = Promoted(graph, s[1])
  /\ promoted' = promoted \cup {s[1]}
  /\ UNCHANGED <<phase, front, seen>>

\* Runner(graph, strict_deadlock=strict).
Construct(strict) ==
  /\ phase = "asked"
  /\ strict => Check(graph) = {}
  /\ phase' = "running"
  /\ suggestions' = {}
  /\ front' = {[marking |-> Bootstrap(graph), fired |-> {}, failed |-> {}]}
  /\ seen' = front'
  /\ UNCHANGED <<graph, promoted>>

\* All runs do a tick.
Tick ==
  /\ phase = "running"
  /\ front # {}
  /\ front' = (UNION {Successors(graph, r) : r \in front}) \ seen
  /\ seen' = seen \cup front'
  /\ UNCHANGED <<graph, phase, suggestions, promoted>>

\* No run has anything new to show.
RunsOver ==
  /\ phase = "running"
  /\ front = {}
  /\ phase' = "over"
  /\ UNCHANGED <<graph, suggestions, front, seen, promoted>>

Next ==
  \/ CheckGraph
  \/ \E s \in suggestions : Promote(s)
  \/ \E strict \in BOOLEAN : Construct(strict)
  \/ Tick
  \/ RunsOver

Spec == Init /\ [][Next]_vars

-----------------------------------------------------------------------------
(* Properties *)

\* The nodes that fire in some run.
Fired == UNION {r.fired : r \in seen}

Upstream(g, m) == LeadingTo(g, Producers(g, m))

\* No merge and no cycle on the way to m, and only its roots are starts.
TreeAbove(g, m) ==
  /\ m \notin Upstream(g, m) \cup g.starts
  /\ \A n \in Upstream(g, m) :
       /\ Cardinality(Producers(g, n)) <= 1
       /\ n \in g.starts => Producers(g, n) = {}
       /\ n \notin Upstream(g, n)

\* Each guard of a splitter above m starts a branch of its own, that is not m.
PlainSplits(g, m) ==
  \A b \in {n \in Upstream(g, m) : IsXorSplitter(g, n)} :
    /\ Cardinality(GuardNames(g, b)) = Cardinality(GuardedEdges(g, b))
    /\ \A e \in GuardedEdges(g, b) : e.dst # m

\* No two edges above m join the same nodes.
SingleEdges(g, m) ==
  \A e, f \in g.edges : e.dst \in Upstream(g, m) /\ e.src = f.src /\ e.dst = f.dst => e = f

\* What has a token in one of these nodes can fire.
Unhindered(g, scc) == \A n \in scc : g.join[n] = "OR" \/ Cardinality(Producers(g, n)) = 1

\* An AND-join that no run ever fires, though each of its producers fires in
\* some: it waits for branches that exclude each other.
DeadJoin(m) ==
  /\ graph.join[m] = "AND"
  /\ m \notin Fired
  /\ Producers(graph, m) # {}
  /\ Producers(graph, m) \subseteq Fired

Flagged == {s[1] : s \in Check(graph)}

\* No silent deadlock (README: "no silent deadlocks"; checker.py: "no false
\* negatives").  A join that exclusive branches starve is among the
\* suggestions, so that strict_deadlock refuses the graph.
NoSilentDeadlock ==
  phase = "over" => \A m \in graph.nodes : DeadJoin(m) => m \in Flagged

\* The same where the check can tell: below splitters whose guards lead to
\* branches of their own that do not merge before the join.
NoSilentDeadlockInTrees ==
  phase = "over" =>
    \A m \in graph.nodes :
      TreeAbove(graph, m) /\ PlainSplits(graph, m) /\ DeadJoin(m) => m \in Flagged

\* No false alarm.  Where no branches merge before it, a join that is flagged
\* would never fire as it is ("It would deadlock under AND-join").
NoFalseAlarm ==
  phase = "over" => \A m \in Flagged : TreeAbove(graph, m) /\ SingleEdges(graph, m) => m \notin Fired

\* Promotion cures.  A promoted join fires in some run as soon as one of its
\* producers does ("OR-join ignores it", the branch that is not taken).
PromotionCures ==
  phase = "over" =>
    \A m \in promoted : Producers(graph, m) \cap Fired # {} => m \in Fired

\* A cycle that is warned of does loop.  A run that has once fired one of its
\* nodes never comes to rest ("it will loop forever without an exit
\* condition"), unless an AND-join in the cycle waits for something else or one
\* of its bodies has failed, which writes False to edges without a guard too.
WarnedCyclesLoop ==
  phase \in {"running", "over"} =>
    \A scc \in CheckUnguardedCycles(graph) :
      Unhindered(graph, scc) =>
        \A r \in seen :
          r.fired \cap scc # {} /\ r.failed \cap scc = {} => Fireable(graph, r.marking) # {}

\* Where nothing is warned of, there is an exit: some run comes to rest without
\* any Failure, if no two cycles share a node.
UnwarnedRunsEnd ==
  phase = "over" =>
    \/ CheckUnguardedCycles(graph) # {}
    \/ \E scc \in Sccs(graph) : Cardinality(Internal(graph, scc)) > Cardinality(scc)
    \/ \E r \in seen : r.failed = {} /\ Fireable(graph, r.marking) = {}

=============================================================================
