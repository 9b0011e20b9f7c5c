--------------------------- MODULE PetriNet_proofs ---------------------------
(***************************************************************************)
(* Proofs about the abstract net, for every set of graphs, every bound and *)
(* every set of checkpoint labels.                                         *)
(*                                                                         *)
(* The inductive invariant Inv says of the log, and of every saved log,    *)
(* that it is gap free (what is wanted), that whatever is enabled after it *)
(* was handed a token in its last step (Fresh, what makes gap freedom      *)
(* inductive), and that the depth of a firing node bounds its tick (Deep). *)
(***************************************************************************)
EXTENDS PetriNet, SequenceTheorems, FiniteSetTheorems, TLAPS

StepSet(g) == UNION {[F -> SUBSET g.nodes] : F \in SUBSET g.nodes}

LogType(g, l) ==
  /\ l \in Seq(StepSet(g))
  /\ Len(l) <= MaxTicks
  /\ \A t \in DOMAIN l : \A s \in DOMAIN l[t] : l[t][s] \subseteq Consumers(g, s)

GapFree(l) ==
  \A t \in DOMAIN l : t > 1 =>
    \A n \in DOMAIN l[t] : \E s \in DOMAIN l[t - 1] : n \in l[t - 1][s]

Fresh(g, l) ==
  Len(l) > 0 => \A n \in Enabled(g, l) : \E s \in DOMAIN l[Len(l)] : n \in l[Len(l)][s]

\* depth grows along every edge of g
IsDepth(g, depth) ==
  /\ depth \in [g.nodes -> 1 .. Cardinality(g.nodes)]
  /\ \A e \in g.edges : depth[e.src] < depth[e.dst]

Deep(g, l) ==
  \A depth : IsDepth(g, depth) =>
    \A t \in DOMAIN l : \A n \in DOMAIN l[t] : t <= depth[n]

LogInv(g, l) == LogType(g, l) /\ GapFree(l) /\ Fresh(g, l) /\ Deep(g, l)

Inv ==
  /\ graph \in Graphs
  /\ DOMAIN saved = Labels
  /\ LogInv(graph, log)
  /\ \A l \in Labels : \A old \in saved[l] : LogInv(graph, old)

-----------------------------------------------------------------------------
(* Appending one step to a log *)

LEMMA AppendStep ==
  ASSUME NEW S, NEW l \in Seq(S), NEW step \in S
  PROVE  LET k == Append(l, step)
         IN /\ k \in Seq(S)
            /\ Len(k) = Len(l) + 1
            /\ DOMAIN k = 1 .. Len(l) + 1
            /\ DOMAIN l = 1 .. Len(l)
            /\ Len(l) \in Nat
            /\ k[Len(l) + 1] = step
            /\ \A t \in DOMAIN l : k[t] = l[t]
  BY AppendProperties, LenProperties

\* A step of an enabled set is a step, and delivers along edges.
LEMMA StepProperties ==
  ASSUME NEW g \in Graphs, NEW l, NEW step \in Steps(g, Enabled(g, l))
  PROVE  /\ step \in StepSet(g)
         /\ DOMAIN step = Enabled(g, l)
         /\ Enabled(g, l) \subseteq g.nodes
         /\ \A n \in DOMAIN step : step[n] \subseteq Consumers(g, n)
  <1>1. Enabled(g, l) \subseteq g.nodes
    BY DEF Enabled, Fireable
  <1>2. step \in [Enabled(g, l) -> SUBSET g.nodes]
    BY DEF Steps
  <1>3. \A n \in Enabled(g, l) : step[n] \subseteq Consumers(g, n)
    BY DEF Steps, Deliveries
  <1> QED BY <1>1, <1>2, <1>3 DEF StepSet

\* What is enabled after a step was handed a token by that step: a node that
\* fired in it has only the tokens of that step, and one that did not fire was
\* not enabled before.
LEMMA EnabledIsFresh ==
  ASSUME NEW g \in Graphs, NEW l \in Seq(StepSet(g)),
         NEW step \in Steps(g, Enabled(g, l)),
         NEW n \in Enabled(g, Append(l, step))
  PROVE  \E s \in DOMAIN step : n \in step[s]
  <1> DEFINE k == Append(l, step)
  <1>1. step \in StepSet(g) /\ DOMAIN step = Enabled(g, l)
    BY StepProperties
  <1>2. /\ DOMAIN k = 1 .. Len(l) + 1
        /\ DOMAIN l = 1 .. Len(l)
        /\ Len(l) \in Nat
        /\ k[Len(l) + 1] = step
        /\ \A t \in DOMAIN l : k[t] = l[t]
    BY <1>1, AppendStep
  <1> HIDE DEF k
  <1> SUFFICES ASSUME \A s \in DOMAIN step : n \notin step[s]
               PROVE  FALSE
    OBVIOUS
  \* a token for n is older than the step
  <1>3. ASSUME NEW p, Token(k, n, p)
        PROVE  Token(l, n, p) /\ n \notin DOMAIN step
    <2>1. PICK t \in DOMAIN k : /\ p \in DOMAIN k[t]
                                /\ n \in k[t][p]
                                /\ \A u \in DOMAIN k : u > t => p \notin DOMAIN k[u] /\ n \notin DOMAIN k[u]
      BY <1>3 DEF Token
    <2>2. t # Len(l) + 1
      BY <2>1, <1>2
    <2>3. t \in DOMAIN l /\ Len(l) + 1 \in DOMAIN k /\ Len(l) + 1 > t
      BY <2>1, <2>2, <1>2
    <2>4. n \notin DOMAIN step
      BY <2>1, <2>3, <1>2
    <2>5. \A u \in DOMAIN l : u > t => p \notin DOMAIN l[u] /\ n \notin DOMAIN l[u]
      <3> TAKE u \in DOMAIN l
      <3> u \in DOMAIN k /\ k[u] = l[u]
        BY <1>2
      <3> QED BY <2>1
    <2> QED BY <2>1, <2>3, <2>4, <2>5, <1>2 DEF Token
  <1>4. n \in g.nodes /\ JoinSatisfied(g, n, MarkingOf(g, k))
    BY DEF Enabled, Fireable, k
  <1>5. CASE n \in MarkingOf(g, k).armed
    <2>1. n \in g.starts /\ NeverFired(k, n)
      BY <1>5 DEF MarkingOf
    <2>2. Len(l) + 1 \in DOMAIN k
      BY <1>2
    <2>3. n \notin DOMAIN step
      BY <2>1, <2>2, <1>2 DEF NeverFired
    <2>4. NeverFired(l, n)
      <3> SUFFICES ASSUME NEW t \in DOMAIN l PROVE n \notin DOMAIN l[t]
        BY DEF NeverFired
      <3> t \in DOMAIN k /\ k[t] = l[t]
        BY <1>2
      <3> QED BY <2>1 DEF NeverFired
    <2>5. n \in MarkingOf(g, l).armed
      BY <2>1, <2>4 DEF MarkingOf
    <2> QED BY <2>3, <2>5, <1>1, <1>4 DEF Enabled, Fireable, JoinSatisfied
  <1>6. CASE n \notin MarkingOf(g, k).armed
    <2>1. \A p \in Producers(g, n) :
             <<n, p>> \in MarkingOf(g, k).tokens =>
                <<n, p>> \in MarkingOf(g, l).tokens /\ n \notin DOMAIN step
      <3> SUFFICES ASSUME NEW p \in Producers(g, n), <<n, p>> \in MarkingOf(g, k).tokens
                   PROVE  <<n, p>> \in MarkingOf(g, l).tokens /\ n \notin DOMAIN step
        OBVIOUS
      <3>1. <<n, p>> \in Slots(g) /\ Token(k, n, p)
        BY DEF MarkingOf
      <3>2. Token(l, n, p) /\ n \notin DOMAIN step
        BY <3>1, <1>3
      <3> QED BY <3>1, <3>2 DEF MarkingOf
    <2>2. JoinSatisfied(g, n, MarkingOf(g, l)) /\ n \notin DOMAIN step
      BY <2>1, <1>4, <1>6 DEF JoinSatisfied
    <2> QED BY <2>2, <1>1, <1>4 DEF Enabled, Fireable
  <1> QED BY <1>5, <1>6

\* One tick keeps the invariant of the log.
LEMMA TickKeepsLogInv ==
  ASSUME NEW g \in Graphs, NEW l, LogInv(g, l), Len(l) < MaxTicks,
         NEW step \in Steps(g, Enabled(g, l))
  PROVE  LogInv(g, Append(l, step))
  <1> DEFINE k == Append(l, step)
             last == Len(l) + 1
  <1>1. l \in Seq(StepSet(g))
    BY DEF LogInv, LogType
  <1>2. /\ step \in StepSet(g)
        /\ DOMAIN step = Enabled(g, l)
        /\ Enabled(g, l) \subseteq g.nodes
        /\ \A n \in DOMAIN step : step[n] \subseteq Consumers(g, n)
    BY StepProperties
  <1>3. /\ k \in Seq(StepSet(g))
        /\ Len(k) = last
        /\ DOMAIN k = 1 .. last
        /\ DOMAIN l = 1 .. Len(l)
        /\ Len(l) \in Nat
        /\ k[last] = step
        /\ \A t \in DOMAIN l : k[t] = l[t]
    BY <1>1, <1>2, AppendStep
  <1>4. \A n \in Enabled(g, k) : \E s \in DOMAIN step : n \in step[s]
    BY <1>1, EnabledIsFresh
  <1> HIDE DEF k
  <1>5. LogType(g, k)
    <2>1. Len(k) <= MaxTicks
      BY <1>3, MaxTicksAssumption
    <2>2. \A t \in DOMAIN k : \A s \in DOMAIN k[t] : k[t][s] \subseteq Consumers(g, s)
      BY <1>2, <1>3 DEF LogInv, LogType
    <2> QED BY <2>1, <2>2, <1>3 DEF LogType
  <1>6. Len(l) > 0 => \A n \in DOMAIN step : \E s \in DOMAIN l[Len(l)] : n \in l[Len(l)][s]
    BY <1>2 DEF LogInv, Fresh
  <1>7. GapFree(k)
    <2> SUFFICES ASSUME NEW t \in DOMAIN k, t > 1, NEW n \in DOMAIN k[t]
                 PROVE  \E s \in DOMAIN k[t - 1] : n \in k[t - 1][s]
      BY DEF GapFree
    <2>1. t \in 1 .. last /\ t - 1 \in DOMAIN l /\ k[t - 1] = l[t - 1]
      BY <1>3
    <2>2. CASE t = last
      BY <2>1, <2>2, <1>3, <1>6
    <2>3. CASE t # last
      <3>1. t \in DOMAIN l /\ k[t] = l[t]
        BY <2>1, <2>3, <1>3
      <3> QED BY <2>1, <3>1 DEF LogInv, GapFree
    <2> QED BY <2>2, <2>3
  <1>8. Fresh(g, k)
    BY <1>3, <1>4 DEF Fresh
  <1>9. Deep(g, k)
    <2> SUFFICES ASSUME NEW depth, IsDepth(g, depth),
                        NEW t \in DOMAIN k, NEW n \in DOMAIN k[t]
                 PROVE  t <= depth[n]
      BY DEF Deep
    <2>1. t \in 1 .. last
      BY <1>3
    <2>2. CASE t # last
      <3>1. t \in DOMAIN l /\ k[t] = l[t]
        BY <2>1, <2>2, <1>3
      <3> QED BY <3>1 DEF LogInv, Deep
    <2>3. CASE t = last /\ Len(l) = 0
      <3>1. n \in g.nodes /\ t = 1
        BY <2>3, <1>2, <1>3
      <3>2. Cardinality(g.nodes) \in Nat
        BY GraphsAssumption, FS_CardinalityType DEF IsGraph
      <3> QED BY <3>1, <3>2 DEF IsDepth
    <2>4. CASE t = last /\ Len(l) > 0
      <3>1. n \in DOMAIN step
        BY <2>4, <1>3
      <3>2. PICK s \in DOMAIN l[Len(l)] : n \in l[Len(l)][s]
        BY <3>1, <2>4, <1>6
      <3>3. Len(l) \in DOMAIN l
        BY <2>4, <1>3
      <3>4. n \in Consumers(g, s)
        BY <3>2, <3>3 DEF LogInv, LogType
      <3>5. PICK e \in g.edges : e.src = s /\ e.dst = n
        BY <3>4 DEF Consumers, OutEdges
      <3>6. Len(l) <= depth[s]
        BY <3>2, <3>3 DEF LogInv, Deep
      <3>7. depth[s] < depth[n]
        BY <3>5 DEF IsDepth
      <3>8. e.src \in g.nodes /\ e.dst \in g.nodes
        BY GraphsAssumption DEF IsGraph
      <3>9. Cardinality(g.nodes) \in Nat
        BY GraphsAssumption, FS_CardinalityType DEF IsGraph
      <3>10. depth[s] \in Int /\ depth[n] \in Int
        BY <3>5, <3>8, <3>9 DEF IsDepth
      <3> QED BY <3>6, <3>7, <3>10, <2>4, <1>3
    <2> QED BY <2>2, <2>3, <2>4, <1>3
  <1> QED BY <1>5, <1>7, <1>8, <1>9 DEF LogInv, k

-----------------------------------------------------------------------------

LEMMA EmptyLogInv == ASSUME NEW g PROVE LogInv(g, <<>>)
  BY MaxTicksAssumption, EmptySeq DEF LogInv, LogType, GapFree, Fresh, Deep

LEMMA InvInit == Init => Inv
  BY EmptyLogInv DEF Init, Inv

LEMMA InvNext == Inv /\ [Next]_vars => Inv'
  <1> SUFFICES ASSUME Inv, [Next]_vars PROVE Inv'
    OBVIOUS
  <1>1. CASE Tick
    <2>1. PICK step \in Steps(graph, Enabled(graph, log)) : log' = Append(log, step)
      BY <1>1 DEF Tick
    <2>2. LogInv(graph, Append(log, step))
      BY <1>1, TickKeepsLogInv DEF Inv, Tick
    <2> QED BY <1>1, <2>1, <2>2 DEF Inv, Tick
  <1>2. CASE \E l \in Labels : Checkpoint(l)
    BY <1>2 DEF Inv, Checkpoint
  <1>3. CASE \E l \in Labels : Rollback(l)
    BY <1>3 DEF Inv, Rollback
  <1>4. CASE UNCHANGED vars
    BY <1>4 DEF Inv, vars
  <1> QED BY <1>1, <1>2, <1>3, <1>4 DEF Next

\* The invariant holds in every reachable state.
THEOREM Invariance == Spec => []Inv
  BY InvInit, InvNext, PTL DEF Spec

\* No firing of any graph ever comes late (tickflow.engine.tick fires the whole
\* fireable set at once).
THEOREM GapFreedom == Spec => []NoIdleGap
  <1>1. Inv => NoIdleGap
    BY DEF Inv, LogInv, GapFree, NoIdleGap
  <1> QED BY <1>1, Invariance, PTL

\* Every acyclic graph, of any size, stops firing within |nodes| ticks: this is
\* why run_until_idle ends on pipelines whatever the bodies answer.
THEOREM AcyclicTermination == Spec => []AcyclicRunsDry
  <1>1. Inv => AcyclicRunsDry
    <2> SUFFICES ASSUME Inv,
                        NEW t \in DOMAIN log, t > Cardinality(graph.nodes), DOMAIN log[t] # {},
                        NEW depth \in [graph.nodes -> 1 .. Cardinality(graph.nodes)],
                        \A e \in graph.edges : depth[e.src] < depth[e.dst]
                 PROVE  FALSE
      BY DEF AcyclicRunsDry, Acyclic
    <2>1. PICK n : n \in DOMAIN log[t]
      OBVIOUS
    <2>2. n \in graph.nodes
      <3>1. log[t] \in StepSet(graph)
        BY ElementOfSeq, LenProperties DEF Inv, LogInv, LogType
      <3> QED BY <2>1, <3>1 DEF StepSet
    <2>3. t <= depth[n]
      BY <2>1 DEF Inv, LogInv, Deep, IsDepth
    <2>4. Cardinality(graph.nodes) \in Nat
      BY GraphsAssumption, FS_CardinalityType DEF Inv, IsGraph
    <2>5. t \in Nat
      BY LenProperties DEF Inv, LogInv, LogType
    <2> QED BY <2>2, <2>3, <2>4, <2>5
  <1> QED BY <1>1, Invariance, PTL

=============================================================================
