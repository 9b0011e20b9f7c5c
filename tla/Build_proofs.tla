---------------------------- MODULE Build_proofs ----------------------------
(***************************************************************************)
(* Proofs about what reaches the engine, for all graphs, texts, callables  *)
(* and registries.                                                         *)
(*                                                                         *)
(* The first part counts parameters: the calls of a validated runner fail  *)
(* for want of arguments just in the ways BodyHole and GuardHole list.     *)
(* The second is about all runs of a graph: an invariant of each run seen  *)
(* (AllOK), that every run not at the front has its successors among those *)
(* seen, and that parsed and promoted graphs stay graphs.  The verdicts of *)
(* the static check are compared with that.                                *)
(***************************************************************************)
EXTENDS Build, FiringLog_proofs, FiniteSetTheorems

-----------------------------------------------------------------------------
(* Callables *)

\* A callable in view mode has one parameter, which may be given by position,
\* and nothing else that is required.
LEMMA ViewMode ==
  ASSUME NEW c, IsCallable(c), Classify(c).mode = "view"
  PROVE  Binds(c, [raises |-> FALSE, args |-> 1, kws |-> {}])
<1>1. Len(c.pos) = 1 /\ c.posonly = 0 /\ c.kwonly = {}
  BY DEF Classify
<1>2. DOMAIN c.pos = {1}
  BY <1>1 DEF IsCallable
<1>3. c.required = {}
  BY <1>1 DEF IsCallable
<1> QED
  BY <1>1, <1>2, <1>3 DEF Binds

\* Without keywords, as many positional arguments as there are parameters, or
\* any number if there is *args, are enough but for the mandatory parameters
\* behind them.
LEMMA Positional ==
  ASSUME NEW c, IsCallable(c), NEW k, NEW kws, kws \subseteq c.kwonly,
         c.star \/ Len(c.pos) = k
  PROVE  Binds(c, [raises |-> FALSE, args |-> k, kws |-> kws])
           <=> /\ ~(c.star /\ \E i \in Mandatory(c) : i > k)
               /\ c.required \subseteq kws
<1> DEFINE ByName   == {c.pos[i] : i \in {j \in DOMAIN c.pos : j > c.posonly /\ j > k}}
           Optional == {c.pos[i] : i \in {j \in DOMAIN c.pos : j > Len(c.pos) - c.defaults}}
           Left     == {c.pos[i] : i \in {j \in DOMAIN c.pos : j > k}}
<1>1. Len(c.pos) \in Nat /\ DOMAIN c.pos = 1 .. Len(c.pos)
  BY DEF IsCallable
<1>2. kws \cap ByName = {}
  BY DEF IsCallable
<1>3. kws \subseteq ByName \cup c.kwonly
  OBVIOUS
<1>4. k <= Len(c.pos) \/ c.star
  BY <1>1
<1>5. Left \subseteq Optional <=> ~\E i \in Mandatory(c) : i > k
  <2>1. ASSUME Left \subseteq Optional, NEW i \in Mandatory(c), i > k
        PROVE  FALSE
    <3>1. i \in DOMAIN c.pos /\ i <= Len(c.pos) - c.defaults
      BY DEF Mandatory
    <3>2. c.pos[i] \in Optional
      BY <2>1, <3>1
    <3>3. PICK j \in DOMAIN c.pos : j > Len(c.pos) - c.defaults /\ c.pos[j] = c.pos[i]
      BY <3>2
    <3>4. i = j
      BY <3>1, <3>3 DEF IsCallable
    <3> QED
      BY <1>1, <3>1, <3>3, <3>4 DEF IsCallable
  <2>2. ASSUME ~\E i \in Mandatory(c) : i > k
        PROVE  Left \subseteq Optional
    <3>1. ASSUME NEW i \in DOMAIN c.pos, i > k
          PROVE  i > Len(c.pos) - c.defaults
      BY <1>1, <2>2, <3>1 DEF Mandatory, IsCallable
    <3> QED
      BY <3>1
  <2> QED
    BY <2>1, <2>2
<1>6. ~c.star => ~\E i \in Mandatory(c) : i > k
  BY <1>1 DEF Mandatory
<1>7. Left \ Optional \subseteq kws \cap ByName <=> ~(c.star /\ \E i \in Mandatory(c) : i > k)
  BY <1>2, <1>5, <1>6
<1> DEFINE Taken == {c.pos[i] : i \in {j \in DOMAIN c.pos : j > c.posonly /\ j <= k}}
<1> HIDE DEF ByName, Optional, Left, Taken
<1>8. Binds(c, [raises |-> FALSE, args |-> k, kws |-> kws])
        <=> /\ k <= Len(c.pos) \/ c.star
            /\ kws \subseteq ByName \cup c.kwonly \/ (c.kwargs /\ kws \cap Taken = {})
            /\ Left \ Optional \subseteq kws \cap ByName
            /\ c.required \subseteq kws
  BY DEF Binds, ByName, Optional, Left, Taken
<1> QED
  BY <1>3, <1>4, <1>7, <1>8

\* With all parameters given by name, none may be positional-only, unless it has
\* a default and there is **kwargs.
LEMMA Named ==
  ASSUME NEW c, IsCallable(c), NEW kws, kws \subseteq c.kwonly
  PROVE  Binds(c, [raises |-> FALSE, args |-> 0, kws |-> ToSet(c.pos) \cup kws])
           <=> /\ c.posonly = 0 \/ (c.kwargs /\ ~\E i \in Mandatory(c) : i <= c.posonly)
               /\ c.required \subseteq kws
<1> DEFINE ByName   == {c.pos[i] : i \in {j \in DOMAIN c.pos : j > c.posonly /\ j > 0}}
           Optional == {c.pos[i] : i \in {j \in DOMAIN c.pos : j > Len(c.pos) - c.defaults}}
           Left     == {c.pos[i] : i \in {j \in DOMAIN c.pos : j > 0}}
           Taken    == {c.pos[i] : i \in {j \in DOMAIN c.pos : j > c.posonly /\ j <= 0}}
           all      == ToSet(c.pos) \cup kws
<1>1. Len(c.pos) \in Nat /\ DOMAIN c.pos = 1 .. Len(c.pos)
  BY DEF IsCallable
<1>2. ToSet(c.pos) = {c.pos[i] : i \in DOMAIN c.pos}
  BY DEF ToSet
<1>3. 0 <= Len(c.pos)
  BY <1>1
<1>4. Left = ToSet(c.pos)
  BY <1>1, <1>2
<1>5. c.required \subseteq all <=> c.required \subseteq kws
  BY <1>2 DEF IsCallable
<1>6. all \subseteq ByName \cup c.kwonly <=> c.posonly = 0
  <2>1. CASE c.posonly = 0
    BY <1>1, <1>2, <2>1
  <2>2. CASE c.posonly # 0
    <3>1. 1 \in DOMAIN c.pos /\ ~(1 > c.posonly)
      BY <1>1, <2>2 DEF IsCallable
    <3>2. c.pos[1] \in all /\ c.pos[1] \notin c.kwonly
      BY <1>2, <3>1 DEF IsCallable
    <3>3. c.pos[1] \notin ByName
      BY <3>1 DEF IsCallable
    <3> QED
      BY <2>2, <3>2, <3>3
  <2> QED
    BY <2>1, <2>2
<1>7. c.posonly = 0 => ByName = ToSet(c.pos)
  BY <1>1, <1>2
<1>8. Taken = {}
  BY <1>1
<1>9. Left \ Optional \subseteq ByName <=> ~\E i \in Mandatory(c) : i <= c.posonly
  <2>1. ASSUME Left \ Optional \subseteq ByName, NEW i \in Mandatory(c), i <= c.posonly
        PROVE  FALSE
    <3>1. i \in DOMAIN c.pos /\ i <= Len(c.pos) - c.defaults
      BY DEF Mandatory
    <3>2. \A j \in DOMAIN c.pos : c.pos[j] = c.pos[i] => j = i
      BY <3>1 DEF IsCallable
    <3>3. c.pos[i] \notin Optional
      BY <1>1, <3>1, <3>2 DEF IsCallable
    <3>4. c.pos[i] \notin ByName
      BY <1>1, <2>1, <3>1, <3>2 DEF IsCallable
    <3>5. c.pos[i] \in Left
      BY <1>1, <3>1
    <3> QED
      BY <2>1, <3>3, <3>4, <3>5
  <2>2. ASSUME ~\E i \in Mandatory(c) : i <= c.posonly
        PROVE  Left \ Optional \subseteq ByName
    <3>1. ASSUME NEW i \in DOMAIN c.pos, i > 0, ~(i > Len(c.pos) - c.defaults)
          PROVE  i > c.posonly
      BY <1>1, <2>2, <3>1 DEF Mandatory, IsCallable
    <3> QED
      BY <3>1
  <2> QED
    BY <2>1, <2>2
<1>10. ByName \subseteq all
  BY <1>2
<1>11. c.posonly = 0 => Left \ Optional \subseteq ByName
  BY <1>4, <1>7
<1> HIDE DEF ByName, Optional, Left, Taken
<1>12. Binds(c, [raises |-> FALSE, args |-> 0, kws |-> all])
        <=> /\ 0 <= Len(c.pos) \/ c.star
            /\ all \subseteq ByName \cup c.kwonly \/ (c.kwargs /\ all \cap Taken = {})
            /\ Left \ Optional \subseteq all \cap ByName
            /\ c.required \subseteq all
  BY DEF Binds, ByName, Optional, Left, Taken
<1>13. c.kwargs \in BOOLEAN
  BY DEF IsCallable
<1>14. Binds(c, [raises |-> FALSE, args |-> 0, kws |-> all])
         <=> /\ c.posonly = 0 \/ (c.kwargs /\ ~\E i \in Mandatory(c) : i <= c.posonly)
             /\ c.required \subseteq kws
  <2> DEFINE lost == \E i \in Mandatory(c) : i <= c.posonly
  <2>1. Left \ Optional \subseteq all \cap ByName <=> ~lost
    BY <1>9, <1>10
  <2>2. c.posonly = 0 => ~lost
    BY <1>9, <1>11
  <2>3. all \cap Taken = {}
    BY <1>8
  <2> HIDE DEF all, lost
  <2> QED
    BY <1>3, <1>5, <1>6, <1>12, <1>13, <2>1, <2>2, <2>3 DEF lost
<1> QED
  BY <1>14

-----------------------------------------------------------------------------
(* Bodies and guards *)

\* A body that fits its entries can be called with them, up to the holes.
LEMMA BodyBinds ==
  ASSUME NEW c, IsCallable(c), NEW entries, BodyFits(Classify(c), entries)
  PROVE  Binds(c, BodyCall(Classify(c), entries))
           <=> ~(Classify(c).mode = "value" /\ BodyHole(c, entries))
<1> DEFINE sig  == Classify(c)
           tail == IF sig.state THEN {"state"} ELSE {}
<1>1. tail \subseteq c.kwonly
  BY DEF Classify
<1>2. c.required \subseteq tail <=> c.required \ {"state"} = {}
  BY DEF Classify, IsCallable
<1>3. sig.mode \in {"value", "view"}
  BY DEF Classify
<1>4. CASE sig.mode = "view"
  <2>1. BodyCall(sig, entries) = [raises |-> FALSE, args |-> 1, kws |-> {}]
    BY <1>4 DEF BodyCall
  <2> QED
    BY <1>4, <2>1, ViewMode
<1>5. CASE sig.mode = "value" /\ IsNamed(entries)
  <2>1. Fields(entries) = ToSet(c.pos)
    BY <1>5 DEF BodyFits, Classify
  <2>2. ~(sig.state /\ "state" \in Fields(entries))
    BY <2>1 DEF Classify, IsCallable, ToSet
  <2>3. BodyCall(sig, entries) = [raises |-> FALSE, args |-> 0, kws |-> ToSet(c.pos) \cup tail]
    BY <1>5, <2>1, <2>2 DEF BodyCall
  <2> DEFINE lost == c.posonly > 0 /\ (c.kwargs => \E i \in Mandatory(c) : i <= c.posonly)
  <2>4. BodyHole(c, entries) <=> c.required \ {"state"} # {} \/ lost
    BY <1>5 DEF BodyHole
  <2>5. (c.posonly = 0 \/ (c.kwargs /\ ~\E i \in Mandatory(c) : i <= c.posonly)) <=> ~lost
    BY DEF IsCallable
  <2>6. Binds(c, BodyCall(sig, entries)) <=> ~lost /\ c.required \subseteq tail
    <3> HIDE DEF tail
    <3>1. Binds(c, [raises |-> FALSE, args |-> 0, kws |-> ToSet(c.pos) \cup tail])
            <=> /\ c.posonly = 0 \/ (c.kwargs /\ ~\E i \in Mandatory(c) : i <= c.posonly)
                /\ c.required \subseteq tail
      BY <1>1, Named
    <3> HIDE DEF lost
    <3> QED BY <2>3, <2>5, <3>1
  <2> HIDE DEF tail, lost
  <2> QED
    BY <1>2, <1>5, <2>4, <2>6
<1>6. CASE sig.mode = "value" /\ ~IsNamed(entries)
  <2>1. BodyCall(sig, entries) = [raises |-> FALSE, args |-> Len(entries), kws |-> tail]
    BY <1>6 DEF BodyCall
  <2>2. c.star \/ Len(c.pos) = Len(entries)
    BY <1>6 DEF BodyFits, Classify
  <2>3. BodyHole(c, entries) <=>
          c.required \ {"state"} # {} \/ (c.star /\ \E i \in Mandatory(c) : i > Len(entries))
    BY <1>6 DEF BodyHole
  <2>4. Binds(c, BodyCall(sig, entries)) <=>
          /\ ~(c.star /\ \E i \in Mandatory(c) : i > Len(entries))
          /\ c.required \subseteq tail
    BY <1>1, <2>1, <2>2, Positional
  <2> HIDE DEF tail
  <2> QED
    BY <1>2, <1>6, <2>3, <2>4
<1> QED
  BY <1>3, <1>4, <1>5, <1>6

\* A guard that fits can be called, up to the holes.
LEMMA GuardBinds ==
  ASSUME NEW c, IsCallable(c), GuardFits(Classify(c))
  PROVE  Binds(c, GuardCall) <=> ~(Classify(c).mode = "value" /\ GuardHole(c))
<1>1. Classify(c).mode \in {"value", "view"}
  BY DEF Classify
<1>2. CASE Classify(c).mode = "view"
  BY <1>2, ViewMode DEF GuardCall
<1>3. CASE Classify(c).mode = "value"
  <2>1. c.star \/ Len(c.pos) = 1
    BY <1>3 DEF GuardFits, Classify
  <2>2. \A kws : kws \subseteq c.kwonly =>
                (Binds(c, [raises |-> FALSE, args |-> 1, kws |-> kws])
                   <=> /\ ~(c.star /\ \E i \in Mandatory(c) : i > 1)
                       /\ c.required \subseteq kws)
    BY <2>1, Positional
  <2>3. Binds(c, GuardCall) <=> /\ ~(c.star /\ \E i \in Mandatory(c) : i > 1)
                                /\ c.required \subseteq {}
    BY <2>2 DEF GuardCall
  <2> QED
    BY <1>3, <2>3 DEF GuardHole
<1> QED
  BY <1>1, <1>2, <1>3

-----------------------------------------------------------------------------
(* Runners *)

\* Whatever is registered can be classified, and what a runner calls has been
\* validated against its graph, unless something was registered since.
BuildInv ==
  /\ IsRegistry(registry)
  /\ phase \in {"running", "over"} /\ ~touched => Validates(graph, decl, registry)

\* Unary is a callable.
LEMMA UnaryIsCallable == IsCallable(Unary)
<1>1. Unary.pos = <<"x">> /\ Unary.kwonly = {}
  BY DEF Unary
<1>2. Len(Unary.pos) = 1 /\ DOMAIN Unary.pos = {1}
  BY <1>1
<1> QED
  BY <1>1, <1>2 DEF IsCallable, Unary

\* Put changes a registry at one name.
LEMMA PutCallable ==
  ASSUME NEW f, \A x \in DOMAIN f : IsCallable(f[x]), NEW c, IsCallable(c), NEW name
  PROVE  \A x \in DOMAIN Put(f, name, c) : IsCallable(Put(f, name, c)[x])
BY DEF Put

LEMMA InitInv == BuildInit => BuildInv
<1> SUFFICES ASSUME BuildInit PROVE BuildInv
  OBVIOUS
<1>1. phase \notin {"running", "over"}
  BY DEF BuildInit
<1>2. IsRegistry(registry)
  BY BuildAssumption, UnaryIsCallable DEF BuildInit, IsRegistry
<1> QED
  BY <1>1, <1>2 DEF BuildInv

\* The invariant is kept by every step.
LEMMA NextInv == BuildInv /\ [BuildNext]_bvars => BuildInv'
<1> SUFFICES ASSUME BuildInv, [BuildNext]_bvars PROVE BuildInv'
  OBVIOUS
<1>1. CASE Parse
  BY <1>1 DEF Parse, BuildInv
<1>2. ASSUME NEW c \in Callables, Register(c)
      PROVE  BuildInv'
  <2>1. IsCallable(c)
    BY BuildAssumption
  <2>2. IsRegistry(registry')
    <3>1. CASE \E name \in BodyKeys(text) :
                 registry' = [registry EXCEPT !.bodies = Put(@, name, c)]
      <4>1. PICK name : registry' = [registry EXCEPT !.bodies = Put(@, name, c)]
        BY <3>1
      <4>2. registry' = [bodies |-> Put(registry.bodies, name, c), guards |-> registry.guards]
        BY <4>1 DEF BuildInv, IsRegistry
      <4> QED
        BY <2>1, <4>2, PutCallable DEF BuildInv, IsRegistry
    <3>2. CASE \E name \in GuardKeys(text) :
                 registry' = [registry EXCEPT !.guards = Put(@, name, c)]
      <4>1. PICK name : registry' = [registry EXCEPT !.guards = Put(@, name, c)]
        BY <3>2
      <4>2. registry' = [bodies |-> registry.bodies, guards |-> Put(registry.guards, name, c)]
        BY <4>1 DEF BuildInv, IsRegistry
      <4> QED
        BY <2>1, <4>2, PutCallable DEF BuildInv, IsRegistry
    <3> QED
      BY <1>2, <3>1, <3>2 DEF Register
  <2>3. ~(phase' \in {"running", "over"} /\ ~touched')
    BY <1>2 DEF Register, vars
  <2> QED
    BY <2>2, <2>3 DEF BuildInv
<1>3. CASE SetRegistry
  <2>1. PICK r \in Registries : Validates(graph, decl, r) /\ registry' = r
    BY <1>3 DEF SetRegistry
  <2>2. graph' = graph /\ decl' = decl
    BY <1>3 DEF SetRegistry, vars
  <2>3. IsRegistry(registry')
    BY <2>1, BuildAssumption
  <2>4. Validates(graph', decl', registry')
    BY <2>1, <2>2
  <2> QED
    BY <2>3, <2>4 DEF BuildInv
<1>4. ASSUME NEW strict \in BOOLEAN, ConstructRunner(strict)
      PROVE  BuildInv'
  <2>1. graph' = graph /\ decl' = decl /\ registry' = registry
    BY <1>4 DEF ConstructRunner, Construct
  <2>2. Validates(graph, decl, registry)
    BY <1>4 DEF ConstructRunner
  <2> QED
    BY <2>1, <2>2 DEF BuildInv
<1>5. CASE /\ CheckGraph \/ Tick \/ RunsOver \/ \E s \in suggestions : Promote(s)
           /\ UNCHANGED <<text, decl, registry, touched>>
  <2>1. phase' \in {"running", "over"} => phase \in {"running", "over"} /\ graph' = graph
    BY <1>5 DEF CheckGraph, Tick, RunsOver, Promote
  <2> QED
    BY <1>5, <2>1 DEF BuildInv
<1>6. CASE UNCHANGED bvars
  BY <1>6 DEF bvars, vars, BuildInv
<1> QED
  BY <1>1, <1>2, <1>3, <1>4, <1>5, <1>6 DEF BuildNext

\* The calls of validated runners bind.
LEMMA InvCallsBind == BuildInv => CallsBind
<1> SUFFICES ASSUME BuildInv, phase \in {"running", "over"}, ~touched
             PROVE  CallsBind
  BY DEF CallsBind
<1>1. Validates(graph, decl, registry) /\ IsRegistry(registry)
  BY DEF BuildInv
<1>2. ASSUME NEW n \in graph.nodes, decl.body[n] # "",
             NEW c, c = registry.bodies[decl.body[n]],
             NEW entries, entries = BindEntries(decl, n)
      PROVE  Binds(c, BodyCall(Classify(c), entries))
               <=> ~(Classify(c).mode = "value" /\ BodyHole(c, entries))
  <2>1. IsCallable(c)
    BY <1>1, <1>2 DEF Validates, Registered, IsRegistry
  <2>2. BodyFits(Classify(c), entries)
    BY <1>1, <1>2 DEF Validates
  <2> QED
    BY <2>1, <2>2, BodyBinds
<1>3. ASSUME NEW e \in DOMAIN graph.guard, NEW c, c = registry.guards[graph.guard[e]]
      PROVE  Binds(c, GuardCall) <=> ~(Classify(c).mode = "value" /\ GuardHole(c))
  <2>1. IsCallable(c)
    BY <1>1, <1>3 DEF Validates, Registered, IsRegistry
  <2>2. GuardFits(Classify(c))
    BY <1>1, <1>3 DEF Validates
  <2> QED
    BY <2>1, <2>2, GuardBinds
<1> QED
  BY <1>2, <1>3 DEF CallsBind

\* Calls bind: what validation in src/tickflow/runner.py accepts, Python can
\* call the way src/tickflow/engine.py does, but for BodyHole and GuardHole.
THEOREM ValidatedCallsBind == BuildSpec => []CallsBind
BY InitInv, NextInv, InvCallsBind, PTL DEF BuildSpec

-----------------------------------------------------------------------------
(* Reachability: Reached computes the least set of nodes that contains S and,  *)
(* with each node, what next leads to from it.                                 *)

Follow(next, X) == X \cup UNION {next[n] : n \in X}

Layers(R, next, S) ==
  /\ R[0] = S
  /\ \A i \in 1 .. Cardinality(DOMAIN next) : R[i] = Follow(next, R[i - 1])

LEMMA ReachLayers ==
  ASSUME NEW next, Cardinality(DOMAIN next) \in Nat, NEW S
  PROVE  \E R : Layers(R, next, S) /\ Reached(next, S) = R[Cardinality(DOMAIN next)]
  <1> DEFINE k == Cardinality(DOMAIN next)
             Rec(F, i) == IF i = 0 THEN S ELSE Follow(next, F[i - 1])
             T == {m \in Nat : \E F : F = [i \in 0 .. m |-> Rec(F, i)]}
  <1>1. 0 \in T
    <2>1. [i \in 0 .. 0 |-> S] = [i \in 0 .. 0 |-> Rec([j \in 0 .. 0 |-> S], i)]
      OBVIOUS
    <2> QED BY <2>1
  <1>2. ASSUME NEW m \in Nat, m \in T
        PROVE  m + 1 \in T
    <2>1. PICK F : F = [i \in 0 .. m |-> Rec(F, i)]
      BY <1>2
    <2> DEFINE G == [i \in 0 .. m + 1 |-> IF i = m + 1 THEN Rec(F, i) ELSE F[i]]
    <2>2. \A i \in 0 .. m : G[i] = F[i]
      OBVIOUS
    <2>3. \A i \in 0 .. m : F[i] = Rec(F, i)
      BY <2>1
    <2>4. \A i \in 0 .. m + 1 : G[i] = Rec(G, i)
      <3> TAKE i \in 0 .. m + 1
      <3>1. CASE i = m + 1
        BY <3>1, <2>2
      <3>2. CASE i = 0
        BY <3>2, <2>2, <2>3
      <3>3. CASE i \in 1 .. m
        BY <3>3, <2>2, <2>3
      <3> QED BY <3>1, <3>2, <3>3
    <2>5. G = [i \in 0 .. m + 1 |-> G[i]]
      OBVIOUS
    <2>6. G = [i \in 0 .. m + 1 |-> Rec(G, i)]
      BY <2>4, <2>5
    <2> HIDE DEF G, Rec
    <2> QED BY <2>6
  <1>3. k \in T
    <2> HIDE DEF T
    <2>1. \A m \in 0 .. k - 1 : m \in T => m + 1 \in T
      BY <1>2
    <2>2. 0 .. k \subseteq T
      BY <1>1, <2>1, UpInduction
    <2> QED BY <2>2
  <1>4. PICK F : F = [i \in 0 .. k |-> Rec(F, i)]
    BY <1>3
  <1> DEFINE C == CHOOSE reach : reach = [i \in 0 .. k |-> Rec(reach, i)]
  <1>5. C = [i \in 0 .. k |-> Rec(C, i)]
    <2> HIDE DEF Rec
    <2> QED BY <1>4
  <1>6. Reached(next, S) = C[k]
    BY DEF Reached, Follow
  <1>7. \A i \in 0 .. k : C[i] = Rec(C, i)
    <2> HIDE DEF C, Rec
    <2> QED BY <1>5
  <1>8. Layers(C, next, S)
    <2> HIDE DEF C
    <2> QED BY <1>7 DEF Layers
  <1> QED BY <1>6, <1>8

\* As many layers as there are nodes are enough: each but the last ones adds
\* a node.
LEMMA ReachedFacts ==
  ASSUME NEW N, IsFiniteSet(N), NEW next \in [N -> SUBSET N], NEW S \in SUBSET N
  PROVE  /\ S \subseteq Reached(next, S)
         /\ Reached(next, S) \subseteq N
         /\ \A n \in Reached(next, S) : next[n] \subseteq Reached(next, S)
         /\ \A T : S \subseteq T /\ (\A n \in T \cap N : next[n] \subseteq T) => Reached(next, S) \subseteq T
  <1> DEFINE k == Cardinality(N)
  <1>1. k \in Nat /\ DOMAIN next = N
    BY FS_CardinalityType
  <1>2. PICK R : Layers(R, next, S) /\ Reached(next, S) = R[k]
    BY <1>1, ReachLayers
  <1>3. R[0] = S /\ \A i \in 0 .. k - 1 : R[i + 1] = Follow(next, R[i])
    <2>1. \A i \in 0 .. k - 1 : i + 1 \in 1 .. k /\ i + 1 - 1 = i
      BY <1>1
    <2> QED BY <1>1, <1>2, <2>1 DEF Layers
  <1>4. \A i \in 0 .. k : S \subseteq R[i] /\ R[i] \subseteq N
    <2> DEFINE U == {i \in Nat : S \subseteq R[i] /\ R[i] \subseteq N}
    <2>1. 0 \in U
      BY <1>3
    <2>2. ASSUME NEW i \in 0 .. k - 1, i \in U
          PROVE  i + 1 \in U
      BY <1>1, <1>3, <2>2 DEF Follow
    <2>3. 0 .. k \subseteq U
      <3> HIDE DEF U
      <3> QED BY <1>1, <2>1, <2>2, UpInduction
    <2> QED BY <2>3
  <1>5. ASSUME NEW T, S \subseteq T, \A n \in T \cap N : next[n] \subseteq T
        PROVE  R[k] \subseteq T
    <2> DEFINE U == {i \in Nat : R[i] \subseteq T \cap N}
    <2>1. 0 \in U
      BY <1>3, <1>5
    <2>2. ASSUME NEW i \in 0 .. k - 1, i \in U
          PROVE  i + 1 \in U
      BY <1>1, <1>3, <1>5, <2>2 DEF Follow
    <2>3. 0 .. k \subseteq U
      <3> HIDE DEF U
      <3> QED BY <1>1, <2>1, <2>2, UpInduction
    <2> QED BY <1>1, <2>3
  <1>6. Follow(next, R[k]) = R[k]
    <2> DEFINE U == {i \in Nat : Follow(next, R[i]) = R[i] \/ Cardinality(R[i]) >= i}
    <2>1. \A i \in 0 .. k : IsFiniteSet(R[i]) /\ Cardinality(R[i]) \in Nat
      BY <1>4, FS_Subset, FS_CardinalityType
    <2>2. 0 \in U
      BY <1>1, <2>1
    <2>3. ASSUME NEW i \in 0 .. k - 1, i \in U
          PROVE  i + 1 \in U
      <3>1. R[i + 1] = Follow(next, R[i]) /\ i \in 0 .. k /\ i + 1 \in 0 .. k
        BY <1>1, <1>3
      <3>2. CASE Follow(next, R[i]) = R[i]
        BY <3>1, <3>2
      <3>3. CASE Follow(next, R[i]) # R[i]
        <4>1. R[i] \subseteq R[i + 1] /\ R[i] # R[i + 1]
          BY <3>1, <3>3 DEF Follow
        <4>2. Cardinality(R[i]) <= Cardinality(R[i + 1]) /\ Cardinality(R[i]) # Cardinality(R[i + 1])
          BY <2>1, <3>1, <4>1, FS_Subset
        <4>3. Cardinality(R[i]) >= i
          BY <2>3, <3>3
        <4> QED BY <2>1, <3>1, <4>2, <4>3
      <3> QED BY <3>2, <3>3
    <2>4. k \in U
      <3> HIDE DEF U
      <3>1. 0 .. k \subseteq U
        BY <1>1, <2>2, <2>3, UpInduction
      <3> QED BY <1>1, <3>1
    <2>5. CASE Cardinality(R[k]) >= k
      <3>1. R[k] = N
        BY <1>1, <1>4, <2>1, <2>5, FS_Subset
      <3> QED BY <1>1, <3>1 DEF Follow
    <2> QED BY <2>4, <2>5
  <1>7. \A n \in R[k] : next[n] \subseteq R[k]
    BY <1>6 DEF Follow
  <1>8. S \subseteq R[k] /\ R[k] \subseteq N
    BY <1>1, <1>4
  <1> QED BY <1>2, <1>5, <1>7, <1>8

-----------------------------------------------------------------------------
(* Texts *)

\* A bounded set of numbers has a greatest.
LEMMA BoundedMax ==
  ASSUME NEW S \in SUBSET Nat, S # {}, NEW b \in Nat, \A x \in S : x <= b
  PROVE  \E x \in S : \A y \in S : y <= x
  <1> DEFINE D == {b - x : x \in S}
  <1>1. \A x \in S : x \in Nat /\ b - x \in Nat
    <2> TAKE x \in S
    <2>1. x \in Nat /\ x <= b
      OBVIOUS
    <2> QED BY <2>1
  <1>2. D \in SUBSET Nat /\ D # {}
    BY <1>1
  <1>3. PICK d \in D : \A e \in D : d <= e
    <2> HIDE DEF D
    <2> QED BY <1>2, NatMin
  <1>4. PICK x \in S : \A y \in S : b - x <= b - y
    BY <1>3
  <1>5. \A y \in S : y <= x
    <2> TAKE y \in S
    <2>1. x \in Nat /\ y \in Nat /\ b - x <= b - y
      BY <1>4
    <2> QED BY <2>1
  <1> QED BY <1>5

LEMMA FirstAndLast ==
  ASSUME NEW S \in SUBSET Nat, S # {}, NEW k \in Nat, \A i \in S : i <= k
  PROVE  Min(S) \in S /\ Max(S) \in S
  <1>1. \E x \in S : \A y \in S : x <= y
    BY NatMin
  <1>2. Min(S) \in S
    BY <1>1 DEF Min
  <1>3. PICK x \in S : \A y \in S : y <= x
    BY BoundedMax
  <1>4. \A y \in S : x >= y
    <2> TAKE y \in S
    <2>1. x \in Nat /\ y \in Nat /\ y <= x
      BY <1>3
    <2> QED BY <2>1
  <1>5. Max(S) \in S
    BY <1>4 DEF Max
  <1> QED BY <1>2, <1>5

\* A finite set of numbers has a greatest.
LEMMA FiniteMax ==
  ASSUME NEW S \in SUBSET Nat, S # {}, IsFiniteSet(S)
  PROVE  \E x \in S : \A y \in S : y <= x
  <1>0. PICK n \in Nat : ExistsSurjection(1 .. n, S)
    BY FS_NatSurjection
  <1>1. PICK f \in [1 .. n -> S] : \A x \in S : \E i \in 1 .. n : f[i] = x
    BY <1>0 DEF ExistsSurjection, Surjection
  <1>2. \A i \in 1 .. n : f[i] \in Nat
    BY <1>1
  <1> DEFINE U == {k \in Nat : \E b \in Nat : \A i \in 1 .. n : i <= k => f[i] <= b}
  <1>3. 0 \in U
    OBVIOUS
  <1>4. ASSUME NEW k \in 0 .. n - 1, k \in U
        PROVE  k + 1 \in U
    <2>1. PICK b \in Nat : \A i \in 1 .. n : i <= k => f[i] <= b
      BY <1>4
    <2>2. k + 1 \in 1 .. n /\ f[k + 1] \in Nat /\ \A i \in 1 .. n : i <= k + 1 => i <= k \/ i = k + 1
      BY <1>1, <1>2
    <2> DEFINE c == b + f[k + 1]
    <2>3. c \in Nat /\ b <= c /\ f[k + 1] <= c
      BY <2>2
    <2>4. \A i \in 1 .. n : i <= k + 1 => f[i] <= c
      <3> HIDE DEF c
      <3> QED BY <1>2, <2>1, <2>2, <2>3
    <2> QED BY <2>3, <2>4
  <1>5. n \in U
    <2> HIDE DEF U
    <2>1. 0 .. n \subseteq U
      BY <1>3, <1>4, UpInduction
    <2> QED BY <2>1
  <1>6. PICK b \in Nat : \A i \in 1 .. n : f[i] <= b
    BY <1>5
  <1>7. \A x \in S : x <= b
    BY <1>1, <1>6
  <1> QED BY <1>7, BoundedMax

\* What a text declares of a node is a line of it or the default.
LEMMA DeclaredFacts ==
  ASSUME NEW t, IsText(t), NEW op, NEW n, NEW default
  PROVE  \/ Declared(t, op, n, default) = default
         \/ \E i \in DOMAIN t : t[i].op = op /\ Declared(t, op, n, default) = t[i].value
  <1> DEFINE own == {i \in LinesOf(t, op) : t[i].node = n}
  <1>1. own \in SUBSET Nat /\ Len(t) \in Nat /\ \A i \in own : i <= Len(t)
    BY DEF IsText, LinesOf
  <1>2. CASE own = {}
    BY <1>2 DEF Declared
  <1>3. CASE own # {}
    <2>1. Max(own) \in own
      <3> HIDE DEF own
      <3> QED BY <1>1, <1>3, FirstAndLast
    <2>2. Declared(t, op, n, default) = t[Max(own)].value
      BY <1>3 DEF Declared
    <2> QED BY <2>1, <2>2 DEF LinesOf
  <1> QED BY <1>2, <1>3

LEMMA EmptyText == IsText(<<>>) /\ NodesOf(<<>>) = {}
  BY DEF IsText, NodesOf, LinesOf

\* A text declares its nodes in some order.
LEMMA OrderOfText ==
  ASSUME NEW t, IsText(t)
  PROVE  /\ \A n \in NodesOf(t) : Min(Mentions(t, n)) \in Nat
         /\ \A m, n \in NodesOf(t) : Min(Mentions(t, m)) = Min(Mentions(t, n)) => m = n
  <1>1. ASSUME NEW n \in NodesOf(t)
        PROVE  Min(Mentions(t, n)) \in Mentions(t, n) /\ Mentions(t, n) \subseteq Nat
    <2>1. Len(t) \in Nat /\ DOMAIN t \subseteq Nat /\ \A i \in DOMAIN t : i <= Len(t)
      BY DEF IsText
    <2>2. Mentions(t, n) \subseteq Nat /\ \A i \in Mentions(t, n) : i <= 2 * Len(t) + 1
      BY <2>1 DEF Mentions, LinesOf
    <2>3. Mentions(t, n) # {}
      BY DEF NodesOf, Mentions
    <2>4. 2 * Len(t) + 1 \in Nat
      BY <2>1
    <2> QED BY <2>2, <2>3, <2>4, FirstAndLast
  <1>2. ASSUME NEW m \in NodesOf(t), NEW n \in NodesOf(t), NEW x,
               x \in Mentions(t, m), x \in Mentions(t, n)
        PROVE  m = n
    <2>1. DOMAIN t \subseteq Nat
      BY DEF IsText
    <2>2. \A i, j \in Nat : /\ 2 * i = 2 * j => i = j
                            /\ 2 * i + 1 = 2 * j + 1 => i = j
                            /\ 2 * i # 2 * j + 1
      OBVIOUS
    <2>3. CASE \E i \in DOMAIN t : x = 2 * i
      BY <1>2, <2>1, <2>2, <2>3 DEF Mentions, LinesOf
    <2>4. CASE \E i \in DOMAIN t : x = 2 * i + 1
      BY <1>2, <2>1, <2>2, <2>4 DEF Mentions, LinesOf
    <2> QED BY <1>2, <2>3, <2>4 DEF Mentions, LinesOf
  <1> QED BY <1>1, <1>2

LEMMA ImageFinite ==
  ASSUME NEW D, IsFiniteSet(D), NEW f, DOMAIN f = D
  PROVE  IsFiniteSet({f[i] : i \in D})
  <1> DEFINE T == {f[i] : i \in D}
             g == [i \in D |-> f[i]]
  <1>1. g \in Surjection(D, T)
    BY DEF Surjection
  <1> QED BY <1>1, FS_Surjection

\* A text stands for a graph.
LEMMA GraphOfText ==
  ASSUME NEW t, IsText(t)
  PROVE  IsGraph(GraphOf(t)) /\ HasGuards(GraphOf(t)) /\ GraphOf(t).nodes = NodesOf(t)
  <1> DEFINE E == LinesOf(t, "edge")
             edges == {EdgeOf(t, i) : i \in E}
             g == GraphOf(t)
  <1>1. /\ g.nodes = NodesOf(t)
        /\ g.order = [n \in NodesOf(t) |-> Min(Mentions(t, n))]
        /\ g.starts = {t[i].node : i \in LinesOf(t, "start") \cup {j \in E : t[j].value[3]}}
        /\ g.join = [n \in NodesOf(t) |-> Declared(t, "join", n, <<"AND">>)[1]]
        /\ g.edges = edges
        /\ DOMAIN g.guard = {f \in edges : f.guarded}
    BY DEF GraphOf
  <1>2. g = [nodes |-> g.nodes, order |-> g.order, starts |-> g.starts, join |-> g.join,
             edges |-> g.edges, guard |-> g.guard]
    BY DEF GraphOf
  <1> HIDE DEF g
  <1>3. E \subseteq DOMAIN t /\ DOMAIN t \subseteq Nat /\ IsFiniteSet(DOMAIN t) /\ IsFiniteSet(E)
    <2>1. E \subseteq DOMAIN t /\ DOMAIN t \subseteq Nat
      BY DEF LinesOf, IsText
    <2> HIDE DEF E
    <2>2. IsFiniteSet(DOMAIN t)
      BY FS_Interval DEF IsText
    <2> QED BY <2>1, <2>2, FS_Subset
  <1>4. \A i \in DOMAIN t : t[i].node \in NodesOf(t)
    BY DEF NodesOf
  <1>5. \A i \in E : t[i].value[1] \in NodesOf(t)
    BY DEF NodesOf
  <1>6. NodesOf(t) = {t[i].node : i \in DOMAIN t} \cup {t[i].value[1] : i \in E}
    BY DEF NodesOf
  <1>7. LinesOf(t, "start") \subseteq DOMAIN t
    BY DEF LinesOf
  <1> HIDE DEF E
  <1>8. IsFiniteSet(g.nodes)
    <2> DEFINE f == [i \in DOMAIN t |-> t[i].node]
               h == [i \in E |-> t[i].value[1]]
    <2>1. NodesOf(t) = {f[i] : i \in DOMAIN t} \cup {h[i] : i \in E}
      BY <1>6
    <2>2. DOMAIN f = DOMAIN t /\ DOMAIN h = E
      OBVIOUS
    <2> HIDE DEF f, h
    <2>3. IsFiniteSet({f[i] : i \in DOMAIN t}) /\ IsFiniteSet({h[i] : i \in E})
      BY <1>3, <2>2, ImageFinite
    <2>4. IsFiniteSet(NodesOf(t))
      BY <2>1, <2>3, FS_Union
    <2> QED BY <1>1, <2>4
  <1>9. g.order \in [g.nodes -> Nat] /\ \A m, n \in g.nodes : g.order[m] = g.order[n] => m = n
    <2>1. \A n \in NodesOf(t) : Min(Mentions(t, n)) \in Nat
      BY OrderOfText
    <2>2. \A m, n \in NodesOf(t) : Min(Mentions(t, m)) = Min(Mentions(t, n)) => m = n
      BY OrderOfText
    <2> HIDE DEF edges
    <2> QED BY <1>1, <2>1, <2>2
  <1>10. g.starts \subseteq g.nodes
    <2> HIDE DEF edges
    <2> QED BY <1>1, <1>3, <1>4, <1>7
  <1>11. g.join \in [g.nodes -> {"AND", "OR"}]
    <2> HIDE DEF edges
    <2> SUFFICES ASSUME NEW n \in NodesOf(t)
                 PROVE  Declared(t, "join", n, <<"AND">>)[1] \in {"AND", "OR"}
      BY <1>1
    <2>1. Declared(t, "join", n, <<"AND">>) \in {<<"AND">>, <<"OR">>}
      BY DeclaredFacts DEF IsText, IsLine
    <2> QED BY <2>1
  <1>12. edges \subseteq [src : NodesOf(t), dst : NodesOf(t), guarded : BOOLEAN, pos : Nat]
    <2>1. \A i \in E : t[i].node \in NodesOf(t) /\ t[i].value[1] \in NodesOf(t) /\ i \in Nat
      BY <1>3, <1>4, <1>5
    <2>2. \A i \in E : EdgeOf(t, i) \in [src : NodesOf(t), dst : NodesOf(t), guarded : BOOLEAN, pos : Nat]
      BY <2>1 DEF EdgeOf
    <2> QED BY <2>2
  <1>13. IsFiniteSet(edges)
    <2> DEFINE f == [i \in E |-> EdgeOf(t, i)]
    <2>1. {f[i] : i \in E} = edges /\ DOMAIN f = E
      OBVIOUS
    <2> HIDE DEF f, edges
    <2>2. IsFiniteSet({f[i] : i \in E})
      BY <1>3, <2>1, ImageFinite
    <2> QED BY <2>1, <2>2
  <1>14. \A e \in edges : e = EdgeOf(t, e.pos)
    <2>1. \A i \in E : EdgeOf(t, i).pos = i
      BY DEF EdgeOf
    <2> QED BY <2>1
  <1> HIDE DEF edges
  <1>15. \A e, f \in edges : e.pos = f.pos => e = f
    BY <1>14
  <1>16. IsGraph(g)
    BY <1>1, <1>8, <1>9, <1>10, <1>11, <1>12, <1>13, <1>15 DEF IsGraph
  <1>17. HasGuards(g)
    BY <1>1, <1>2 DEF HasGuards
  <1> QED BY <1>1, <1>16, <1>17 DEF g
-----------------------------------------------------------------------------
(* Paths *)

LEMMA EdgeFacts ==
  ASSUME NEW g, IsGraph(g)
  PROVE  /\ \A n : Producers(g, n) \subseteq g.nodes /\ Consumers(g, n) \subseteq g.nodes
         /\ \A n, p : p \in Producers(g, n) <=> n \in Consumers(g, p)
         /\ \A n, p : p \in Producers(g, n) => n \in g.nodes /\ <<n, p>> \in Slots(g)
  <1>1. \A e \in g.edges : e.src \in g.nodes /\ e.dst \in g.nodes
    BY DEF IsGraph
  <1> QED BY <1>1 DEF Producers, Consumers, InEdges, OutEdges, Slots

LEMMA ForwardFacts ==
  ASSUME NEW g, IsGraph(g), NEW n \in g.nodes
  PROVE  /\ n \in ReachableFrom(g, n) /\ ReachableFrom(g, n) \subseteq g.nodes
         /\ \A k \in ReachableFrom(g, n) : Consumers(g, k) \subseteq ReachableFrom(g, n)
         /\ \A T : n \in T /\ (\A k \in T \cap g.nodes : Consumers(g, k) \subseteq T)
                     => ReachableFrom(g, n) \subseteq T
  <1> DEFINE next == [k \in g.nodes |-> Consumers(g, k)]
  <1>1. next \in [g.nodes -> SUBSET g.nodes] /\ {n} \in SUBSET g.nodes /\ IsFiniteSet(g.nodes)
    BY EdgeFacts DEF IsGraph
  <1>2. \A k \in g.nodes : next[k] = Consumers(g, k)
    OBVIOUS
  <1>3. ReachableFrom(g, n) = Reached(next, {n})
    BY DEF ReachableFrom
  <1> HIDE DEF next
  <1> QED BY <1>1, <1>2, <1>3, ReachedFacts

LEMMA UpstreamFacts ==
  ASSUME NEW g, IsGraph(g), NEW m
  PROVE  /\ Producers(g, m) \subseteq Upstream(g, m) /\ Upstream(g, m) \subseteq g.nodes
         /\ \A k \in Upstream(g, m) : Producers(g, k) \subseteq Upstream(g, m)
         /\ \A T : Producers(g, m) \subseteq T /\ (\A k \in T \cap g.nodes : Producers(g, k) \subseteq T)
                     => Upstream(g, m) \subseteq T
  <1> DEFINE next == [k \in g.nodes |-> Producers(g, k)]
  <1>1. next \in [g.nodes -> SUBSET g.nodes] /\ Producers(g, m) \in SUBSET g.nodes /\ IsFiniteSet(g.nodes)
    BY EdgeFacts DEF IsGraph
  <1>2. \A k \in g.nodes : next[k] = Producers(g, k)
    OBVIOUS
  <1>3. Upstream(g, m) = Reached(next, Producers(g, m))
    BY DEF Upstream, LeadingTo
  <1> HIDE DEF next
  <1> QED BY <1>1, <1>2, <1>3, ReachedFacts

\* Who leads to a node that leads to m leads to m.
LEMMA LeadsTo ==
  ASSUME NEW g, IsGraph(g), NEW m, NEW c \in g.nodes, NEW x \in ReachableFrom(g, c)
  PROVE  /\ x \in Upstream(g, m) => c \in Upstream(g, m)
         /\ x = m => c \in Upstream(g, m) \cup {m}
  <1> DEFINE A == Upstream(g, m)
  <1>1. /\ Producers(g, m) \subseteq A
        /\ \A k \in A : Producers(g, k) \subseteq A
    BY UpstreamFacts
  <1>2. \A k \in g.nodes : \A y \in Consumers(g, k) : y \in g.nodes /\ k \in Producers(g, y)
    BY EdgeFacts
  <1>3. \A T : c \in T /\ (\A k \in T \cap g.nodes : Consumers(g, k) \subseteq T) => x \in T
    BY ForwardFacts
  <1> HIDE DEF A
  <1>4. ASSUME x \in A, c \notin A PROVE FALSE
    <2>1. \A k \in (g.nodes \ A) \cap g.nodes : Consumers(g, k) \subseteq g.nodes \ A
      BY <1>1, <1>2
    <2> QED BY <1>3, <1>4, <2>1
  <1>5. ASSUME x = m, c \notin A \cup {m} PROVE FALSE
    <2>1. \A k \in (g.nodes \ (A \cup {m})) \cap g.nodes : Consumers(g, k) \subseteq g.nodes \ (A \cup {m})
      BY <1>1, <1>2
    <2> QED BY <1>3, <1>5, <2>1
  <1> QED BY <1>4, <1>5 DEF A

\* What a node feeds lets the parser see all that is upstream of it.
LEMMA ReadUpstream ==
  ASSUME NEW g, IsGraph(g), NEW m, NEW p, FiresBefore(g, p, m)
  PROVE  p \in Upstream(g, m)
  <1>1. PICK c \in Consumers(g, p) : m \in ReachableFrom(g, c)
    BY DEF FiresBefore
  <1>2. c \in g.nodes /\ p \in Producers(g, c)
    BY <1>1, EdgeFacts
  <1>3. c \in Upstream(g, m) \cup {m}
    BY <1>1, <1>2, LeadsTo
  <1> QED BY <1>2, <1>3, UpstreamFacts

\* At most one producer means that any two are the same.
LEMMA OneProducer ==
  ASSUME NEW g, IsGraph(g), NEW n, Cardinality(Producers(g, n)) <= 1,
         NEW p \in Producers(g, n)
  PROVE  Producers(g, n) = {p}
  <1>1. IsFiniteSet(Producers(g, n))
    BY EdgeFacts, FS_Subset DEF IsGraph
  <1>2. Cardinality(Producers(g, n)) \in Nat /\ Cardinality({p}) = 1 /\ IsFiniteSet({p})
    BY <1>1, FS_CardinalityType, FS_Singleton
  <1>3. {p} \subseteq Producers(g, n)
    OBVIOUS
  <1>4. Cardinality({p}) <= Cardinality(Producers(g, n))
    BY <1>1, <1>3, FS_Subset
  <1>5. Cardinality({p}) = Cardinality(Producers(g, n))
    BY <1>2, <1>4
  <1> QED BY <1>1, <1>3, <1>5, FS_Subset

-----------------------------------------------------------------------------
(* Runs *)

\* A run has fired nodes of the graph; what it has fired is no more armed, and
\* tokens come from what has fired.
RunOK(g, r) ==
  /\ r.fired \subseteq g.nodes
  /\ r.marking.tokens \subseteq Slots(g)
  /\ \A slot \in r.marking.tokens : slot[2] \in r.fired
  /\ r.marking.armed = g.starts \ r.fired

\* What has fired was a start or had reason to.
CausedOK(g, r) ==
  \A n \in r.fired \ g.starts :
    /\ g.join[n] = "AND" => Producers(g, n) \subseteq r.fired
    /\ Producers(g, n) \cap r.fired # {}

\* The next run r2: F fires and gives answers.
RunStep(g, r, r2, F, answers) ==
  /\ F = Fireable(g, r.marking)
  /\ \A n \in F : answers[n] \in Answers(g, n)
  /\ r2.fired = r.fired \cup F
  /\ r2.failed = r.failed \cup {n \in F : ~answers[n].ok}
  /\ r2.marking.armed = r.marking.armed \ F
  /\ \A slot : slot \in r2.marking.tokens <=>
       \/ slot \in r.marking.tokens /\ slot[1] \notin F /\ slot[2] \notin F
       \/ /\ slot \in Slots(g) /\ slot[2] \in F
          /\ slot[1] \in Delivered(g, slot[2], answers[slot[2]])

LEMMA SuccessorSteps ==
  ASSUME NEW g, NEW r, NEW r2 \in Successors(g, r)
  PROVE  \E F, answers : RunStep(g, r, r2, F, answers)
  <1> DEFINE F == Fireable(g, r.marking)
             C == {c \in [F -> UNION {Answers(g, n) : n \in F}] : \A n \in F : c[n] \in Answers(g, n)}
  <1>1. PICK answers \in C :
          r2 = [marking |-> After(g, r.marking, answers), fired |-> r.fired \cup F,
                failed |-> r.failed \cup {n \in F : ~answers[n].ok}]
    BY DEF Successors
  <1>2. DOMAIN answers = F /\ \A n \in F : answers[n] \in Answers(g, n)
    BY <1>1
  <1> HIDE DEF F, C
  <1>3. /\ r2.marking = After(g, r.marking, answers) /\ r2.fired = r.fired \cup F
        /\ r2.failed = r.failed \cup {n \in F : ~answers[n].ok}
    BY <1>1
  <1>4. /\ r2.marking.armed = r.marking.armed \ F
        /\ r2.marking.tokens =
             {slot \in r.marking.tokens : slot[1] \notin F /\ slot[2] \notin F}
             \cup {slot \in Slots(g) :
                    slot[2] \in F /\ slot[1] \in Delivered(g, slot[2], answers[slot[2]])}
    BY <1>2, <1>3 DEF After
  <1>5. RunStep(g, r, r2, F, answers)
    BY <1>2, <1>3, <1>4 DEF RunStep, F
  <1> QED BY <1>5

\* Whatever the nodes that fire answer, there is a run for it.
LEMMA StepsSuccessor ==
  ASSUME NEW g, NEW r, NEW a, \A n \in Fireable(g, r.marking) : a[n] \in Answers(g, n)
  PROVE  \E r2 \in Successors(g, r) : \E answers :
            /\ RunStep(g, r, r2, Fireable(g, r.marking), answers)
            /\ \A n \in Fireable(g, r.marking) : answers[n] = a[n]
  <1> DEFINE F == Fireable(g, r.marking)
             C == {c \in [F -> UNION {Answers(g, n) : n \in F}] : \A n \in F : c[n] \in Answers(g, n)}
             answers == [n \in F |-> a[n]]
             r2 == [marking |-> After(g, r.marking, answers), fired |-> r.fired \cup F,
                    failed |-> r.failed \cup {n \in F : ~answers[n].ok}]
  <1>1. DOMAIN answers = F /\ (\A n \in F : answers[n] = a[n] /\ answers[n] \in Answers(g, n))
    OBVIOUS
  <1>2. answers \in C
    <2>1. answers \in [F -> UNION {Answers(g, n) : n \in F}]
      OBVIOUS
    <2> HIDE DEF answers
    <2> QED BY <1>1, <2>1
  <1>3. r2 \in Successors(g, r)
    <2> HIDE DEF answers
    <2> QED BY <1>2 DEF Successors
  <1>4. /\ r2.marking = After(g, r.marking, answers) /\ r2.fired = r.fired \cup F
        /\ r2.failed = r.failed \cup {n \in F : ~answers[n].ok}
    OBVIOUS
  <1> HIDE DEF F, C, answers, r2
  <1>5. /\ r2.marking.armed = r.marking.armed \ F
        /\ r2.marking.tokens =
             {slot \in r.marking.tokens : slot[1] \notin F /\ slot[2] \notin F}
             \cup {slot \in Slots(g) :
                    slot[2] \in F /\ slot[1] \in Delivered(g, slot[2], answers[slot[2]])}
    BY <1>1, <1>4 DEF After
  <1>6. RunStep(g, r, r2, F, answers)
    BY <1>1, <1>4, <1>5 DEF RunStep, F
  <1> QED BY <1>1, <1>3, <1>6 DEF F

LEMMA RunSteps ==
  ASSUME NEW g, IsGraph(g), NEW r, RunOK(g, r), CausedOK(g, r),
         NEW r2, NEW F, NEW answers, RunStep(g, r, r2, F, answers)
  PROVE  RunOK(g, r2) /\ CausedOK(g, r2)
  <1>1. F \subseteq g.nodes /\ \A n \in F : JoinSatisfied(g, n, r.marking)
    BY DEF RunStep, Fireable
  <1>2. RunOK(g, r2)
    BY <1>1 DEF RunOK, RunStep
  <1>3. ASSUME NEW n \in F, n \notin g.starts
        PROVE  /\ g.join[n] = "AND" => Producers(g, n) \subseteq r.fired
               /\ Producers(g, n) \cap r.fired # {}
    <2>1. n \notin r.marking.armed /\ (\A p : <<n, p>> \in r.marking.tokens => p \in r.fired)
      BY <1>3 DEF RunOK
    <2>2. g.join[n] \in {"AND", "OR"}
      BY <1>1, <1>3 DEF IsGraph
    <2> QED BY <1>1, <1>3, <2>1, <2>2 DEF JoinSatisfied
  <1>4. CausedOK(g, r2)
    BY <1>3 DEF CausedOK, RunStep
  <1> QED BY <1>2, <1>4
-----------------------------------------------------------------------------
(* Below a tree: what is upstream of m fires once *)

OnceOK(g, r) ==
  \A m \in g.nodes : TreeAbove(g, m) =>
    \A x \in Upstream(g, m) : x \in r.fired => x \notin Fireable(g, r.marking)

\* A start above m has no producers, any other node has the one.
LEMMA TreeNode ==
  ASSUME NEW g, IsGraph(g), NEW m, TreeAbove(g, m), NEW x \in Upstream(g, m)
  PROVE  /\ x \in g.nodes /\ Producers(g, x) \subseteq Upstream(g, m)
         /\ x \in g.starts => Producers(g, x) = {}
         /\ \A p \in Producers(g, x) : Producers(g, x) = {p}
  <1>1. x \in g.nodes /\ Producers(g, x) \subseteq Upstream(g, m)
    BY UpstreamFacts
  <1>2. Cardinality(Producers(g, x)) <= 1 /\ (x \in g.starts => Producers(g, x) = {})
    BY DEF TreeAbove
  <1> QED BY <1>1, <1>2, OneProducer

\* A node above m can fire if it is armed or has a token.
LEMMA TreeFireable ==
  ASSUME NEW g, IsGraph(g), NEW m, TreeAbove(g, m), NEW x \in Upstream(g, m),
         NEW r, RunOK(g, r)
  PROVE  x \in Fireable(g, r.marking) <=>
           \/ x \in g.starts /\ x \notin r.fired
           \/ \E p \in Producers(g, x) : <<x, p>> \in r.marking.tokens
  <1>1. /\ x \in g.nodes
        /\ \A p \in Producers(g, x) : Producers(g, x) = {p}
    BY TreeNode
  <1>2. g.join[x] \in {"AND", "OR"}
    BY <1>1 DEF IsGraph
  <1>3. x \in r.marking.armed <=> x \in g.starts /\ x \notin r.fired
    BY DEF RunOK
  <1> QED BY <1>1, <1>2, <1>3 DEF Fireable, JoinSatisfied

\* What has fired upstream of m has fired all that is upstream of it.
LEMMA FiredFromTheRoots ==
  ASSUME NEW g, IsGraph(g), NEW m, TreeAbove(g, m),
         NEW r, RunOK(g, r), CausedOK(g, r)
  PROVE  \A x \in Upstream(g, m) : x \in r.fired => Producers(g, x) \subseteq r.fired
  <1> SUFFICES ASSUME NEW x \in Upstream(g, m), x \in r.fired, NEW p \in Producers(g, x)
               PROVE  p \in r.fired
    OBVIOUS
  <1>1. x \notin g.starts /\ Producers(g, x) = {p}
    BY TreeNode
  <1> QED BY <1>1 DEF CausedOK

LEMMA OnceSteps ==
  ASSUME NEW g, IsGraph(g), NEW r, RunOK(g, r), CausedOK(g, r), OnceOK(g, r),
         NEW r2, NEW F, NEW answers, RunStep(g, r, r2, F, answers)
  PROVE  OnceOK(g, r2)
  <1> SUFFICES ASSUME NEW m \in g.nodes, TreeAbove(g, m), NEW x \in Upstream(g, m),
                      x \in r2.fired, x \in Fireable(g, r2.marking)
               PROVE  FALSE
    BY DEF OnceOK
  <1>1. RunOK(g, r2) /\ CausedOK(g, r2)
    BY RunSteps
  <1>2. PICK p \in Producers(g, x) : <<x, p>> \in r2.marking.tokens
    BY <1>1, TreeFireable
  <1>3. p \in Upstream(g, m)
    BY TreeNode
  <1>4. CASE <<x, p>> \in r.marking.tokens /\ x \notin F
    <2>1. x \in Fireable(g, r.marking)
      BY <1>2, <1>4, TreeFireable
    <2> QED BY <1>4, <2>1 DEF RunStep
  <1>5. CASE p \in F
    <2>1. p \notin r.fired
      BY <1>3, <1>5 DEF OnceOK, RunStep
    <2>2. x \notin r.fired
      BY <1>2, <2>1, FiredFromTheRoots
    <2>3. x \in F
      BY <2>2 DEF RunStep
    <2>4. x \notin g.starts
      BY <1>2, TreeNode
    <2>5. PICK q \in Producers(g, x) : <<x, q>> \in r.marking.tokens
      BY <2>3, <2>4, TreeFireable DEF RunStep
    <2>6. q = p
      BY <1>2, TreeNode
    <2> QED BY <2>1, <2>5, <2>6 DEF RunOK
  <1> QED BY <1>2, <1>4, <1>5 DEF RunStep

\* Of the edges of a splitter with different guards, one has led to a firing or
\* a token at most.
HasDelivered(r, e) == e.dst \in r.fired \/ <<e.dst, e.src>> \in r.marking.tokens

ExclusiveOK(g, r) ==
  \A m \in g.nodes : TreeAbove(g, m) /\ SingleEdges(g, m) =>
    \A e, f \in g.edges :
      /\ e.src = f.src /\ e.guarded /\ f.guarded /\ g.guard[e] # g.guard[f]
      /\ e.dst \in Upstream(g, m) /\ f.dst \in Upstream(g, m)
      => ~(HasDelivered(r, e) /\ HasDelivered(r, f))

\* An edge above m that has delivered has a source that has fired.
LEMMA DeliveredByFired ==
  ASSUME NEW g, IsGraph(g), NEW m, TreeAbove(g, m), NEW r, RunOK(g, r), CausedOK(g, r),
         NEW e \in g.edges, e.dst \in Upstream(g, m), HasDelivered(r, e)
  PROVE  e.src \in r.fired
  <1>1. e.src \in Producers(g, e.dst)
    BY DEF Producers, InEdges
  <1>2. CASE e.dst \in r.fired
    BY <1>1, <1>2, FiredFromTheRoots
  <1>3. CASE <<e.dst, e.src>> \in r.marking.tokens
    BY <1>3 DEF RunOK
  <1> QED BY <1>2, <1>3 DEF HasDelivered

\* It delivers when its source fires and answers its guard, and not again.
LEMMA DeliversOnce ==
  ASSUME NEW g, IsGraph(g), NEW m \in g.nodes, TreeAbove(g, m), SingleEdges(g, m),
         NEW r, RunOK(g, r), CausedOK(g, r), OnceOK(g, r),
         NEW r2, NEW F, NEW answers, RunStep(g, r, r2, F, answers),
         NEW e \in g.edges, e.dst \in Upstream(g, m), e.guarded
  PROVE  HasDelivered(r2, e) =>
           \/ HasDelivered(r, e) /\ e.src \notin F
           \/ ~HasDelivered(r, e) /\ e.src \in F /\ g.guard[e] \in answers[e.src].holds
  <1> SUFFICES ASSUME HasDelivered(r2, e)
               PROVE  \/ HasDelivered(r, e) /\ e.src \notin F
                      \/ ~HasDelivered(r, e) /\ e.src \in F /\ g.guard[e] \in answers[e.src].holds
    OBVIOUS
  <1>1. e.src \in Producers(g, e.dst) /\ Producers(g, e.dst) = {e.src} /\ e.dst \notin g.starts
    <2>1. e.src \in Producers(g, e.dst)
      BY DEF Producers, InEdges
    <2> QED BY <2>1, TreeNode
  <1>2. e.src \in Upstream(g, m)
    BY <1>1, TreeNode
  <1>3. e.src \in F => e.src \notin r.fired
    BY <1>2 DEF OnceOK, RunStep
  <1>4. e.src \in F => ~HasDelivered(r, e)
    BY <1>3, DeliveredByFired
  <1>5. e.dst \in F => HasDelivered(r, e)
    <2> SUFFICES ASSUME e.dst \in F PROVE HasDelivered(r, e)
      OBVIOUS
    <2>1. e.dst \in Fireable(g, r.marking)
      BY DEF RunStep
    <2>2. PICK p \in Producers(g, e.dst) : <<e.dst, p>> \in r.marking.tokens
      BY <1>1, <2>1, TreeFireable
    <2>3. p = e.src
      BY <1>1, <2>2
    <2> QED BY <2>2, <2>3 DEF HasDelivered
  <1>6. ASSUME e.src \in F, e.dst \in Delivered(g, e.src, answers[e.src])
        PROVE  g.guard[e] \in answers[e.src].holds
    <2>1. PICK f \in OutEdges(g, e.src) : f.dst = e.dst /\ (f.guarded => g.guard[f] \in answers[e.src].holds)
      BY <1>6 DEF Delivered
    <2>2. f = e
      BY <2>1 DEF OutEdges, SingleEdges
    <2> QED BY <2>1, <2>2
  <1>7. CASE HasDelivered(r, e)
    BY <1>4, <1>7
  <1>8. CASE ~HasDelivered(r, e)
    <2>1. e.dst \notin r2.fired /\ <<e.dst, e.src>> \notin r.marking.tokens
      BY <1>5, <1>8 DEF HasDelivered, RunStep
    <2>2. <<e.dst, e.src>> \in r2.marking.tokens
      BY <2>1 DEF HasDelivered
    <2>3. e.src \in F /\ e.dst \in Delivered(g, e.src, answers[e.src])
      BY <2>1, <2>2 DEF RunStep
    <2> QED BY <1>6, <1>8, <2>3
  <1> QED BY <1>7, <1>8

LEMMA ExclusiveSteps ==
  ASSUME NEW g, IsGraph(g), NEW r, RunOK(g, r), CausedOK(g, r), OnceOK(g, r), ExclusiveOK(g, r),
         NEW r2, NEW F, NEW answers, RunStep(g, r, r2, F, answers)
  PROVE  ExclusiveOK(g, r2)
  <1> SUFFICES ASSUME NEW m \in g.nodes, TreeAbove(g, m), SingleEdges(g, m),
                      NEW e \in g.edges, NEW f \in g.edges,
                      e.src = f.src, e.guarded, f.guarded, g.guard[e] # g.guard[f],
                      e.dst \in Upstream(g, m), f.dst \in Upstream(g, m),
                      HasDelivered(r2, e), HasDelivered(r2, f)
               PROVE  FALSE
    BY DEF ExclusiveOK
  <1>1. /\ \/ HasDelivered(r, e) /\ e.src \notin F
           \/ e.src \in F /\ g.guard[e] \in answers[e.src].holds
        /\ \/ HasDelivered(r, f) /\ f.src \notin F
           \/ f.src \in F /\ g.guard[f] \in answers[f.src].holds
    BY DeliversOnce
  <1>2. CASE e.src \in F
    <2>1. answers[e.src] \in Answers(g, e.src)
      BY <1>2 DEF RunStep
    <2>2. ASSUME NEW y \in answers[e.src].holds, NEW z \in answers[e.src].holds PROVE y = z
      <3>1. \/ answers[e.src] = [ok |-> FALSE, holds |-> {}]
            \/ answers[e.src] = [ok |-> TRUE, holds |-> {}]
            \/ \E x : answers[e.src] = [ok |-> TRUE, holds |-> {x}]
        BY <2>1, Zenon DEF Answers
      <3>2. answers[e.src].holds = {} \/ \E x : answers[e.src].holds = {x}
        <4>1. CASE \E x : answers[e.src] = [ok |-> TRUE, holds |-> {x}]
          BY <4>1
        <4>2. CASE answers[e.src] = [ok |-> FALSE, holds |-> {}]
          BY <4>2
        <4>3. CASE answers[e.src] = [ok |-> TRUE, holds |-> {}]
          BY <4>3
        <4> QED BY <3>1, <4>1, <4>2, <4>3
      <3> QED BY <2>2, <3>2
    <2> QED BY <1>1, <1>2, <2>2
  <1>3. CASE e.src \notin F
    BY <1>1, <1>3 DEF ExclusiveOK
  <1> QED BY <1>2, <1>3

-----------------------------------------------------------------------------
(* Cycles *)

\* Of two edges that join the same nodes the last decides, and there is one.
LEMMA LastEdge ==
  ASSUME NEW g, IsGraph(g), NEW p, NEW n \in Consumers(g, p)
  PROVE  \E e \in OutEdges(g, p) : e.dst = n /\ IsLastEdge(g.edges, e)
  <1> DEFINE E == {e \in g.edges : e.src = p /\ e.dst = n}
             P == {e.pos : e \in E}
  <1>1. E # {} /\ IsFiniteSet(E) /\ \A e \in E : e.pos \in Nat
    <2>1. E \subseteq g.edges
      OBVIOUS
    <2>2. E # {}
      BY DEF Consumers, OutEdges
    <2>3. \A e \in g.edges : e.pos \in Nat
      BY DEF IsGraph
    <2>4. IsFiniteSet(E)
      <3> HIDE DEF E
      <3> QED BY <2>1, FS_Subset DEF IsGraph
    <2> QED BY <2>1, <2>2, <2>3, <2>4
  <1>2. \E x \in P : \A y \in P : y <= x
    <2> DEFINE f == [e \in E |-> e.pos]
    <2>1. P = {f[e] : e \in E} /\ DOMAIN f = E
      OBVIOUS
    <2>2. P \subseteq Nat /\ P # {}
      BY <1>1
    <2> HIDE DEF f, P, E
    <2>3. IsFiniteSet(P)
      BY <1>1, <2>1, ImageFinite
    <2> QED BY <2>2, <2>3, FiniteMax
  <1>3. PICK e \in E : \A f \in E : f.pos <= e.pos
    BY <1>2
  <1> QED BY <1>3 DEF IsLastEdge, OutEdges
\* It delivers, without a Failure, if it has no guard or its guard holds.
LEMMA Delivers ==
  ASSUME NEW g, NEW r, NEW r2, NEW F, NEW answers, RunStep(g, r, r2, F, answers),
         NEW p \in F, NEW e \in OutEdges(g, p), IsLastEdge(g.edges, e),
         answers[p].ok, e.guarded => g.guard[e] \in answers[p].holds
  PROVE  <<e.dst, p>> \in r2.marking.tokens
  <1>1. e \in g.edges /\ e.src = p
    BY DEF OutEdges
  <1>2. <<e.dst, p>> \in Slots(g)
    BY <1>1 DEF Slots
  <1>3. e.dst \in Delivered(g, p, answers[p])
    BY DEF Delivered
  <1> QED BY <1>2, <1>3 DEF RunStep

LEMMA ForwardTransitive ==
  ASSUME NEW g, IsGraph(g), NEW x \in g.nodes, NEW y \in ReachableFrom(g, x)
  PROVE  ReachableFrom(g, y) \subseteq ReachableFrom(g, x)
  <1>1. /\ y \in g.nodes
        /\ \A k \in ReachableFrom(g, x) : Consumers(g, k) \subseteq ReachableFrom(g, x)
    BY ForwardFacts
  <1> QED BY <1>1, ForwardFacts

\* A path is empty or starts with an edge.
LEMMA FirstEdge ==
  ASSUME NEW g, IsGraph(g), NEW x \in g.nodes, NEW y \in ReachableFrom(g, x), y # x
  PROVE  \E d \in Consumers(g, x) : y \in ReachableFrom(g, d)
  <1> DEFINE T == {k \in g.nodes : k = x \/ \E d \in Consumers(g, x) : k \in ReachableFrom(g, d)}
  <1>1. \A k \in T : Consumers(g, k) \subseteq T
    <2> SUFFICES ASSUME NEW k \in T, NEW c \in Consumers(g, k)
                 PROVE  c \in T
      OBVIOUS
    <2>1. c \in g.nodes
      BY EdgeFacts
    <2>2. CASE k = x
      <3>1. c \in ReachableFrom(g, c)
        BY <2>1, ForwardFacts
      <3> QED BY <2>1, <2>2, <3>1
    <2>3. CASE k # x
      <3>1. PICK d \in Consumers(g, x) : k \in ReachableFrom(g, d)
        BY <2>3
      <3>2. d \in g.nodes
        BY EdgeFacts
      <3>3. c \in ReachableFrom(g, d)
        BY <3>1, <3>2, ForwardFacts
      <3> QED BY <2>1, <3>3
    <2> QED BY <2>2, <2>3
  <1>2. x \in T
    OBVIOUS
  <1>3. ReachableFrom(g, x) \subseteq T
    <2> HIDE DEF T
    <2> QED BY <1>1, <1>2, ForwardFacts
  <1> QED BY <1>3

\* The edges of a strongly connected component, if it has any, lead from each
\* of its nodes to one of its nodes.
LEMMA ComponentEdges ==
  ASSUME NEW g, IsGraph(g), NEW scc \in Sccs(g), Internal(g, scc) # {}, NEW n \in scc
  PROVE  \E d \in scc : d \in Consumers(g, n)
  <1>1. PICK n0 \in g.nodes : scc = {k \in ReachableFrom(g, n0) : n0 \in ReachableFrom(g, k)}
    BY DEF Sccs
  <1>2. PICK e \in g.edges : e.src \in scc /\ e.dst \in scc
    BY DEF Internal
  <1>3. /\ ReachableFrom(g, n0) \subseteq g.nodes
        /\ n \in ReachableFrom(g, n0) /\ n0 \in ReachableFrom(g, n)
        /\ e.src \in ReachableFrom(g, n0) /\ n0 \in ReachableFrom(g, e.src)
    BY <1>1, <1>2, ForwardFacts
  <1>4. CASE n = e.src
    BY <1>2, <1>4 DEF Consumers, OutEdges
  <1>5. CASE n # e.src
    <2>1. e.src \in ReachableFrom(g, n)
      BY <1>3, ForwardTransitive
    <2>2. PICK d \in Consumers(g, n) : e.src \in ReachableFrom(g, d)
      BY <1>3, <1>5, <2>1, FirstEdge
    <2>3. d \in g.nodes /\ d \in ReachableFrom(g, n0)
      BY <1>3, EdgeFacts, ForwardFacts
    <2>4. n0 \in ReachableFrom(g, d)
      BY <1>3, <2>2, <2>3, ForwardTransitive
    <2> QED BY <1>1, <2>2, <2>3, <2>4
  <1> QED BY <1>4, <1>5

\* Once a node of an unguarded cycle has fired, and none has failed, there is a
\* token in the cycle.
LoopOK(g, r) ==
  \A scc \in CheckUnguardedCycles(g) :
    Unhindered(g, scc) /\ r.fired \cap scc # {} /\ r.failed \cap scc = {} =>
      \E d, s \in scc : <<d, s>> \in r.marking.tokens

LEMMA UnhinderedFires ==
  ASSUME NEW g, IsGraph(g), NEW scc, Unhindered(g, scc), NEW r, RunOK(g, r),
         NEW d \in scc, NEW s, <<d, s>> \in r.marking.tokens
  PROVE  d \in Fireable(g, r.marking)
  <1>1. PICK e \in g.edges : e.dst = d /\ e.src = s
    BY DEF RunOK, Slots
  <1>2. s \in Producers(g, d) /\ d \in g.nodes
    BY <1>1, EdgeFacts DEF Producers, InEdges
  <1>3. CASE g.join[d] = "OR"
    BY <1>2, <1>3 DEF Fireable, JoinSatisfied
  <1>4. CASE Cardinality(Producers(g, d)) = 1
    <2>1. Producers(g, d) = {s}
      BY <1>2, <1>4, OneProducer
    <2>2. g.join[d] \in {"AND", "OR"}
      BY <1>2 DEF IsGraph
    <2> QED BY <1>2, <2>1, <2>2 DEF Fireable, JoinSatisfied
  <1> QED BY <1>3, <1>4 DEF Unhindered

LEMMA LoopSteps ==
  ASSUME NEW g, IsGraph(g), NEW r, RunOK(g, r), LoopOK(g, r),
         NEW r2, NEW F, NEW answers, RunStep(g, r, r2, F, answers)
  PROVE  LoopOK(g, r2)
  <1> SUFFICES ASSUME NEW scc \in CheckUnguardedCycles(g), Unhindered(g, scc),
                      NEW x \in r2.fired \cap scc, r2.failed \cap scc = {}
               PROVE  \E d, s \in scc : <<d, s>> \in r2.marking.tokens
    BY DEF LoopOK
  <1>0. r.failed \cap scc = {} /\ \A n \in F \cap scc : answers[n].ok
    BY DEF RunStep
  <1>1. PICK n \in scc : n \in F
    <2>1. CASE x \in F
      BY <2>1
    <2>2. CASE x \notin F
      <3>1. PICK d \in scc, s \in scc : <<d, s>> \in r.marking.tokens
        BY <1>0, <2>2 DEF LoopOK, RunStep
      <3>2. d \in F
        BY <3>1, UnhinderedFires DEF RunStep
      <3> QED BY <3>2
    <2> QED BY <2>1, <2>2
  <1>2. scc \in Sccs(g) /\ Internal(g, scc) # {} /\ \A e \in Internal(g, scc) : ~e.guarded
    BY DEF CheckUnguardedCycles
  <1>3. PICK d \in scc : d \in Consumers(g, n)
    BY <1>2, ComponentEdges
  <1>4. PICK e \in OutEdges(g, n) : e.dst = d /\ IsLastEdge(g.edges, e)
    BY <1>3, LastEdge
  <1>5. ~e.guarded
    BY <1>2, <1>3, <1>4 DEF Internal, OutEdges
  <1>6. <<d, n>> \in r2.marking.tokens
    BY <1>0, <1>1, <1>4, <1>5, Delivers
  <1> QED BY <1>6
-----------------------------------------------------------------------------
(* Graphs: what was parsed or put together stays a graph, and promotion turns  *)
(* joins and nothing else.                                                     *)

GraphInv ==
  /\ IsGraph(graph) /\ HasGuards(graph)
  /\ phase = "text" => text \in Texts /\ promoted = {}
  /\ \A n \in graph.nodes : DOMAIN decl.bind[n] \subseteq Int
  /\ \A n \in graph.nodes : \A p \in Keys(decl.inputs[n]) : FiresBefore(graph, p, n)
  /\ \A m \in promoted \cap graph.nodes : graph.join[m] = "OR"

LEMMA PromotedFacts ==
  ASSUME NEW g, IsGraph(g), HasGuards(g), NEW m
  PROVE  /\ IsGraph(Promoted(g, m)) /\ HasGuards(Promoted(g, m))
         /\ Promoted(g, m).nodes = g.nodes
         /\ \A p, n : FiresBefore(Promoted(g, m), p, n) <=> FiresBefore(g, p, n)
         /\ \A n \in g.nodes : Promoted(g, m).join[n] = IF n = m THEN "OR" ELSE g.join[n]
  <1> DEFINE h == Promoted(g, m)
  <1>0. g.join \in [g.nodes -> {"AND", "OR"}]
    BY DEF IsGraph
  <1>1. h = [nodes |-> g.nodes, order |-> g.order, starts |-> g.starts,
             join |-> [g.join EXCEPT ![m] = "OR"], edges |-> g.edges, guard |-> g.guard]
    BY DEF HasGuards, Promoted
  <1>2. /\ h.nodes = g.nodes /\ h.order = g.order /\ h.starts = g.starts
        /\ h.edges = g.edges /\ h.guard = g.guard
        /\ h.join = [g.join EXCEPT ![m] = "OR"]
    BY <1>1
  <1>3. h = [nodes |-> h.nodes, order |-> h.order, starts |-> h.starts,
             join |-> h.join, edges |-> h.edges, guard |-> h.guard]
    BY <1>1
  <1> HIDE DEF h
  <1>4. h.join \in [g.nodes -> {"AND", "OR"}] /\ \A n \in g.nodes : h.join[n] = IF n = m THEN "OR" ELSE g.join[n]
    BY <1>0, <1>2
  <1>5. IsGraph(h)
    BY <1>2, <1>4 DEF IsGraph
  <1>6. HasGuards(h)
    BY <1>2, <1>3 DEF HasGuards
  <1>7. \A n : Consumers(h, n) = Consumers(g, n)
    BY <1>2 DEF Consumers, OutEdges
  <1>8. \A n : ReachableFrom(h, n) = ReachableFrom(g, n)
    BY <1>2, <1>7 DEF ReachableFrom
  <1>9. \A p, n : FiresBefore(h, p, n) <=> FiresBefore(g, p, n)
    BY <1>7, <1>8 DEF FiresBefore
  <1> QED BY <1>2, <1>4, <1>5, <1>6, <1>9 DEF h

LEMMA GraphInit == BuildInit => GraphInv
  <1> SUFFICES ASSUME BuildInit PROVE GraphInv
    OBVIOUS
  <1>1. CASE /\ graph \in Graphs /\ phase = "fresh" /\ decl = Plain(graph)
    <2>1. IsGraph(graph) /\ HasGuards(graph)
      BY <1>1, GraphsAssumption, CheckerAssumption
    <2>2. \A n \in graph.nodes : decl.bind[n] = <<>> /\ decl.inputs[n] = <<>>
      BY <1>1 DEF Plain
    <2>3. DOMAIN <<>> = {} /\ Keys(<<>>) = {}
      BY EmptyElements DEF Keys
    <2>4. promoted = {}
      BY DEF BuildInit
    <2> QED BY <1>1, <2>1, <2>2, <2>3, <2>4 DEF GraphInv
  <1>2. CASE /\ text \in Texts /\ graph = GraphOf(<<>>) /\ promoted = {}
    <2>1. IsGraph(graph) /\ HasGuards(graph) /\ graph.nodes = {}
      BY <1>2, EmptyText, GraphOfText
    <2> QED BY <1>2, <2>1 DEF GraphInv
  <1> QED BY <1>1, <1>2 DEF BuildInit

LEMMA GraphNext == GraphInv /\ [BuildNext]_bvars => GraphInv'
  <1> SUFFICES ASSUME GraphInv, [BuildNext]_bvars PROVE GraphInv'
    OBVIOUS
  <1>1. CASE Parse
    <2>1. IsText(text) /\ phase' = "fresh"
      BY <1>1, BuildAssumption DEF Parse, GraphInv
    <2>2. graph' = GraphOf(text) /\ decl' = DeclOf(text) /\ Parses(text, registry) /\ promoted' = promoted
      BY <1>1 DEF Parse
    <2>3. IsGraph(graph') /\ HasGuards(graph') /\ graph'.nodes = NodesOf(text)
      BY <2>1, <2>2, GraphOfText
    <2>4. \A n \in graph'.nodes : DOMAIN decl'.bind[n] \subseteq Int
      <3> SUFFICES ASSUME NEW n \in NodesOf(text)
                   PROVE  DOMAIN decl'.bind[n] \subseteq Int
        BY <2>3
      <3>1. decl'.bind[n] = Declared(text, "bind", n, <<>>)
        BY <2>2 DEF DeclOf
      <3>2. CASE Declared(text, "bind", n, <<>>) = <<>>
        BY <3>1, <3>2
      <3>3. CASE Declared(text, "bind", n, <<>>) # <<>>
        <4>1. PICK i \in DOMAIN text : text[i].op = "bind" /\ Declared(text, "bind", n, <<>>) = text[i].value
          BY <2>1, <3>3, DeclaredFacts
        <4>2. DOMAIN text[i].value = 1 .. Len(text[i].value)
          BY <2>1, <4>1 DEF IsText, IsLine
        <4> QED BY <3>1, <4>1, <4>2
      <3> QED BY <3>2, <3>3
    <2>5. \A n \in graph'.nodes : \A p \in Keys(decl'.inputs[n]) : FiresBefore(graph', p, n)
      BY <2>2 DEF Parses
    <2>6. promoted = {}
      BY <1>1 DEF Parse, GraphInv
    <2> QED BY <2>1, <2>2, <2>3, <2>4, <2>5, <2>6 DEF GraphInv
  <1>2. ASSUME NEW s \in suggestions, Promote(s), UNCHANGED decl
        PROVE  GraphInv'
    <2>1. /\ graph' = Promoted(graph, s[1]) /\ promoted' = promoted \cup {s[1]}
          /\ phase' = phase /\ phase = "asked"
      BY <1>2 DEF Promote
    <2>2. /\ IsGraph(graph') /\ HasGuards(graph') /\ graph'.nodes = graph.nodes
          /\ \A p, n : FiresBefore(graph', p, n) <=> FiresBefore(graph, p, n)
          /\ \A n \in graph.nodes : graph'.join[n] = IF n = s[1] THEN "OR" ELSE graph.join[n]
      BY <2>1, PromotedFacts DEF GraphInv
    <2> QED BY <1>2, <2>1, <2>2 DEF GraphInv
  <1>3. CASE /\ UNCHANGED <<graph, promoted, text, decl>> /\ (phase' = "text" => phase = "text")
    BY <1>3 DEF GraphInv
  <1>4. ASSUME NEW strict \in BOOLEAN, ConstructRunner(strict)
        PROVE  GraphInv'
    BY <1>3, <1>4 DEF ConstructRunner, Construct
  <1>5. ASSUME NEW c \in Callables, Register(c)
        PROVE  GraphInv'
    BY <1>3, <1>5 DEF Register, vars
  <1>6. CASE SetRegistry
    BY <1>3, <1>6 DEF SetRegistry, vars
  <1>7. CASE (CheckGraph \/ Tick \/ RunsOver) /\ UNCHANGED <<text, decl, registry, touched>>
    BY <1>3, <1>7 DEF CheckGraph, Tick, RunsOver
  <1>8. CASE UNCHANGED bvars
    BY <1>3, <1>8 DEF bvars, vars
  <1> QED BY <1>1, <1>2, <1>4, <1>5, <1>6, <1>7, <1>8 DEF BuildNext

-----------------------------------------------------------------------------
(* All runs *)

AllOK(g, r) == RunOK(g, r) /\ CausedOK(g, r) /\ OnceOK(g, r) /\ ExclusiveOK(g, r) /\ LoopOK(g, r)

\* seen holds the first run and what follows each run but those in front, and
\* shows each firing just before it happens.
SeenInv ==
  phase \in {"running", "over"} =>
    /\ front \subseteq seen
    /\ phase = "over" => front = {}
    /\ \E r \in seen : r.fired = {} /\ r.failed = {}
    /\ \A r \in seen : AllOK(graph, r)
    /\ \A r \in seen \ front : Successors(graph, r) \subseteq seen
    /\ \A r \in seen : \A n \in r.fired : \E q \in seen : n \in Fireable(graph, q.marking)

LEMMA FirstRunOK ==
  ASSUME NEW g, IsGraph(g), NEW r,
         r = [marking |-> Bootstrap(g), fired |-> {}, failed |-> {}]
  PROVE  r.fired = {} /\ r.failed = {} /\ AllOK(g, r)
  <1>1. r.fired = {} /\ r.failed = {} /\ r.marking.tokens = {} /\ r.marking.armed = g.starts
    BY DEF Bootstrap
  <1> QED BY <1>1 DEF AllOK, RunOK, CausedOK, OnceOK, ExclusiveOK, HasDelivered, LoopOK

LEMMA AllSteps ==
  ASSUME NEW g, IsGraph(g), NEW r, AllOK(g, r), NEW r2 \in Successors(g, r)
  PROVE  AllOK(g, r2) /\ r2.fired \subseteq r.fired \cup Fireable(g, r.marking)
  <1>1. PICK F, answers : RunStep(g, r, r2, F, answers)
    BY SuccessorSteps
  <1>2. AllOK(g, r2)
    BY <1>1, RunSteps, OnceSteps, ExclusiveSteps, LoopSteps DEF AllOK
  <1> QED BY <1>1, <1>2 DEF RunStep

LEMMA SeenInit == BuildInit => SeenInv
  BY DEF BuildInit, SeenInv

LEMMA SeenNext == GraphInv /\ SeenInv /\ [BuildNext]_bvars => SeenInv'
  <1> SUFFICES ASSUME GraphInv, SeenInv, [BuildNext]_bvars PROVE SeenInv'
    OBVIOUS
  <1>0. IsGraph(graph)
    BY DEF GraphInv
  <1>1. CASE phase' \notin {"running", "over"}
    BY <1>1 DEF SeenInv
  <1>2. CASE UNCHANGED vars
    BY <1>2 DEF SeenInv, vars
  <1>3. ASSUME NEW strict \in BOOLEAN, ConstructRunner(strict)
        PROVE  SeenInv'
    <2> DEFINE r == [marking |-> Bootstrap(graph), fired |-> {}, failed |-> {}]
    <2>1. phase' = "running" /\ front' = {r} /\ seen' = {r} /\ graph' = graph
      BY <1>3 DEF ConstructRunner, Construct
    <2>2. r.fired = {} /\ r.failed = {} /\ AllOK(graph, r)
      BY <1>0, FirstRunOK
    <2> HIDE DEF r
    <2> QED BY <2>1, <2>2 DEF SeenInv
  <1>4. CASE Tick
    <2>1. /\ phase = "running" /\ phase' = "running" /\ graph' = graph
          /\ front' = (UNION {Successors(graph, r) : r \in front}) \ seen
          /\ seen' = seen \cup front'
      BY <1>4 DEF Tick
    <2>2. \A r2 \in front' : \E r \in front : r2 \in Successors(graph, r)
      BY <2>1
    <2>3. \A r \in front : r \in seen /\ AllOK(graph, r)
      BY <2>1 DEF SeenInv
    <2>4. \A r2 \in front' : AllOK(graph, r2)
      BY <1>0, <2>2, <2>3, AllSteps
    <2>5. \A r \in seen' \ front' : Successors(graph, r) \subseteq seen'
      BY <2>1 DEF SeenInv
    <2>6. \A r2 \in front' : \A n \in r2.fired : \E q \in seen' : n \in Fireable(graph, q.marking)
      <3> SUFFICES ASSUME NEW r2 \in front', NEW n \in r2.fired
                   PROVE  \E q \in seen' : n \in Fireable(graph, q.marking)
        OBVIOUS
      <3>1. PICK r \in front : r2 \in Successors(graph, r)
        BY <2>2
      <3>2. r \in seen /\ (n \in r.fired \/ n \in Fireable(graph, r.marking))
        BY <1>0, <2>3, <3>1, AllSteps
      <3> QED BY <2>1, <3>2 DEF SeenInv
    <2> QED BY <2>1, <2>4, <2>5, <2>6 DEF SeenInv
  <1>5. CASE RunsOver
    BY <1>5 DEF RunsOver, SeenInv
  <1>6. CASE CheckGraph \/ Parse \/ \E s \in suggestions : Promote(s)
    BY <1>1, <1>6 DEF CheckGraph, Parse, Promote
  <1>7. CASE SetRegistry \/ \E c \in Callables : Register(c)
    BY <1>2, <1>7 DEF SetRegistry, Register
  <1> QED BY <1>2, <1>3, <1>4, <1>5, <1>6, <1>7 DEF BuildNext, bvars
-----------------------------------------------------------------------------
(* What the runs show *)

\* Where the runs are over, a firing of a run has been in front: whatever it
\* might have answered has been tried.
LEMMA AllAnswersTried ==
  ASSUME GraphInv, SeenInv, phase = "over", NEW q \in seen,
         NEW a, \A n \in Fireable(graph, q.marking) : a[n] \in Answers(graph, n)
  PROVE  \E r \in seen : \E answers :
            /\ RunStep(graph, q, r, Fireable(graph, q.marking), answers)
            /\ \A n \in Fireable(graph, q.marking) : answers[n] = a[n]
  <1>1. Successors(graph, q) \subseteq seen
    BY DEF SeenInv
  <1> QED BY <1>1, StepsSuccessor

\* What can fire does in some run.
LEMMA FireableFires ==
  ASSUME GraphInv, SeenInv, phase = "over", NEW q \in seen, NEW m \in Fireable(graph, q.marking)
  PROVE  m \in Fired
  <1> DEFINE a == [n \in Fireable(graph, q.marking) |-> [ok |-> TRUE, holds |-> {}]]
  <1>1. \A n \in Fireable(graph, q.marking) : a[n] \in Answers(graph, n)
    BY DEF Answers
  <1> HIDE DEF a
  <1>2. PICK r \in seen : \E answers : RunStep(graph, q, r, Fireable(graph, q.marking), answers)
    BY <1>1, AllAnswersTried
  <1>3. m \in r.fired
    BY <1>2 DEF RunStep
  <1> QED BY <1>3 DEF Fired

LEMMA InvPromotionCures == GraphInv /\ SeenInv => PromotionCures
  <1> SUFFICES ASSUME GraphInv, SeenInv, phase = "over",
                      NEW m \in promoted, NEW p \in Producers(graph, m) \cap Fired
               PROVE  m \in Fired
    BY DEF PromotionCures
  <1>0. IsGraph(graph)
    BY DEF GraphInv
  <1>1. m \in graph.nodes /\ m \in Consumers(graph, p)
    BY <1>0, EdgeFacts
  <1>2. PICK e \in OutEdges(graph, p) : e.dst = m /\ IsLastEdge(graph.edges, e)
    BY <1>0, <1>1, LastEdge
  <1>3. PICK q \in seen : p \in Fireable(graph, q.marking)
    BY DEF Fired, SeenInv
  <1> DEFINE a == [n \in Fireable(graph, q.marking) |->
                     [ok |-> TRUE, holds |-> IF n = p /\ e.guarded THEN {graph.guard[e]} ELSE {}]]
  <1>4. \A n \in Fireable(graph, q.marking) : a[n] \in Answers(graph, n)
    <2>1. e.guarded => graph.guard[e] \in GuardNames(graph, p)
      BY <1>2 DEF GuardNames, GuardedEdges
    <2> QED BY <2>1 DEF Answers
  <1>5. a[p].ok /\ (e.guarded => graph.guard[e] \in a[p].holds)
    BY <1>3
  <1> HIDE DEF a
  <1>6a. PICK r \in seen : \E answers :
          /\ RunStep(graph, q, r, Fireable(graph, q.marking), answers)
          /\ \A n \in Fireable(graph, q.marking) : answers[n] = a[n]
    BY <1>4, AllAnswersTried
  <1>6. PICK answers :
          /\ RunStep(graph, q, r, Fireable(graph, q.marking), answers)
          /\ \A n \in Fireable(graph, q.marking) : answers[n] = a[n]
    BY <1>6a
  <1>7. <<m, p>> \in r.marking.tokens
    BY <1>2, <1>3, <1>5, <1>6, Delivers
  <1>8. graph.join[m] = "OR"
    BY <1>1 DEF GraphInv
  <1>9. m \in Fireable(graph, r.marking)
    BY <1>1, <1>7, <1>8 DEF Fireable, JoinSatisfied
  <1> QED BY <1>9, FireableFires

LEMMA InvWarnedCyclesLoop == GraphInv /\ SeenInv => WarnedCyclesLoop
  <1> SUFFICES ASSUME GraphInv, SeenInv, phase \in {"running", "over"},
                      NEW scc \in CheckUnguardedCycles(graph), Unhindered(graph, scc),
                      NEW r \in seen, r.fired \cap scc # {}, r.failed \cap scc = {}
               PROVE  Fireable(graph, r.marking) # {}
    BY DEF WarnedCyclesLoop
  <1>1. IsGraph(graph) /\ AllOK(graph, r)
    BY DEF GraphInv, SeenInv
  <1>2. PICK d \in scc, s \in scc : <<d, s>> \in r.marking.tokens
    BY <1>1 DEF AllOK, LoopOK
  <1> QED BY <1>1, <1>2, UnhinderedFires DEF AllOK

LEMMA InvInputsHaveFired == GraphInv /\ SeenInv => InputsHaveFired
  <1> SUFFICES ASSUME GraphInv, SeenInv, phase = "running",
                      NEW r \in front, NEW m \in Fireable(graph, r.marking),
                      TreeAbove(graph, m), graph.join[m] = "AND",
                      NEW p \in Keys(decl.inputs[m])
               PROVE  p \in r.fired
    BY DEF InputsHaveFired
  <1>1. IsGraph(graph) /\ RunOK(graph, r) /\ CausedOK(graph, r)
    BY DEF GraphInv, SeenInv, AllOK
  <1>2. Producers(graph, m) \subseteq r.fired
    BY <1>1 DEF TreeAbove, Fireable, JoinSatisfied, RunOK
  <1>3. \A x \in Upstream(graph, m) \cap r.fired : Producers(graph, x) \subseteq Upstream(graph, m) \cap r.fired
    BY <1>1, FiredFromTheRoots, UpstreamFacts
  <1>4. Upstream(graph, m) \subseteq r.fired
    <2>1. Producers(graph, m) \subseteq Upstream(graph, m) \cap r.fired
      BY <1>1, <1>2, UpstreamFacts
    <2>2. \A T : Producers(graph, m) \subseteq T /\ (\A k \in T \cap graph.nodes : Producers(graph, k) \subseteq T)
                  => Upstream(graph, m) \subseteq T
      BY <1>1, UpstreamFacts
    <2> DEFINE T == Upstream(graph, m) \cap r.fired
    <2>3. Producers(graph, m) \subseteq T /\ \A k \in T : Producers(graph, k) \subseteq T
      BY <1>3, <2>1
    <2>4. Upstream(graph, m) \subseteq T
      <3> HIDE DEF T
      <3> QED BY <2>2, <2>3
    <2> QED BY <2>4
  <1>5. m \in graph.nodes
    BY DEF Fireable
  <1>6. FiresBefore(graph, p, m)
    BY <1>5 DEF GraphInv
  <1>7. p \in Upstream(graph, m)
    BY <1>1, <1>6, ReadUpstream
  <1> QED BY <1>4, <1>7

LEMMA InvNamesAgree == GraphInv => NamesAgree
  <1> SUFFICES ASSUME GraphInv, NEW n \in graph.nodes, NEW y \in ViewNames(decl, n)
               PROVE  \/ y \in BodyNames(decl, n)
                      \/ \E i, j \in DOMAIN BindEntries(decl, n) :
                           /\ i < j
                           /\ BindEntries(decl, n)[i][1] = y[1]
                           /\ BindEntries(decl, n)[j][2] = y[1]
    BY DEF NamesAgree
  <1> DEFINE entries == BindEntries(decl, n)
             Names(i) == {entries[i][1], entries[i][2]} \ {""}
             Kept(i)  == {name \in Names(i) \ {n} : \A j \in DOMAIN entries : j > i => name \notin Names(j)}
             View(i)  == {<<name, Policy(decl, n, entries[i][2])>> : name \in Kept(i)}
  <1>0. ViewNames(decl, n) = UNION {View(i) : i \in DOMAIN entries}
    BY DEF ViewNames
  <1> HIDE DEF entries
  <1>8. PICK i \in DOMAIN entries : y \in View(i)
    <2> HIDE DEF View
    <2> QED BY <1>0
  <1>1. PICK name \in Kept(i) : y = <<name, Policy(decl, n, entries[i][2])>>
    <2> HIDE DEF Kept
    <2> QED BY <1>8
  <1>2. y[1] = name /\ name # "" /\ (name = entries[i][1] \/ name = entries[i][2])
    BY <1>1
  <1>3. \A k \in DOMAIN entries : k > i => entries[k][1] # name /\ entries[k][2] # name
    <2>1. \A k \in DOMAIN entries : k > i => name \notin Names(k)
      BY <1>1
    <2> QED BY <1>2, <2>1
  <1>4. (\E k \in DOMAIN entries : entries[k][1] = name) => DOMAIN entries \subseteq Int
    <2>1. CASE decl.bind[n] # <<>>
      BY <2>1 DEF BindEntries, GraphInv, entries
    <2>2. CASE decl.bind[n] = <<>>
      <3>1. \A k \in DOMAIN entries : entries[k][1] = ""
        BY <2>2 DEF BindEntries, entries
      <3> QED BY <1>2, <3>1
    <2> QED BY <2>1, <2>2
  <1> HIDE DEF Names, Kept, View
  <1>5. CASE entries[i][1] = name
    <2>1. \A k \in DOMAIN entries : entries[k][1] = entries[i][1] => k <= i
      BY <1>3, <1>4, <1>5
    <2>2. y \in FieldNames(decl, n)
      BY <1>1, <1>2, <1>5, <2>1 DEF FieldNames, entries
    <2> QED BY <2>2 DEF BodyNames
  <1>6. CASE entries[i][2] = name /\ \E k \in DOMAIN entries : entries[k][1] = name
    <2>1. PICK k \in DOMAIN entries : entries[k][1] = name
      BY <1>6
    <2>2. CASE k = i
      BY <1>5, <2>1, <2>2
    <2>3. CASE k < i
      BY <1>2, <1>6, <2>1, <2>3 DEF entries
    <2> QED BY <1>3, <1>4, <2>1, <2>2, <2>3
  <1>7. CASE entries[i][2] = name /\ \A k \in DOMAIN entries : entries[k][1] # name
    <2>1. ToSet(entries) = {entries[k] : k \in DOMAIN entries}
      BY DEF ToSet
    <2>2. name \notin Fields(entries)
      BY <1>7, <2>1 DEF Fields
    <2>3. name \in {x[2] : x \in ToSet(entries)}
      BY <1>7, <2>1
    <2>4. y \in OwnNames(decl, n)
      BY <1>1, <1>7, <2>3 DEF OwnNames, entries
    <2> QED BY <1>2, <2>2, <2>4 DEF BodyNames, entries
  <1> QED BY <1>2, <1>5, <1>6, <1>7 DEF entries
-----------------------------------------------------------------------------
(* Branches *)

LEMMA UntilMergeFacts ==
  ASSUME NEW g, IsGraph(g), NEW n \in g.nodes
  PROVE  /\ n \in ReachableUntilMerge(g, n) /\ ReachableUntilMerge(g, n) \subseteq ReachableFrom(g, n)
         /\ \A k \in ReachableUntilMerge(g, n) : k = n \/ Cardinality(Producers(g, k)) < 2
              => Consumers(g, k) \subseteq ReachableUntilMerge(g, n)
         /\ \A T : n \in T /\ (\A k \in T \cap g.nodes : k = n \/ Cardinality(Producers(g, k)) < 2
                                                       => Consumers(g, k) \subseteq T)
                     => ReachableUntilMerge(g, n) \subseteq T
  <1> DEFINE next == [k \in g.nodes |-> IF k = n \/ Cardinality(Producers(g, k)) < 2
                                          THEN Consumers(g, k) ELSE {}]
  <1>1. next \in [g.nodes -> SUBSET g.nodes] /\ {n} \in SUBSET g.nodes /\ IsFiniteSet(g.nodes)
    BY EdgeFacts DEF IsGraph
  <1>2. \A k \in g.nodes : next[k] = IF k = n \/ Cardinality(Producers(g, k)) < 2
                                       THEN Consumers(g, k) ELSE {}
    OBVIOUS
  <1>3. ReachableUntilMerge(g, n) = Reached(next, {n})
    BY DEF ReachableUntilMerge
  <1> HIDE DEF next
  <1>4. /\ {n} \subseteq Reached(next, {n}) /\ Reached(next, {n}) \subseteq g.nodes
        /\ \A k \in Reached(next, {n}) : next[k] \subseteq Reached(next, {n})
        /\ \A T : {n} \subseteq T /\ (\A k \in T \cap g.nodes : next[k] \subseteq T)
                     => Reached(next, {n}) \subseteq T
    BY <1>1, ReachedFacts
  <1>5. \A k \in ReachableUntilMerge(g, n) : k = n \/ Cardinality(Producers(g, k)) < 2
              => Consumers(g, k) \subseteq ReachableUntilMerge(g, n)
    BY <1>2, <1>3, <1>4
  <1>6. ASSUME NEW T, n \in T, \A k \in T \cap g.nodes : k = n \/ Cardinality(Producers(g, k)) < 2
                                                       => Consumers(g, k) \subseteq T
        PROVE  ReachableUntilMerge(g, n) \subseteq T
    <2>1. \A k \in T \cap g.nodes : next[k] \subseteq T
      BY <1>2, <1>6
    <2> QED BY <1>3, <1>4, <1>6, <2>1
  <1>7. ReachableUntilMerge(g, n) \subseteq ReachableFrom(g, n)
    BY <1>6, ForwardFacts
  <1> QED BY <1>3, <1>4, <1>5, <1>6, <1>7

\* A branch is named by a guarded edge and holds what follows this edge.
LEMMA BranchFacts ==
  ASSUME NEW g, IsGraph(g), NEW b, NEW name \in GuardNames(g, b)
  PROVE  \E e \in GuardedEdges(g, b) :
           g.guard[e] = name /\ BranchesOf(g, b)[name] = ReachableUntilMerge(g, e.dst) \ {b}
  <1> DEFINE E == {e \in GuardedEdges(g, b) : g.guard[e] = name}
             P == {e.pos : e \in E}
             First(e) == /\ g.guard[e] = name
                         /\ \A f \in GuardedEdges(g, b) : g.guard[f] = name => e.pos <= f.pos
             first == CHOOSE e \in GuardedEdges(g, b) : First(e)
  <1>1. E # {} /\ \A e \in E : e.pos \in Nat
    <2>1. \A e \in g.edges : e.pos \in Nat
      BY DEF IsGraph
    <2> QED BY <2>1 DEF GuardNames, GuardedEdges, OutEdges
  <1>2. P \in SUBSET Nat /\ P # {}
    BY <1>1
  <1>3. PICK x \in P : \A y \in P : x <= y
    <2> HIDE DEF P
    <2> QED BY <1>2, NatMin
  <1>4. \E e \in GuardedEdges(g, b) : First(e)
    BY <1>3
  <1>5. first \in GuardedEdges(g, b) /\ First(first)
    <2> HIDE DEF First
    <2> QED BY <1>4
  <1>6. BranchesOf(g, b)[name] = ReachableUntilMerge(g, first.dst) \ {b}
    BY DEF BranchesOf
  <1> HIDE DEF first
  <1> QED BY <1>5, <1>6

\* The parts of OnDistinctBranches.
LEMMA DistinctBranches ==
  ASSUME NEW g, NEW m, NEW b
  PROVE  OnDistinctBranches(g, m, b) <=>
           \E p, q \in Producers(g, m) :
             /\ \E name \in GuardNames(g, b) : p \in BranchesOf(g, b)[name]
             /\ \E name \in GuardNames(g, b) : q \in BranchesOf(g, b)[name]
             /\ \A name \in GuardNames(g, b) :
                  ~(p \in BranchesOf(g, b)[name] /\ q \in BranchesOf(g, b)[name])
  <1>1. DOMAIN BranchesOf(g, b) = GuardNames(g, b)
    BY DEF BranchesOf
  <1> QED BY <1>1 DEF OnDistinctBranches

\* What of a branch is above m has not fired before the first node.
LEMMA BranchFires ==
  ASSUME NEW g, IsGraph(g), NEW m, TreeAbove(g, m), NEW d \in g.nodes,
         NEW x \in ReachableUntilMerge(g, d), x \in Upstream(g, m)
  PROVE  /\ d \in Upstream(g, m)
         /\ \A r : RunOK(g, r) /\ CausedOK(g, r) /\ x \in r.fired => d \in r.fired
  <1>1. d \in Upstream(g, m)
    BY UntilMergeFacts, LeadsTo
  <1>2. ASSUME NEW r, RunOK(g, r), CausedOK(g, r), x \in r.fired
        PROVE  d \in r.fired
    <2> DEFINE T == {k \in g.nodes : k \in Upstream(g, m) /\ k \in r.fired => d \in r.fired}
    <2>1. ASSUME NEW k \in T, NEW y \in Consumers(g, k)
          PROVE  y \in T
      <3>1. y \in g.nodes /\ k \in Producers(g, y)
        BY EdgeFacts
      <3>2. y \in Upstream(g, m) => k \in Upstream(g, m)
        BY <3>1, UpstreamFacts
      <3>3. y \in Upstream(g, m) /\ y \in r.fired => k \in r.fired
        BY <1>2, <3>1, FiredFromTheRoots
      <3> QED BY <3>1, <3>2, <3>3
    <2>2. d \in T
      OBVIOUS
    <2>3. ReachableUntilMerge(g, d) \subseteq T
      <3> HIDE DEF T
      <3> QED BY <2>1, <2>2, UntilMergeFacts
    <2> QED BY <1>2, <2>3
  <1> QED BY <1>1, <1>2

LEMMA InvNoFalseAlarm == GraphInv /\ SeenInv => NoFalseAlarm
  <1> SUFFICES ASSUME GraphInv, SeenInv, phase = "over", NEW m \in Flagged,
                      TreeAbove(graph, m), SingleEdges(graph, m),
                      NEW r \in seen, m \in r.fired
               PROVE  FALSE
    BY DEF NoFalseAlarm, Fired
  <1>1. IsGraph(graph) /\ AllOK(graph, r)
    BY DEF GraphInv, SeenInv
  <1>2. PICK b \in graph.nodes : /\ m \in graph.nodes /\ graph.join[m] = "AND"
                                 /\ OnDistinctBranches(graph, m, b)
    BY DEF Flagged, Check
  <1>3. PICK p \in Producers(graph, m), q \in Producers(graph, m) :
          /\ \E name \in GuardNames(graph, b) : p \in BranchesOf(graph, b)[name]
          /\ \E name \in GuardNames(graph, b) : q \in BranchesOf(graph, b)[name]
          /\ \A name \in GuardNames(graph, b) :
               ~(p \in BranchesOf(graph, b)[name] /\ q \in BranchesOf(graph, b)[name])
    BY <1>2, DistinctBranches
  <1>4. PICK m1 \in GuardNames(graph, b), m2 \in GuardNames(graph, b) :
          p \in BranchesOf(graph, b)[m1] /\ q \in BranchesOf(graph, b)[m2] /\ m1 # m2
    BY <1>3
  <1>5. PICK e \in GuardedEdges(graph, b) :
          graph.guard[e] = m1 /\ BranchesOf(graph, b)[m1] = ReachableUntilMerge(graph, e.dst) \ {b}
    BY <1>1, BranchFacts
  <1>6. PICK f \in GuardedEdges(graph, b) :
          graph.guard[f] = m2 /\ BranchesOf(graph, b)[m2] = ReachableUntilMerge(graph, f.dst) \ {b}
    BY <1>1, BranchFacts
  <1>7. /\ e \in graph.edges /\ e.src = b /\ e.guarded /\ e.dst \in graph.nodes
        /\ f \in graph.edges /\ f.src = b /\ f.guarded /\ f.dst \in graph.nodes
    <2>1. \A x \in graph.edges : x.dst \in graph.nodes
      BY <1>1 DEF IsGraph
    <2> QED BY <2>1 DEF GuardedEdges, OutEdges
  <1>8. p \in r.fired /\ q \in r.fired /\ p \in Upstream(graph, m) /\ q \in Upstream(graph, m)
    BY <1>1, <1>2, UpstreamFacts DEF AllOK, CausedOK, TreeAbove
  <1>9. e.dst \in Upstream(graph, m) /\ e.dst \in r.fired
    BY <1>1, <1>4, <1>5, <1>7, <1>8, BranchFires DEF AllOK
  <1>10. f.dst \in Upstream(graph, m) /\ f.dst \in r.fired
    BY <1>1, <1>4, <1>6, <1>7, <1>8, BranchFires DEF AllOK
  <1> QED BY <1>1, <1>2, <1>4, <1>5, <1>6, <1>7, <1>9, <1>10 DEF AllOK, ExclusiveOK, HasDelivered
\* In a tree a branch goes on past its second node, as that has one producer.
LEMMA BranchGoesOn ==
  ASSUME NEW g, IsGraph(g), NEW m, TreeAbove(g, m), NEW k \in Upstream(g, m), NEW j \in Producers(g, k)
  PROVE  ReachableUntilMerge(g, k) \subseteq ReachableUntilMerge(g, j)
  <1> DEFINE T == ReachableUntilMerge(g, j)
  <1>1. j \in g.nodes /\ k \in g.nodes /\ k \in Consumers(g, j)
    BY EdgeFacts, UpstreamFacts
  <1>2. IsFiniteSet(Producers(g, k)) /\ Cardinality(Producers(g, k)) \in Nat
    BY EdgeFacts, FS_Subset, FS_CardinalityType DEF IsGraph
  <1>3. Cardinality(Producers(g, k)) < 2
    BY <1>2 DEF TreeAbove
  <1>4. k \in T
    BY <1>1, UntilMergeFacts
  <1>5. \A x \in T \cap g.nodes : x = k \/ Cardinality(Producers(g, x)) < 2 => Consumers(g, x) \subseteq T
    BY <1>1, <1>3, UntilMergeFacts
  <1> HIDE DEF T
  <1>6. ReachableUntilMerge(g, k) \subseteq T
    BY <1>1, <1>4, <1>5, UntilMergeFacts
  <1> QED BY <1>6 DEF T

\* What is above m is in a branch to a producer of m.
LEMMA BranchesArrive ==
  ASSUME NEW g, IsGraph(g), NEW m, TreeAbove(g, m)
  PROVE  \A x \in Upstream(g, m) : \E p \in Producers(g, m) : p \in ReachableUntilMerge(g, x)
  <1> DEFINE T == {k \in Upstream(g, m) : \E p \in Producers(g, m) : p \in ReachableUntilMerge(g, k)}
  <1>1. \A p \in Producers(g, m) : p \in Upstream(g, m) /\ p \in g.nodes /\ p \in ReachableUntilMerge(g, p)
    BY UpstreamFacts, UntilMergeFacts
  <1>2. Producers(g, m) \subseteq T
    BY <1>1
  <1>3. \A k \in T : Producers(g, k) \subseteq T
    <2> SUFFICES ASSUME NEW k \in T, NEW j \in Producers(g, k)
                 PROVE  j \in T
      OBVIOUS
    <2>1. j \in Upstream(g, m)
      BY UpstreamFacts
    <2>2. ReachableUntilMerge(g, k) \subseteq ReachableUntilMerge(g, j)
      BY BranchGoesOn
    <2> QED BY <2>1, <2>2
  <1>4. Upstream(g, m) \subseteq T
    <2> HIDE DEF T
    <2> QED BY <1>2, <1>3, UpstreamFacts
  <1> QED BY <1>4

LEMMA UpstreamOfConsumer ==
  ASSUME NEW g, IsGraph(g), NEW y, NEW p \in Producers(g, y)
  PROVE  /\ p \in Upstream(g, y) /\ Upstream(g, p) \subseteq Upstream(g, y)
         /\ Producers(g, y) = {p} => Upstream(g, y) \subseteq Upstream(g, p) \cup {p}
  <1>1. p \in Upstream(g, y)
    BY UpstreamFacts
  <1>2. Upstream(g, p) \subseteq Upstream(g, y)
    BY <1>1, UpstreamFacts
  <1>3. ASSUME Producers(g, y) = {p} PROVE Upstream(g, y) \subseteq Upstream(g, p) \cup {p}
    <2> DEFINE T == Upstream(g, p) \cup {p}
    <2>1. \A k \in T : Producers(g, k) \subseteq T
      BY UpstreamFacts
    <2>2. Producers(g, y) \subseteq T
      BY <1>3
    <2>3. Upstream(g, y) \subseteq T
      <3> HIDE DEF T
      <3> QED BY <2>1, <2>2, UpstreamFacts
    <2> QED BY <2>3
  <1> QED BY <1>1, <1>2, <1>3

\* What follows one consumer of b, above m, is below b and in no branch of
\* another consumer.
LEMMA BranchesDisjoint ==
  ASSUME NEW g, IsGraph(g), NEW m, TreeAbove(g, m), NEW b,
         NEW x \in Upstream(g, m), b \in Producers(g, x),
         NEW p \in ReachableUntilMerge(g, x), p \in Upstream(g, m)
  PROVE  /\ b \in Upstream(g, p)
         /\ \A z \in Upstream(g, m) :
              b \in Producers(g, z) /\ p \in ReachableUntilMerge(g, z) => z = x
  <1> DEFINE Below(z) == {k \in g.nodes : k \in Upstream(g, m) => k = z \/ z \in Upstream(g, k)}
  <1>1. ASSUME NEW z \in Upstream(g, m)
        PROVE  ReachableUntilMerge(g, z) \subseteq Below(z)
    <2>1. z \in Below(z)
      BY UpstreamFacts
    <2>2. ASSUME NEW k \in Below(z), NEW y \in Consumers(g, k)
          PROVE  y \in Below(z)
      <3>1. y \in g.nodes /\ k \in Producers(g, y)
        BY EdgeFacts
      <3>2. y \in Upstream(g, m) => k \in Upstream(g, m)
        BY <3>1, UpstreamFacts
      <3>3. k \in Upstream(g, y) /\ Upstream(g, k) \subseteq Upstream(g, y)
        BY <3>1, UpstreamOfConsumer
      <3> QED BY <3>1, <3>2, <3>3
    <2>3. z \in g.nodes
      BY UpstreamFacts
    <2> HIDE DEF Below
    <2> QED BY <2>1, <2>2, <2>3, UntilMergeFacts
  <1>2. \A z : b \in Producers(g, z) => b \in Upstream(g, z)
    BY UpstreamFacts
  <1>3. \A k, z : z \in Upstream(g, k) => Upstream(g, z) \subseteq Upstream(g, k)
    BY UpstreamFacts
  <1>4. b \in Upstream(g, p)
    <2>1. p = x \/ x \in Upstream(g, p)
      BY <1>1
    <2> QED BY <1>2, <1>3, <2>1
  <1>5. b \in Upstream(g, m) /\ b \notin Upstream(g, b)
    BY UpstreamFacts DEF TreeAbove
  <1>6. ASSUME NEW z \in Upstream(g, m), b \in Producers(g, z), p \in ReachableUntilMerge(g, z), z # x
        PROVE  FALSE
    <2> DEFINE T == {k \in g.nodes : k \in Upstream(g, m) =>
                                       k # z /\ z \notin Upstream(g, k) /\ b \in Upstream(g, k)}
    <2>1. Producers(g, z) = {b} /\ Producers(g, x) = {b} /\ x \in g.nodes
      BY <1>6, TreeNode
    <2>2. x \in T
      <3>1. Upstream(g, x) \subseteq Upstream(g, b) \cup {b}
        BY <2>1, UpstreamOfConsumer
      <3>2. z # b /\ z \notin Upstream(g, b)
        BY <1>5, <1>6, <1>2, <1>3
      <3> QED BY <1>2, <1>6, <2>1, <3>1, <3>2
    <2>3. ASSUME NEW k \in T, NEW y \in Consumers(g, k)
          PROVE  y \in T
      <3>1. y \in g.nodes /\ k \in Producers(g, y)
        BY EdgeFacts
      <3> SUFFICES ASSUME y \in Upstream(g, m)
                   PROVE  y # z /\ z \notin Upstream(g, y) /\ b \in Upstream(g, y)
        BY <3>1
      <3>2. k \in Upstream(g, m) /\ Producers(g, y) = {k}
        BY <3>1, TreeNode
      <3>3. k # z /\ z \notin Upstream(g, k) /\ b \in Upstream(g, k)
        BY <3>2
      <3>4. Upstream(g, k) \subseteq Upstream(g, y) /\ Upstream(g, y) \subseteq Upstream(g, k) \cup {k}
        BY <3>1, <3>2, UpstreamOfConsumer
      <3>5. y = z => k = b
        BY <2>1, <3>2
      <3> QED BY <1>5, <3>3, <3>4, <3>5
    <2>4. ReachableUntilMerge(g, x) \subseteq T
      <3> HIDE DEF T
      <3> QED BY <2>1, <2>2, <2>3, UntilMergeFacts
    <2>5. p \in Below(z)
      BY <1>1, <1>6
    <2> QED BY <2>4, <2>5
  <1> QED BY <1>4, <1>6

\* Two guarded edges of a splitter to different nodes above m start branches
\* that check() tells apart.
LEMMA BranchesDistinct ==
  ASSUME NEW g, IsGraph(g), NEW m, TreeAbove(g, m), PlainSplits(g, m),
         NEW b \in Upstream(g, m), IsXorSplitter(g, b),
         NEW e \in GuardedEdges(g, b), NEW f \in GuardedEdges(g, b),
         e.dst \in Upstream(g, m), f.dst \in Upstream(g, m), e.dst # f.dst
  PROVE  OnDistinctBranches(g, m, b)
  <1>1. \A h \in GuardedEdges(g, b) : b \in Producers(g, h.dst) /\ h.dst \in g.nodes
    <2>1. \A h \in g.edges : h.src \in Producers(g, h.dst)
      BY DEF Producers, InEdges
    <2> QED BY <2>1, EdgeFacts DEF GuardedEdges, OutEdges
  <1>2. \A h, k \in GuardedEdges(g, b) : g.guard[h] = g.guard[k] => h = k
    <2> DEFINE names == [h \in GuardedEdges(g, b) |-> g.guard[h]]
    <2>1. IsFiniteSet(GuardedEdges(g, b))
      <3>1. GuardedEdges(g, b) \subseteq g.edges
        BY DEF GuardedEdges, OutEdges
      <3> QED BY <3>1, FS_Subset DEF IsGraph
    <2>2. names \in Surjection(GuardedEdges(g, b), GuardNames(g, b))
      BY DEF Surjection, GuardNames
    <2>3. Cardinality(GuardNames(g, b)) = Cardinality(GuardedEdges(g, b))
      BY DEF PlainSplits
    <2>6. \A h \in GuardedEdges(g, b) : names[h] = g.guard[h]
      OBVIOUS
    <2> HIDE DEF names
    <2>4. names \in Injection(GuardedEdges(g, b), GuardNames(g, b))
      BY <2>1, <2>2, <2>3, FS_Surjection
    <2>5. \A h, k \in GuardedEdges(g, b) : names[h] = names[k] => h = k
      BY <2>4 DEF Injection, IsInjective
    <2> QED BY <2>5, <2>6
  <1>3. ASSUME NEW h \in GuardedEdges(g, b), h.dst \in Upstream(g, m)
        PROVE  \E p \in Producers(g, m) :
                 /\ p \in BranchesOf(g, b)[g.guard[h]]
                 /\ \A name \in GuardNames(g, b) : p \in BranchesOf(g, b)[name] =>
                      \E k \in GuardedEdges(g, b) : k.dst = h.dst /\ g.guard[k] = name
    <2>1. PICK p \in Producers(g, m) : p \in ReachableUntilMerge(g, h.dst)
      BY <1>3, BranchesArrive
    <2>2. p \in Upstream(g, m) /\ b \in Upstream(g, p)
      BY <1>1, <1>3, <2>1, UpstreamFacts, BranchesDisjoint
    <2>3. p # b
      BY <2>2 DEF TreeAbove
    <2>4. g.guard[h] \in GuardNames(g, b)
      BY DEF GuardNames
    <2>5. p \in BranchesOf(g, b)[g.guard[h]]
      <3>1. PICK k \in GuardedEdges(g, b) :
              /\ g.guard[k] = g.guard[h]
              /\ BranchesOf(g, b)[g.guard[h]] = ReachableUntilMerge(g, k.dst) \ {b}
        BY <2>4, BranchFacts
      <3>2. k = h
        BY <1>2, <3>1
      <3> QED BY <2>1, <2>3, <3>1, <3>2
    <2>6. ASSUME NEW name \in GuardNames(g, b), p \in BranchesOf(g, b)[name]
          PROVE  \E k \in GuardedEdges(g, b) : k.dst = h.dst /\ g.guard[k] = name
      <3>1. PICK k \in GuardedEdges(g, b) :
              g.guard[k] = name /\ BranchesOf(g, b)[name] = ReachableUntilMerge(g, k.dst) \ {b}
        BY BranchFacts
      <3>2. p \in ReachableUntilMerge(g, k.dst)
        BY <2>6, <3>1
      <3>3. k.dst \in Upstream(g, m)
        BY <1>1, <2>2, <3>2, BranchFires
      <3>4. k.dst = h.dst
        BY <1>1, <1>3, <2>1, <2>2, <3>2, <3>3, BranchesDisjoint
      <3> QED BY <3>1, <3>4
    <2> QED BY <2>5, <2>6
  <1>4. PICK p \in Producers(g, m) :
          /\ p \in BranchesOf(g, b)[g.guard[e]]
          /\ \A name \in GuardNames(g, b) : p \in BranchesOf(g, b)[name] =>
               \E k \in GuardedEdges(g, b) : k.dst = e.dst /\ g.guard[k] = name
    BY <1>3
  <1>5. PICK q \in Producers(g, m) :
          /\ q \in BranchesOf(g, b)[g.guard[f]]
          /\ \A name \in GuardNames(g, b) : q \in BranchesOf(g, b)[name] =>
               \E k \in GuardedEdges(g, b) : k.dst = f.dst /\ g.guard[k] = name
    BY <1>3
  <1>6. ASSUME NEW name \in GuardNames(g, b), p \in BranchesOf(g, b)[name], q \in BranchesOf(g, b)[name]
        PROVE  FALSE
    <2>1. PICK k \in GuardedEdges(g, b) : k.dst = e.dst /\ g.guard[k] = name
      BY <1>4, <1>6
    <2>2. PICK l \in GuardedEdges(g, b) : l.dst = f.dst /\ g.guard[l] = name
      BY <1>5, <1>6
    <2>3. k = l
      BY <1>2, <2>1, <2>2
    <2> QED BY <2>1, <2>2, <2>3
  <1>7. g.guard[e] \in GuardNames(g, b) /\ g.guard[f] \in GuardNames(g, b)
    BY DEF GuardNames
  <1> QED BY <1>4, <1>5, <1>6, <1>7, DistinctBranches
-----------------------------------------------------------------------------
(* A run to a join that is not flagged: each node above it answers the guard   *)
(* of the edge that leads to it.                                               *)

Needed(g, m, n) ==
  {e \in GuardedEdges(g, n) : e.dst \in Upstream(g, m) \cup {m} /\ IsLastEdge(g.edges, e)}

\* There is one such edge at most, or check() would tell branches apart.
LEMMA OneNeeded ==
  ASSUME NEW g, IsGraph(g), NEW m, TreeAbove(g, m), PlainSplits(g, m),
         NEW b \in Upstream(g, m), ~(IsXorSplitter(g, b) /\ OnDistinctBranches(g, m, b)),
         NEW e \in Needed(g, m, b), NEW f \in Needed(g, m, b)
  PROVE  e = f
  <1>1. /\ e \in GuardedEdges(g, b) /\ f \in GuardedEdges(g, b)
        /\ e.dst \in Upstream(g, m) \cup {m} /\ f.dst \in Upstream(g, m) \cup {m}
        /\ IsLastEdge(g.edges, e) /\ IsLastEdge(g.edges, f)
    BY DEF Needed
  <1>2. /\ e \in g.edges /\ f \in g.edges /\ e.src = b /\ f.src = b /\ e.pos \in Nat /\ f.pos \in Nat
    <2>1. \A h \in g.edges : h.pos \in Nat
      BY DEF IsGraph
    <2> QED BY <1>1, <2>1 DEF GuardedEdges, OutEdges
  <1>3. CASE IsXorSplitter(g, b)
    <2>1. e.dst \in Upstream(g, m) /\ f.dst \in Upstream(g, m)
      BY <1>1, <1>3 DEF PlainSplits
    <2>2. e.dst = f.dst
      BY <1>1, <1>3, <2>1, BranchesDistinct
    <2>3. e.pos <= f.pos /\ f.pos <= e.pos
      BY <1>1, <1>2, <2>2 DEF IsLastEdge
    <2>4. e.pos = f.pos
      BY <1>2, <2>3
    <2> QED BY <1>2, <2>4 DEF IsGraph
  <1>4. CASE ~IsXorSplitter(g, b)
    <2>1. IsFiniteSet(GuardedEdges(g, b)) /\ Cardinality(GuardedEdges(g, b)) \in Nat
      <3>1. GuardedEdges(g, b) \subseteq g.edges
        BY DEF GuardedEdges, OutEdges
      <3> QED BY <3>1, FS_Subset, FS_CardinalityType DEF IsGraph
    <2>2. Cardinality(GuardedEdges(g, b)) <= 1
      BY <1>4, <2>1 DEF IsXorSplitter
    <2>3. Cardinality({e}) = 1 /\ {e} \subseteq GuardedEdges(g, b)
      BY <1>1, FS_Singleton
    <2>4. Cardinality({e}) <= Cardinality(GuardedEdges(g, b))
      BY <2>1, <2>3, FS_Subset
    <2>5. Cardinality({e}) = Cardinality(GuardedEdges(g, b))
      BY <2>1, <2>2, <2>3, <2>4
    <2>6. {e} = GuardedEdges(g, b)
      BY <2>1, <2>3, <2>5, FS_Subset
    <2> QED BY <1>1, <2>6
  <1> QED BY <1>3, <1>4

Unflagged(g, m) ==
  \A b \in Upstream(g, m) : ~(IsXorSplitter(g, b) /\ OnDistinctBranches(g, m, b))

\* What has fired above m has fed its consumers above m, and m.
FeedsOK(g, m, r) ==
  \A x \in Upstream(g, m) \cap r.fired : \A y \in Upstream(g, m) \cup {m} :
    x \in Producers(g, y) => y \in r.fired \/ <<y, x>> \in r.marking.tokens

NeededAnswer(g, m, n) ==
  [ok |-> TRUE,
   holds |-> IF n \in Upstream(g, m) THEN {g.guard[e] : e \in Needed(g, m, n)} ELSE {}]

LEMMA NeededAnswers ==
  ASSUME NEW g, IsGraph(g), NEW m, TreeAbove(g, m), PlainSplits(g, m), Unflagged(g, m), NEW n
  PROVE  NeededAnswer(g, m, n) \in Answers(g, n)
  <1>1. CASE n \notin Upstream(g, m) \/ Needed(g, m, n) = {}
    BY <1>1 DEF NeededAnswer, Answers
  <1>2. CASE n \in Upstream(g, m) /\ Needed(g, m, n) # {}
    <2>1. PICK e : e \in Needed(g, m, n)
      BY <1>2
    <2>2. \A f \in Needed(g, m, n) : f = e
      BY <1>2, <2>1, OneNeeded DEF Unflagged
    <2>3. NeededAnswer(g, m, n) = [ok |-> TRUE, holds |-> {g.guard[e]}]
      BY <1>2, <2>1, <2>2 DEF NeededAnswer
    <2>4. g.guard[e] \in GuardNames(g, n)
      BY <2>1 DEF Needed, GuardNames
    <2> QED BY <2>3, <2>4 DEF Answers
  <1> QED BY <1>1, <1>2

LEMMA FeedSteps ==
  ASSUME NEW g, IsGraph(g), NEW m \in g.nodes, TreeAbove(g, m),
         NEW r, AllOK(g, r), FeedsOK(g, m, r),
         NEW r2, NEW F, NEW answers, RunStep(g, r, r2, F, answers),
         \A n \in F : answers[n] = NeededAnswer(g, m, n)
  PROVE  FeedsOK(g, m, r2)
  <1> SUFFICES ASSUME NEW x \in Upstream(g, m), x \in r2.fired,
                      NEW y \in Upstream(g, m) \cup {m}, x \in Producers(g, y), y \notin r2.fired
               PROVE  <<y, x>> \in r2.marking.tokens
    BY DEF FeedsOK
  <1>1. y \notin F /\ y \notin r.fired
    BY DEF RunStep
  <1>2. CASE x \in F
    <2>1. y \in Consumers(g, x)
      BY EdgeFacts
    <2>2. PICK e \in OutEdges(g, x) : e.dst = y /\ IsLastEdge(g.edges, e)
      BY <2>1, LastEdge
    <2>3. e.guarded => e \in Needed(g, m, x)
      BY <2>2 DEF Needed, GuardedEdges
    <2>4. answers[x].ok /\ (e.guarded => g.guard[e] \in answers[x].holds)
      <3>1. answers[x].ok /\ answers[x].holds = {g.guard[h] : h \in Needed(g, m, x)}
        <4>1. answers[x] = [ok |-> TRUE, holds |-> {g.guard[h] : h \in Needed(g, m, x)}]
          BY <1>2 DEF NeededAnswer
        <4> QED BY <4>1
      <3> QED BY <2>3, <3>1
    <2> QED BY <1>2, <2>2, <2>4, Delivers
  <1>3. CASE x \notin F
    <2>1. x \in r.fired
      BY <1>3 DEF RunStep
    <2>2. <<y, x>> \in r.marking.tokens
      BY <1>1, <2>1 DEF FeedsOK
    <2> QED BY <1>1, <1>3, <2>2 DEF RunStep
  <1> QED BY <1>2, <1>3

\* A node above m that has not fired can fire or has a producer that has not
\* fired either, if some other run s fires it.
LEMMA UnfiredWaits ==
  ASSUME NEW g, IsGraph(g), NEW m, TreeAbove(g, m), NEW r, AllOK(g, r), FeedsOK(g, m, r),
         NEW x \in Upstream(g, m), x \notin r.fired, x \notin Fireable(g, r.marking),
         NEW s, AllOK(g, s), x \in s.fired
  PROVE  \E p \in Producers(g, x) : p \notin r.fired
  <1>1. RunOK(g, r)
    BY DEF AllOK
  <1>2. x \notin g.starts
    BY <1>1, TreeFireable
  <1>3. PICK p : p \in Producers(g, x)
    BY <1>2 DEF AllOK, CausedOK
  <1>4. <<x, p>> \notin r.marking.tokens
    BY <1>1, <1>3, TreeFireable
  <1>5. p \in Upstream(g, m)
    BY <1>3, TreeNode
  <1>6. p \notin r.fired
    BY <1>3, <1>4, <1>5 DEF FeedsOK
  <1> QED BY <1>3, <1>6

\* So everything above m has fired where none of it can, as there are no cycles.
LEMMA AllFired ==
  ASSUME NEW g, IsGraph(g), NEW m, TreeAbove(g, m), NEW r, AllOK(g, r), FeedsOK(g, m, r),
         \A x \in Upstream(g, m) : x \in Fireable(g, r.marking) => x \in r.fired,
         \A x \in Upstream(g, m) : \E s : AllOK(g, s) /\ x \in s.fired
  PROVE  Upstream(g, m) \subseteq r.fired
  <1> DEFINE U == Upstream(g, m) \ r.fired
             D == {Cardinality(Upstream(g, x)) : x \in U}
  <1> SUFFICES ASSUME U # {} PROVE FALSE
    OBVIOUS
  <1>1. \A x : IsFiniteSet(Upstream(g, x)) /\ Cardinality(Upstream(g, x)) \in Nat
    <2>1. ASSUME NEW x PROVE IsFiniteSet(Upstream(g, x))
      <3>1. Upstream(g, x) \subseteq g.nodes /\ IsFiniteSet(g.nodes)
        BY UpstreamFacts DEF IsGraph
      <3> QED BY <3>1, FS_Subset
    <2> QED BY <2>1, FS_CardinalityType
  <1>2. D \in SUBSET Nat /\ D # {}
    BY <1>1
  <1>3. PICK d \in D : \A e \in D : d <= e
    <2> HIDE DEF D
    <2> QED BY <1>2, NatMin
  <1>4. PICK x \in U : \A y \in U : Cardinality(Upstream(g, x)) <= Cardinality(Upstream(g, y))
    BY <1>3
  <1>5. PICK s : AllOK(g, s) /\ x \in s.fired
    OBVIOUS
  <1>6. PICK p \in Producers(g, x) : p \notin r.fired
    BY <1>5, UnfiredWaits
  <1>7. p \in U
    BY <1>6, UpstreamFacts
  <1>8. /\ p \in Upstream(g, x) /\ Upstream(g, p) \subseteq Upstream(g, x)
        /\ p \notin Upstream(g, p)
    BY <1>7, UpstreamOfConsumer DEF TreeAbove
  <1>9. Cardinality(Upstream(g, p)) <= Cardinality(Upstream(g, x))
    BY <1>1, <1>8, FS_Subset
  <1>10. Cardinality(Upstream(g, p)) = Cardinality(Upstream(g, x))
    BY <1>1, <1>4, <1>7, <1>9
  <1> QED BY <1>1, <1>8, <1>10, FS_Subset
\* Among the runs there is one that feeds all it has fired above m and in which
\* nothing more above m can fire.
LEMMA LastRun ==
  ASSUME GraphInv, SeenInv, phase = "over", NEW m \in graph.nodes,
         TreeAbove(graph, m), PlainSplits(graph, m), Unflagged(graph, m)
  PROVE  \E r \in seen : /\ FeedsOK(graph, m, r)
                         /\ \A x \in Upstream(graph, m) :
                              x \in Fireable(graph, r.marking) => x \in r.fired
  <1> DEFINE A == Upstream(graph, m)
             Good == {r \in seen : FeedsOK(graph, m, r)}
             C == {Cardinality(A \cap r.fired) : r \in Good}
  <1>1. IsGraph(graph)
    BY DEF GraphInv
  <1>2. IsFiniteSet(A) /\ Cardinality(A) \in Nat
    <2>1. A \subseteq graph.nodes /\ IsFiniteSet(graph.nodes)
      BY <1>1, UpstreamFacts DEF IsGraph
    <2> QED BY <2>1, FS_Subset, FS_CardinalityType
  <1> HIDE DEF A
  <1>3. ASSUME NEW S
        PROVE  /\ IsFiniteSet(A \cap S) /\ Cardinality(A \cap S) \in Nat
               /\ Cardinality(A \cap S) <= Cardinality(A)
    BY <1>2, FS_Subset, FS_CardinalityType
  <1>4. Good # {}
    <2>1. PICK r \in seen : r.fired = {}
      BY DEF SeenInv
    <2> QED BY <2>1 DEF FeedsOK
  <1> HIDE DEF Good
  <1>5. C \in SUBSET Nat /\ C # {} /\ \A c \in C : c <= Cardinality(A)
    BY <1>3, <1>4
  <1>6. PICK c \in C : \A d \in C : d <= c
    <2> HIDE DEF C
    <2> QED BY <1>2, <1>5, BoundedMax
  <1>7. PICK r \in Good : \A q \in Good : Cardinality(A \cap q.fired) <= Cardinality(A \cap r.fired)
    BY <1>6
  <1>8. r \in seen /\ FeedsOK(graph, m, r) /\ AllOK(graph, r)
    BY DEF Good, SeenInv
  <1> DEFINE a == [n \in Fireable(graph, r.marking) |-> NeededAnswer(graph, m, n)]
  <1>9. \A n \in Fireable(graph, r.marking) : a[n] \in Answers(graph, n) /\ a[n] = NeededAnswer(graph, m, n)
    BY <1>1, NeededAnswers
  <1> HIDE DEF a
  <1>10a. PICK q \in seen : \E answers :
           /\ RunStep(graph, r, q, Fireable(graph, r.marking), answers)
           /\ \A n \in Fireable(graph, r.marking) : answers[n] = a[n]
    BY <1>8, <1>9, AllAnswersTried
  <1>10. PICK answers :
           /\ RunStep(graph, r, q, Fireable(graph, r.marking), answers)
           /\ \A n \in Fireable(graph, r.marking) : answers[n] = a[n]
    BY <1>10a
  <1>11. q \in Good
    BY <1>1, <1>8, <1>9, <1>10, FeedSteps DEF Good
  <1>12. A \cap r.fired \subseteq A \cap q.fired
    BY <1>10 DEF RunStep
  <1>13. Cardinality(A \cap r.fired) <= Cardinality(A \cap q.fired)
    BY <1>3, <1>12, FS_Subset
  <1>14. Cardinality(A \cap r.fired) = Cardinality(A \cap q.fired)
    BY <1>3, <1>7, <1>11, <1>13
  <1>15. A \cap r.fired = A \cap q.fired
    BY <1>3, <1>12, <1>14, FS_Subset
  <1>16. \A x \in A : x \in Fireable(graph, r.marking) => x \in r.fired
    BY <1>10, <1>15 DEF RunStep
  <1> QED BY <1>8, <1>16 DEF A

LEMMA InvNoSilentDeadlock == GraphInv /\ SeenInv => NoSilentDeadlockInTrees
  <1> SUFFICES ASSUME GraphInv, SeenInv, phase = "over", NEW m \in graph.nodes,
                      TreeAbove(graph, m), PlainSplits(graph, m), DeadJoin(m), m \notin Flagged
               PROVE  FALSE
    BY DEF NoSilentDeadlockInTrees
  <1>1. IsGraph(graph) /\ \A r \in seen : AllOK(graph, r)
    BY DEF GraphInv, SeenInv
  <1>2. /\ graph.join[m] = "AND" /\ m \notin Fired
        /\ Producers(graph, m) # {} /\ Producers(graph, m) \subseteq Fired
    BY DEF DeadJoin
  <1>3. Unflagged(graph, m)
    <2> SUFFICES ASSUME NEW b \in Upstream(graph, m), IsXorSplitter(graph, b), OnDistinctBranches(graph, m, b)
                 PROVE  FALSE
      BY DEF Unflagged
    <2>1. b \in graph.nodes
      BY <1>1, UpstreamFacts
    <2>2. <<m, b>> \in Check(graph)
      BY <1>2, <2>1 DEF Check
    <2> QED BY <2>2 DEF Flagged
  <1>4. PICK r \in seen : /\ FeedsOK(graph, m, r)
                          /\ \A x \in Upstream(graph, m) : x \in Fireable(graph, r.marking) => x \in r.fired
    BY <1>3, LastRun
  <1>5. \A x \in Upstream(graph, m) : \E s : AllOK(graph, s) /\ x \in s.fired
    <2> DEFINE T == Upstream(graph, m) \cap Fired
    <2>1. \A k \in T : Producers(graph, k) \subseteq T
      <3> SUFFICES ASSUME NEW k \in T PROVE Producers(graph, k) \subseteq T
        OBVIOUS
      <3>1. PICK s \in seen : k \in s.fired
        BY DEF Fired
      <3>2. Producers(graph, k) \subseteq s.fired
        BY <1>1, <3>1, FiredFromTheRoots DEF AllOK
      <3> QED BY <1>1, <3>2, UpstreamFacts DEF Fired
    <2>2. Producers(graph, m) \subseteq T
      BY <1>1, <1>2, UpstreamFacts
    <2>3. Upstream(graph, m) \subseteq T
      <3> HIDE DEF T
      <3> QED BY <1>1, <2>1, <2>2, UpstreamFacts
    <2> QED BY <1>1, <2>3 DEF Fired
  <1>6. Upstream(graph, m) \subseteq r.fired
    BY <1>1, <1>4, <1>5, AllFired
  <1>7. m \notin r.fired
    BY <1>2 DEF Fired
  <1>8. \A p \in Producers(graph, m) : <<m, p>> \in r.marking.tokens
    BY <1>1, <1>4, <1>6, <1>7, UpstreamFacts DEF FeedsOK
  <1>9. m \in Fireable(graph, r.marking)
    BY <1>2, <1>8 DEF Fireable, JoinSatisfied
  <1> QED BY <1>2, <1>9, FireableFires
-----------------------------------------------------------------------------
(* A run that ends: no guard ever holds.  What fires then fires next what its  *)
(* unguarded edges lead to, and if this never ends there is a cycle of them.   *)

Free(g, S) == {e.dst : e \in {f \in g.edges : f.src \in S /\ ~f.guarded /\ IsLastEdge(g.edges, f)}}

LEMMA QuietStep ==
  ASSUME NEW g, IsGraph(g), NEW r, RunOK(g, r),
         NEW r2, NEW F, NEW answers, RunStep(g, r, r2, F, answers), \A n \in F : answers[n].holds = {}
  PROVE  Fireable(g, r2.marking) \subseteq Free(g, F)
  <1> SUFFICES ASSUME NEW y \in Fireable(g, r2.marking), y \notin Free(g, F)
               PROVE  FALSE
    OBVIOUS
  <1>1. \A p : <<y, p>> \in r2.marking.tokens => <<y, p>> \in r.marking.tokens /\ y \notin F
    <2> SUFFICES ASSUME NEW p, <<y, p>> \in r2.marking.tokens, p \in F,
                        y \in Delivered(g, p, answers[p])
                 PROVE  FALSE
      BY DEF RunStep
    <2>1. PICK e \in OutEdges(g, p) :
            e.dst = y /\ IsLastEdge(g.edges, e) /\ (e.guarded => g.guard[e] \in answers[p].holds)
      BY DEF Delivered
    <2>2. ~e.guarded
      BY <2>1
    <2> QED BY <2>1, <2>2 DEF Free, OutEdges
  <1>2. y \in r2.marking.armed => y \in r.marking.armed /\ y \notin F
    BY DEF RunStep
  <1>3. y \in g.nodes /\ JoinSatisfied(g, y, r2.marking)
    BY DEF Fireable
  <1>4. JoinSatisfied(g, y, r.marking) /\ y \notin F
    BY <1>1, <1>2, <1>3 DEF JoinSatisfied
  <1> QED BY <1>3, <1>4 DEF RunStep, Fireable

LEMMA UpstreamReaches ==
  ASSUME NEW g, IsGraph(g), NEW m \in g.nodes, NEW c \in Upstream(g, m)
  PROVE  c \in g.nodes /\ m \in ReachableFrom(g, c)
  <1> DEFINE T == {k \in g.nodes : m \in ReachableFrom(g, k)}
  <1>1. \A k, y : k \in Producers(g, y) /\ y \in g.nodes /\ m \in ReachableFrom(g, y) => k \in T
    <2> SUFFICES ASSUME NEW y \in g.nodes, m \in ReachableFrom(g, y), NEW k \in Producers(g, y)
                 PROVE  k \in T
      OBVIOUS
    <2>1. k \in g.nodes /\ y \in Consumers(g, k)
      BY EdgeFacts
    <2>2. y \in ReachableFrom(g, k)
      BY <2>1, ForwardFacts
    <2> QED BY <2>1, <2>2, ForwardTransitive
  <1>2. m \in ReachableFrom(g, m)
    BY ForwardFacts
  <1>3. Producers(g, m) \subseteq T /\ \A k \in T : Producers(g, k) \subseteq T
    BY <1>1, <1>2
  <1>4. Upstream(g, m) \subseteq T
    <2> HIDE DEF T
    <2> QED BY <1>3, UpstreamFacts
  <1> QED BY <1>4

\* A path is empty or ends with an edge.
LEMMA FinalEdge ==
  ASSUME NEW g, IsGraph(g), NEW x \in g.nodes, NEW y \in ReachableFrom(g, x), y # x
  PROVE  \E v \in Producers(g, y) : v \in ReachableFrom(g, x)
  <1> SUFFICES ASSUME \A v \in Producers(g, y) : v \notin ReachableFrom(g, x)
               PROVE  FALSE
    OBVIOUS
  <1> DEFINE T == ReachableFrom(g, x) \ {y}
  <1>1. \A k \in T : Consumers(g, k) \subseteq T
    <2> SUFFICES ASSUME NEW k \in T, NEW c \in Consumers(g, k)
                 PROVE  c \in T
      OBVIOUS
    <2>1. c \in ReachableFrom(g, x)
      BY ForwardFacts
    <2>2. k \in Producers(g, c)
      BY EdgeFacts
    <2> QED BY <2>1, <2>2
  <1>2. x \in T
    BY ForwardFacts
  <1>3. ReachableFrom(g, x) \subseteq T
    <2> HIDE DEF T
    <2> QED BY <1>1, <1>2, ForwardFacts
  <1> QED BY <1>3

\* Where each node of S has an unguarded edge from a node of S there is a cycle
\* of them, and if no two cycles share a node there are no guards at all in its
\* component.
LEMMA FreeCycle ==
  ASSUME NEW g, IsGraph(g), NEW S \in SUBSET g.nodes, S # {}, S \subseteq Free(g, S),
         \A scc \in Sccs(g) : Cardinality(Internal(g, scc)) <= Cardinality(scc)
  PROVE  CheckUnguardedCycles(g) # {}
  <1> DEFINE D == {Cardinality(Upstream(g, k)) : k \in S}
  <1>1. ASSUME NEW k PROVE IsFiniteSet(Upstream(g, k)) /\ Cardinality(Upstream(g, k)) \in Nat
    <2>1. Upstream(g, k) \subseteq g.nodes /\ IsFiniteSet(g.nodes)
      BY UpstreamFacts DEF IsGraph
    <2> QED BY <2>1, FS_Subset, FS_CardinalityType
  <1>2. PICK x \in S : \A k \in S : Cardinality(Upstream(g, x)) <= Cardinality(Upstream(g, k))
    <2>1. D \in SUBSET Nat /\ D # {}
      BY <1>1
    <2>2. PICK d \in D : \A e \in D : d <= e
      <3> HIDE DEF D
      <3> QED BY <2>1, NatMin
    <2> QED BY <2>2
  <1> DEFINE U == Upstream(g, x)
  <1>3. \A z \in S : \E e \in g.edges : e.src \in S /\ e.dst = z /\ ~e.guarded
    BY DEF Free
  <1>4. \A w \in S \cap U : Upstream(g, w) = U
    <2> SUFFICES ASSUME NEW w \in S, w \in U PROVE Upstream(g, w) = U
      OBVIOUS
    <2>1. Upstream(g, w) \subseteq U
      BY UpstreamFacts
    <2>2. Cardinality(Upstream(g, w)) <= Cardinality(U)
      BY <1>1, <2>1, FS_Subset
    <2>3. Cardinality(Upstream(g, w)) = Cardinality(U)
      BY <1>1, <1>2, <2>2
    <2> QED BY <1>1, <2>1, <2>3, FS_Subset
  <1>5. PICK y \in S : y \in U
    <2>1. PICK e \in g.edges : e.src \in S /\ e.dst = x
      BY <1>3
    <2>2. e.src \in Producers(g, x)
      BY <2>1 DEF Producers, InEdges
    <2> QED BY <2>1, <2>2, UpstreamFacts
  <1>6. Upstream(g, y) = U /\ y \in g.nodes
    BY <1>4, <1>5
  <1> HIDE DEF U
  <1> DEFINE K == {k \in ReachableFrom(g, y) : y \in ReachableFrom(g, k)}
  <1>7. /\ K \in Sccs(g) /\ K \subseteq g.nodes /\ y \in K /\ IsFiniteSet(K)
        /\ \A k \in K : k \in ReachableFrom(g, y) /\ y \in ReachableFrom(g, k)
        /\ \A k \in ReachableFrom(g, y) : y \in ReachableFrom(g, k) => k \in K
    <2>1. K \in Sccs(g) /\ K \subseteq g.nodes /\ y \in K
      BY <1>6, ForwardFacts DEF Sccs
    <2>2. IsFiniteSet(K)
      <3> HIDE DEF K
      <3> QED BY <2>1, FS_Subset DEF IsGraph
    <2> QED BY <2>1, <2>2
  <1> HIDE DEF K
  \* The edges within S that are unguarded do not leave the component backwards.
  <1>8. \A z \in S \cap K : \E e \in Internal(g, K) : e.src \in S /\ e.dst = z /\ ~e.guarded
    <2> SUFFICES ASSUME NEW z \in S, z \in K
                 PROVE  \E e \in Internal(g, K) : e.src \in S /\ e.dst = z /\ ~e.guarded
      OBVIOUS
    <2>1. PICK e \in g.edges : e.src \in S /\ e.dst = z /\ ~e.guarded
      BY <1>3
    <2>2. z \in U
      <3>1. z \in Upstream(g, y) \cup {y}
        BY <1>6, <1>7, LeadsTo
      <3> QED BY <1>5, <1>6, <3>1
    <2>3. e.src \in Producers(g, z)
      BY <2>1 DEF Producers, InEdges
    <2>4. e.src \in U
      BY <2>2, <2>3, UpstreamFacts DEF U
    <2>5. Upstream(g, e.src) = U
      BY <1>4, <2>1, <2>4
    <2>6. e.src \in ReachableFrom(g, y)
      BY <1>5, <2>1, <2>5, UpstreamReaches
    <2>7. y \in ReachableFrom(g, e.src)
      BY <1>6, <2>4, UpstreamReaches
    <2> QED BY <1>7, <2>1, <2>6, <2>7 DEF Internal
  <1>9. \A k \in K : \E e \in Internal(g, K) : e.dst = k
    <2> SUFFICES ASSUME NEW k \in K, k # y
                 PROVE  \E e \in Internal(g, K) : e.dst = k
      BY <1>5, <1>7, <1>8
    <2>1. PICK v \in Producers(g, k) : v \in ReachableFrom(g, y)
      BY <1>6, <1>7, FinalEdge
    <2>2. v \in g.nodes /\ k \in Consumers(g, v)
      BY <2>1, EdgeFacts
    <2>3. k \in ReachableFrom(g, v)
      BY <2>2, ForwardFacts
    <2>4. y \in ReachableFrom(g, v)
      BY <1>7, <2>2, <2>3, ForwardTransitive
    <2>5. v \in K
      BY <1>7, <2>1, <2>4
    <2> QED BY <2>1, <2>5 DEF Producers, InEdges, Internal
  <1>10. \A e, f \in Internal(g, K) : e.dst = f.dst => e = f
    <2> DEFINE dst == [e \in Internal(g, K) |-> e.dst]
    <2>1. IsFiniteSet(Internal(g, K)) /\ Cardinality(Internal(g, K)) \in Nat /\ Cardinality(K) \in Nat
      <3>1. Internal(g, K) \subseteq g.edges
        BY DEF Internal
      <3> QED BY <1>7, <3>1, FS_Subset, FS_CardinalityType DEF IsGraph
    <2>2. dst \in Surjection(Internal(g, K), K)
      <3>1. \A e \in Internal(g, K) : e.dst \in K
        BY DEF Internal
      <3> QED BY <1>9, <3>1 DEF Surjection
    <2>3. \A e \in Internal(g, K) : dst[e] = e.dst
      OBVIOUS
    <2> HIDE DEF dst
    <2>4. Cardinality(K) <= Cardinality(Internal(g, K))
      BY <2>1, <2>2, FS_Surjection
    <2>5. Cardinality(K) = Cardinality(Internal(g, K))
      BY <1>7, <2>1, <2>4
    <2>6. dst \in Injection(Internal(g, K), K)
      BY <2>1, <2>2, <2>5, FS_Surjection
    <2>7. \A e, f \in Internal(g, K) : dst[e] = dst[f] => e = f
      BY <2>6 DEF Injection, IsInjective
    <2> QED BY <2>3, <2>7
  <1>11. K \subseteq S
    <2> SUFFICES ASSUME NEW k \in K, k \notin S PROVE FALSE
      OBVIOUS
    <2> DEFINE T == {v \in ReachableFrom(g, y) : v \notin S \cap K}
    <2>1. \A v \in T : Consumers(g, v) \subseteq T
      <3> SUFFICES ASSUME NEW v \in T, NEW c \in Consumers(g, v) PROVE c \in T
        OBVIOUS
      <3>1. v \in g.nodes /\ c \in g.nodes /\ c \in ReachableFrom(g, y) /\ c \in ReachableFrom(g, v)
        BY <1>6, ForwardFacts
      <3>2. CASE c \in S \cap K
        <4>1. v \in K
          BY <1>7, <3>1, <3>2, ForwardTransitive
        <4>2. PICK e \in g.edges : e.src = v /\ e.dst = c
          BY DEF Consumers, OutEdges
        <4>3. e \in Internal(g, K)
          BY <3>2, <4>1, <4>2 DEF Internal
        <4>4. PICK f \in Internal(g, K) : f.src \in S /\ f.dst = c
          BY <1>8, <3>2
        <4>5. e = f
          BY <1>10, <4>2, <4>3, <4>4
        <4> QED BY <4>1, <4>2, <4>4, <4>5
      <3> QED BY <3>1, <3>2
    <2>2. k \in T /\ k \in g.nodes
      BY <1>7
    <2>3. ReachableFrom(g, k) \subseteq T
      <3> HIDE DEF T
      <3> QED BY <2>1, <2>2, ForwardFacts
    <2> QED BY <1>5, <1>7, <2>3
  <1>12. \A e \in Internal(g, K) : ~e.guarded
    <2> SUFFICES ASSUME NEW e \in Internal(g, K) PROVE ~e.guarded
      OBVIOUS
    <2>1. e.dst \in S \cap K
      BY <1>11 DEF Internal
    <2>2. PICK f \in Internal(g, K) : f.dst = e.dst /\ ~f.guarded
      BY <1>8, <2>1
    <2> QED BY <1>10, <2>2
  <1>13. Internal(g, K) # {}
    BY <1>7, <1>9
  <1> QED BY <1>7, <1>12, <1>13 DEF CheckUnguardedCycles

LEMMA InvUnwarnedRunsEnd == GraphInv /\ SeenInv => UnwarnedRunsEnd
  <1> SUFFICES ASSUME GraphInv, SeenInv, phase = "over",
                      CheckUnguardedCycles(graph) = {},
                      \A scc \in Sccs(graph) : ~(Cardinality(Internal(graph, scc)) > Cardinality(scc))
               PROVE  \E r \in seen : r.failed = {} /\ Fireable(graph, r.marking) = {}
    BY DEF UnwarnedRunsEnd
  <1>1. IsGraph(graph) /\ \A r \in seen : RunOK(graph, r)
    BY DEF GraphInv, SeenInv, AllOK
  <1>2. \A scc \in Sccs(graph) : Cardinality(Internal(graph, scc)) <= Cardinality(scc)
    <2> SUFFICES ASSUME NEW scc \in Sccs(graph)
                 PROVE  Cardinality(Internal(graph, scc)) <= Cardinality(scc)
      OBVIOUS
    <2>1. PICK n \in graph.nodes : scc \subseteq ReachableFrom(graph, n)
      BY DEF Sccs
    <2>2. scc \subseteq graph.nodes /\ Internal(graph, scc) \subseteq graph.edges
      BY <1>1, <2>1, ForwardFacts DEF Internal
    <2>3. Cardinality(scc) \in Nat /\ Cardinality(Internal(graph, scc)) \in Nat
      BY <1>1, <2>2, FS_Subset, FS_CardinalityType DEF IsGraph
    <2> QED BY <2>3
  <1> DEFINE Shrinks == {S \in SUBSET graph.nodes :
                           /\ Free(graph, S) \subseteq S
                           /\ \E r \in seen : r.failed = {} /\ Fireable(graph, r.marking) \subseteq S}
             C == {Cardinality(S) : S \in Shrinks}
  <1>3. \A S : Free(graph, S) \subseteq graph.nodes
    <2>1. \A e \in graph.edges : e.dst \in graph.nodes
      BY <1>1 DEF IsGraph
    <2> QED BY <2>1 DEF Free
  <1>4. graph.nodes \in Shrinks
    <2>1. \E r \in seen : r.failed = {}
      BY DEF SeenInv
    <2> QED BY <1>3, <2>1 DEF Fireable
  <1>5. \A S \in Shrinks : IsFiniteSet(S) /\ Cardinality(S) \in Nat
    BY <1>1, FS_Subset, FS_CardinalityType DEF IsGraph
  <1>6. PICK S \in Shrinks : \A X \in Shrinks : Cardinality(S) <= Cardinality(X)
    <2> HIDE DEF Shrinks
    <2>1. C \in SUBSET Nat /\ C # {}
      BY <1>4, <1>5
    <2>2. PICK c \in C : \A d \in C : c <= d
      <3> HIDE DEF C
      <3> QED BY <2>1, NatMin
    <2> QED BY <2>2
  <1>7. PICK r \in seen : r.failed = {} /\ Fireable(graph, r.marking) \subseteq S
    BY <1>6
  <1> DEFINE a == [n \in Fireable(graph, r.marking) |-> [ok |-> TRUE, holds |-> {}]]
  <1>8. \A n \in Fireable(graph, r.marking) : a[n] \in Answers(graph, n) /\ a[n].ok /\ a[n].holds = {}
    BY DEF Answers
  <1> HIDE DEF a
  <1>9a. PICK q \in seen : \E answers :
          /\ RunStep(graph, r, q, Fireable(graph, r.marking), answers)
          /\ \A n \in Fireable(graph, r.marking) : answers[n] = a[n]
    BY <1>8, AllAnswersTried
  <1>9. PICK answers :
          /\ RunStep(graph, r, q, Fireable(graph, r.marking), answers)
          /\ \A n \in Fireable(graph, r.marking) : answers[n] = a[n]
    BY <1>9a
  <1>10. Fireable(graph, q.marking) \subseteq Free(graph, Fireable(graph, r.marking))
    BY <1>1, <1>8, <1>9, QuietStep
  <1>11. Free(graph, Fireable(graph, r.marking)) \subseteq Free(graph, S)
    BY <1>7 DEF Free
  <1>12. Free(graph, S) \subseteq S
    BY <1>6
  <1>13. Free(graph, Free(graph, S)) \subseteq Free(graph, S)
    BY <1>12 DEF Free
  <1>9b. q.failed = {}
    BY <1>7, <1>8, <1>9 DEF RunStep
  <1>14. Free(graph, S) \in Shrinks
    BY <1>3, <1>9b, <1>10, <1>11, <1>13
  <1>15. Cardinality(Free(graph, S)) <= Cardinality(S)
    BY <1>5, <1>6, <1>12, FS_Subset
  <1>16. Cardinality(Free(graph, S)) = Cardinality(S)
    <2> HIDE DEF Shrinks
    <2> QED BY <1>5, <1>6, <1>14, <1>15
  <1>17. Free(graph, S) = S
    BY <1>5, <1>6, <1>12, <1>16, FS_Subset
  <1>18. S = {}
    <2>1. S \in SUBSET graph.nodes
      BY <1>6
    <2> QED BY <1>1, <1>2, <1>17, <2>1, FreeCycle
  <1> QED BY <1>7, <1>18
-----------------------------------------------------------------------------
(* Theorems *)

LEMMA AllInv == BuildSpec => [](GraphInv /\ SeenInv)
  <1>1. BuildInit => GraphInv /\ SeenInv
    BY GraphInit, SeenInit
  <1>2. GraphInv /\ SeenInv /\ [BuildNext]_bvars => (GraphInv /\ SeenInv)'
    BY GraphNext, SeenNext
  <1> QED BY <1>1, <1>2, PTL DEF BuildSpec

\* Names mean the same: what a guard behind a node looks up by name (view of
\* src/tickflow/engine.py) is what the node's body finds under it, but for a
\* field that a later producer hides.
THEOREM NamesAlwaysAgree == BuildSpec => []NamesAgree
BY AllInv, InvNamesAgree, PTL

\* Inputs have fired: what the parser lets an AND-join below a tree read has
\* fired before it, in every run.
THEOREM InputsFireBefore == BuildSpec => []InputsHaveFired
BY AllInv, InvInputsHaveFired, PTL

\* Promotion cures: turning an AND-join that check() names into an OR-join lets
\* it fire wherever one of its producers does.
THEOREM PromotionAlwaysCures == BuildSpec => []PromotionCures
BY AllInv, InvPromotionCures, PTL

\* A cycle check_unguarded_cycles() of src/tickflow/checker.py warns of keeps
\* every run going that has entered it and in which none of its bodies failed.
THEOREM WarnedCyclesNeverRest == BuildSpec => []WarnedCyclesLoop
BY AllInv, InvWarnedCyclesLoop, PTL

\* Where it warns of none and no two cycles share a node, some run ends without
\* a Failure.
THEOREM UnwarnedRunsDoEnd == BuildSpec => []UnwarnedRunsEnd
BY AllInv, InvUnwarnedRunsEnd, PTL

\* check() gives no false alarm below a tree without parallel edges.
THEOREM FlagsAreDeadlocks == BuildSpec => []NoFalseAlarm
BY AllInv, InvNoFalseAlarm, PTL

\* And below a tree with plain splits it misses no join that starves: the
\* promise strict_deadlock rests on, where the check can keep it.
THEOREM DeadlocksAreFlagged == BuildSpec => []NoSilentDeadlockInTrees
BY AllInv, InvNoSilentDeadlock, PTL

=============================================================================
