------------------------------ MODULE MCGraphs ------------------------------
(***************************************************************************)
(* Small graphs for the model checker, and the notation they are written   *)
(* in: G(names, edges, starts, ors) takes the node names in declaration    *)
(* order and the edges in list order, each an <<src, dst, guarded>>.       *)
(***************************************************************************)
EXTENDS Integers, Sequences, FiniteSets, SequencesExt

Position(s, x) == CHOOSE i \in DOMAIN s : s[i] = x

G(names, edges, starts, ors) ==
  [nodes  |-> ToSet(names),
   order  |-> [n \in ToSet(names) |-> Position(names, n)],
   starts |-> starts,
   join   |-> [n \in ToSet(names) |-> IF n \in ors THEN "OR" ELSE "AND"],
   edges  |-> {[src |-> edges[i][1], dst |-> edges[i][2],
                guarded |-> edges[i][3], pos |-> i] : i \in DOMAIN edges}]

-----------------------------------------------------------------------------
(* Shapes taken from the examples and the tests of the repository *)

\* [a]-->b-->c
Pipeline == G(<<"a", "b", "c">>, << <<"a", "b", FALSE>>, <<"b", "c", FALSE>> >>, {"a"}, {})

\* Two starts that meet in an AND-join, one of them through a guard: starves
\* when the guard says no.
Join == G(<<"a", "b", "c">>, << <<"a", "c", FALSE>>, <<"b", "c", TRUE>> >>, {"a", "b"}, {})

\* An XOR-splitter whose branches of different length meet in an OR-join.
Xor == G(<<"a", "b", "c">>,
         << <<"a", "b", TRUE>>, <<"a", "c", TRUE>>, <<"b", "c", FALSE>> >>, {"a"}, {"c"})

\* The counter loop: a seed feeds a node that repeats while its guard holds.
Loop == G(<<"a", "b">>, << <<"a", "b", FALSE>>, <<"b", "b", TRUE>> >>, {"a"}, {"b"})

\* A start inside a two-node cycle with an exit.
Retry == G(<<"a", "b", "c">>,
           << <<"a", "b", FALSE>>, <<"b", "a", TRUE>>, <<"b", "c", TRUE>> >>, {"a"}, {})

\* An AND-join one of whose inputs comes a tick after the other.
Late == G(<<"a", "b", "c">>,
          << <<"a", "b", FALSE>>, <<"a", "c", FALSE>>, <<"b", "c", TRUE>> >>, {"a"}, {})

\* Two nodes joined by parallel edges, the guarded one last.
Parallel == G(<<"a", "b">>, << <<"a", "b", FALSE>>, <<"a", "b", TRUE>> >>, {"a"}, {})

\* Two starts that both feed an AND-join and an OR-join through a guard each.
Crossed == G(<<"a", "b", "c", "d">>,
             << <<"a", "c", TRUE>>, <<"a", "d", FALSE>>, <<"b", "c", FALSE>>, <<"b", "d", TRUE>> >>,
             {"a", "b"}, {"d"})

\* Two starts that meet in an AND-join through a guard each.
Guarded == G(<<"a", "b", "c">>, << <<"a", "c", TRUE>>, <<"b", "c", TRUE>> >>, {"a", "b"}, {})

-----------------------------------------------------------------------------
(* Exhaustive families *)

\* Every graph over the nodes of `names` with at most one edge for each pair
\* of `pairs` (absent, unguarded or guarded), the starts of one of the sets
\* `startSets` and any joins.
Family(names, pairs, startSets) ==
  LET EdgesOf(w) ==
        {[src |-> pairs[i][1], dst |-> pairs[i][2],
          guarded |-> w[i] = "guard", pos |-> i] : i \in {j \in DOMAIN pairs : w[j] # "none"}}
  IN {[nodes  |-> ToSet(names),
       order  |-> [n \in ToSet(names) |-> Position(names, n)],
       starts |-> S,
       join   |-> j,
       edges  |-> EdgesOf(w)] :
       S \in startSets,
       j \in [ToSet(names) -> {"AND", "OR"}],
       w \in [DOMAIN pairs -> {"none", "always", "guard"}]}

\* Every graph on two nodes, up to renaming (the parser refuses one without a
\* start).
TwoNodeGraphs ==
  Family(<<"a", "b">>, << <<"a", "a">>, <<"a", "b">>, <<"b", "a">>, <<"b", "b">> >>,
         {{"a"}, {"a", "b"}})

\* Every acyclic graph on three nodes, up to renaming.
ThreeNodeDags ==
  Family(<<"a", "b", "c">>, << <<"a", "b">>, <<"a", "c">>, <<"b", "c">> >>,
         (SUBSET {"a", "b", "c"}) \ {{}})

=============================================================================
