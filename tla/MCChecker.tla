----------------------------- MODULE MCChecker -----------------------------
(* Graphs with splitters for the checker, on nodes in declaration order.  An
   edge is labelled "always" or with the name of its guard. *)
EXTENDS Checker, MCGraphs

\* The graph with the given edges, <<src, dst, label>> in list order.
Labelled(names, edges, starts, ors) ==
  LET Edge(i) == [src |-> edges[i][1], dst |-> edges[i][2],
                  guarded |-> edges[i][3] # "always", pos |-> i]
  IN [nodes  |-> ToSet(names),
      order  |-> [n \in ToSet(names) |-> Position(names, n)],
      starts |-> starts,
      join   |-> [n \in ToSet(names) |-> IF n \in ors THEN "OR" ELSE "AND"],
      edges  |-> {Edge(i) : i \in DOMAIN edges},
      guard  |-> [e \in {Edge(i) : i \in {j \in DOMAIN edges : edges[j][3] # "always"}} |->
                    edges[e.pos][3]]]

Splits(g) == \E n \in g.nodes : IsXorSplitter(g, n)

Real(edges) == SelectSeq(edges, LAMBDA e : e[1] # "none" /\ e[3] # "none")

-----------------------------------------------------------------------------

\* Acyclic graphs on four nodes below one start that the check has a suggestion
\* for; the last edge, alone at its source, has no guard.
Dags ==
  LET Labels == [1 .. 6 -> {"none", "always", "g", "h"}]
  IN {g \in {Labelled(<<"a", "b", "c", "d">>,
                      Real(<< <<"a", "b", w[1]>>, <<"a", "c", w[2]>>, <<"a", "d", w[3]>>,
                              <<"b", "c", w[4]>>, <<"b", "d", w[5]>>, <<"c", "d", w[6]>> >>),
                      {"a"}, ors) :
               w \in {u \in Labels : /\ u[1] # "none" /\ u[6] \in {"none", "always"}
                                     /\ {u[2], u[4]} # {"none"}
                                     /\ Cardinality({i \in {3, 5, 6} : u[i] # "none"}) > 0},
               ors \in SUBSET {"c", "d"}} :
        Check(g) # {}}

\* Every forest on four nodes with a splitter, and a join below it.
Forests ==
  LET Parents == {"none", "a"} \X {"none", "a", "b"} \X {"none", "a", "b", "c"}
      Roots(p) == {"a"} \cup {<<"b", "c", "d">>[i] : i \in {k \in 1 .. 3 : p[k] = "none"}}
  IN {g \in UNION
       {{Labelled(<<"a", "b", "c", "d", "m">>,
                  Real(<< <<p[1], "b", w[1]>>, <<p[2], "c", w[2]>>, <<p[3], "d", w[3]>>,
                          <<"a", "m", v[1]>>, <<"b", "m", v[2]>>, <<"c", "m", v[3]>>, <<"d", "m", v[4]>> >>),
                  Roots(p), {}) :
           w \in {u \in [1 .. 3 -> {"always", "g", "h"}] :
                    /\ \A i \in 1 .. 3 : p[i] = "none" => u[i] = "always"
                    /\ Cardinality({i \in 1 .. 3 : u[i] # "always"}) > 1},
           v \in {u \in [1 .. 4 -> {"none", "always"}] :
                    Cardinality({i \in 1 .. 4 : u[i] # "none"}) > 1}} :
         p \in Parents} :
       Splits(g)}

\* A splitter below a splitter, all branches of both meeting in one join.
Nested ==
  Labelled(<<"a", "b", "c", "d", "e", "m">>,
           << <<"a", "b", "g">>, <<"a", "c", "h">>, <<"b", "d", "g">>, <<"b", "e", "h">>,
              <<"c", "m", "always">>, <<"d", "m", "always">>, <<"e", "m", "always">> >>, {"a"}, {})

\* Every graph on two nodes with one start, and one cycle that leads into or
\* through another.
Cycles ==
  {Labelled(<<"a", "b">>,
            Real(<< <<"a", "a", w[1]>>, <<"a", "b", w[2]>>, <<"b", "a", w[3]>>, <<"b", "b", w[4]>> >>),
            {"a"}, ors) :
     w \in [1 .. 4 -> {"none", "always", "g", "h"}], ors \in SUBSET {"a", "b"}}
  \cup
  {Labelled(<<"a", "b", "c">>,
            Real(<< <<"a", "b", w[1]>>, <<"b", "a", w[2]>>, <<"b", "c", w[3]>>, <<"c", "c", w[4]>>,
                    <<"c", "a", w[5]>> >>),
            {"a"}, {"a", "c"}) :
     w \in [1 .. 5 -> {"none", "always", "g"}]}

\* A splitter with two edges to each branch.
Doubles ==
  {Labelled(<<"a", "b", "c", "m">>,
            Real(<< <<"a", "b", w[1]>>, <<"a", "c", w[2]>>, <<"a", "b", w[3]>>, <<"a", "c", w[4]>>,
                    <<"b", "m", "always">>, <<"c", "m", "always">> >>),
            {"a"}, {}) :
     w \in [1 .. 4 -> {"none", "always", "g", "h"}]}

CheckedGraphs == Dags \cup Forests \cup Cycles \cup Doubles \cup {Nested}

-----------------------------------------------------------------------------
(* Graphs the check has nothing to say about *)

\* One branch of the splitter is its edge to the join itself.
ShortBranch ==
  Labelled(<<"a", "b", "m">>,
           << <<"a", "m", "g">>, <<"a", "b", "h">>, <<"b", "m", "always">> >>, {"a"}, {})

\* Two branches behind one guard: the first hides the second.
SharedGuard ==
  Labelled(<<"a", "b", "c", "d", "m">>,
           << <<"a", "b", "g">>, <<"a", "c", "g">>, <<"a", "d", "h">>,
              <<"c", "m", "always">>, <<"d", "m", "always">> >>, {"a"}, {})

\* A branch that goes on past a join.
PastMerge ==
  Labelled(<<"s", "a", "b", "c", "d", "e", "m">>,
           << <<"s", "c", "always">>, <<"a", "b", "g">>, <<"b", "c", "always">>, <<"c", "d", "always">>,
              <<"a", "e", "h">>, <<"d", "m", "always">>, <<"e", "m", "always">> >>,
           {"s", "a"}, {})

MissedGraphs == {ShortBranch, SharedGuard, PastMerge}

=============================================================================
