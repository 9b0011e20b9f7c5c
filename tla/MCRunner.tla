------------------------------ MODULE MCRunner ------------------------------
(* Instances of the synchronous runner for the model checker. *)
EXTENDS Runner, MCGraphs

CoreGraphs == {Pipeline, Join, Late, Loop, Parallel}
AllShapes  == CoreGraphs \cup {Xor, Retry}

Runs == {[max |-> MaxTicks, pauses |-> {}], [max |-> MaxTicks, pauses |-> {1}]}

NoRemaps == {}

-----------------------------------------------------------------------------
(* Graphs to swap while a run is under way *)

\* The pipeline of Pipeline with its middle node taken out, with a second
\* start that joins in, and with its last node promoted to a start; the loop of
\* Loop with its repeating node promoted.
Shortened == G(<<"a", "c">>, << <<"a", "c", FALSE>> >>, {"a"}, {})
Widened   == G(<<"a", "b", "c", "d">>,
               << <<"a", "b", FALSE>>, <<"b", "c", FALSE>>, <<"d", "c", FALSE>> >>,
               {"a", "d"}, {"c"})
Promoted  == G(<<"a", "b", "c">>, << <<"a", "b", FALSE>>, <<"b", "c", FALSE>> >>, {"a", "c"}, {})

Looped    == G(<<"a", "b">>, << <<"a", "b", FALSE>>, <<"b", "b", TRUE>> >>, {"a", "b"}, {"b"})

RemapGraphs == {Pipeline, Join, Shortened, Widened, Promoted, Loop, Looped}

\* A node taken out or added, a promotion, a pipeline exchanged for a cycle and
\* back, and a run that may have starved on the old graph.
Swaps == {Pipeline} \X (RemapGraphs \ {Looped})
           \cup {<<Join, Shortened>>, <<Join, Pipeline>>, <<Loop, Pipeline>>, <<Loop, Looped>>}

=============================================================================
