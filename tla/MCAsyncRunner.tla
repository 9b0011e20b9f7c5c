---------------------------- MODULE MCAsyncRunner ----------------------------
(* Instances of the asyncio runner for the model checker. *)
EXTENDS AsyncRunner, MCGraphs

CoreGraphs  == {Late, Retry, Parallel, Crossed}
FaultGraphs == {Guarded, Late, Loop}

Runs == {[max |-> MaxTicks, pauses |-> {}], [max |-> MaxTicks, pauses |-> {1}]}

OneRun == {[max |-> MaxTicks, pauses |-> {}]}

NoRemaps == {}

=============================================================================
