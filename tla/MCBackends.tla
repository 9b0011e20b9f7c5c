----------------------------- MODULE MCBackends -----------------------------
(* Instances of the backends: one session on files, two threads on one
   connection. *)
EXTENDS Backends

Two == <<"a", "b">>

Setup(kind, active, labels, plan) ==
  [kind |-> kind, active |-> active, labels |-> labels, plan |-> plan]

\* Both nodes in the second tick; the third, in which nothing fires, has a
\* snapshot only.
ThreeTicks == [t \in 0 .. 2 |-> CASE t = 0 -> {"a"} [] t = 1 -> {"a", "b"} [] t = 2 -> {}]

TwoTicks == [t \in 0 .. 1 |-> IF t = 0 THEN {"a", "b"} ELSE {"b"}]

OneTick == [t \in {0} |-> {"a", "b"}]

MCSetups ==
  {Setup("json", {"s"}, {"l", "m"}, OneTick), Setup("json", {"s"}, {"l"}, ThreeTicks),
   Setup("sqlite", {"s"}, {"l"}, TwoTicks), Setup("sqlite", {"s", "t"}, {}, TwoTicks)}

=============================================================================
