------------------------------ MODULE MCBuild ------------------------------
(* Texts, callables and registries to build runners from, next to the graphs
   of MCChecker that are put together by hand. *)
EXTENDS Build, MCChecker

Names == <<"a", "b", "c", "m">>

\* [src]--|guard|-->dst, [n], n.op: value
EdgeLine(src, dst, guard, start) == [op |-> "edge", node |-> src, value |-> <<dst, guard, start>>]
StartLine(n)     == [op |-> "start", node |-> n, value |-> <<>>]
Line(op, n, val) == [op |-> op, node |-> n, value |-> val]

-----------------------------------------------------------------------------
(* What may be read: a tree or forest of a, b and c, a join m of some of them,
   and a declaration of m that reads any node *)

Reads ==
  {Line("inputs", "m", << <<p, 0>> >>) : p \in ToSet(Names)}
  \cup {Line("bind", "m", << <<"", p>>, <<"", q>> >>) : p \in {"a", "b"}, q \in {"b", "c"}}

Forest(p, q, joined, join, read) ==
  << read, StartLine("a"),
     IF p = "none" THEN StartLine("b") ELSE EdgeLine(p, "b", "", FALSE),
     IF q = "none" THEN StartLine("c") ELSE EdgeLine(q, "c", "", FALSE) >>
  \o SetToSeq({EdgeLine(n, "m", "", FALSE) : n \in joined})
  \o << Line("join", "m", <<join>>) >>

ReadTexts ==
  {Forest(p, q, joined, join, read) :
     p \in {"none", "a"}, q \in {"none", "a", "b"}, joined \in (SUBSET {"a", "b", "c"}) \ {{}},
     join \in {"AND", "OR"}, read \in Reads}

-----------------------------------------------------------------------------
(* What is called: a body f with two inputs, declared in every way, and a guard
   g behind it *)

Bindings ==
  { <<>>,
    << Line("bind", "m", << <<"", "b">>, <<"", "a">> >>) >>,
    << Line("bind", "m", << <<"", "a">>, <<"", "a">> >>) >>,
    << Line("bind", "m", << <<"", "a">> >>) >>,
    << Line("bind", "m", << <<"x", "b">>, <<"y", "a">> >>) >>,
    << Line("bind", "m", << <<"x", "b">> >>) >>,
    << Line("bind", "m", << <<"x", "a">>, <<"", "b">> >>) >>,
    << Line("bind", "m", << <<"state", "a">> >>) >>,
    << Line("bind", "m", << <<"b", "a">>, <<"a", "b">> >>) >>,
    << Line("bind", "m", << <<"b", "a">>, <<"x", "b">> >>) >>,
    << Line("bind", "m", << <<"x", "b">>, <<"b", "a">> >>) >>,
    << Line("inputs", "m", << <<"b", 1>>, <<"a", 0>>, <<"b", 2>> >>),
       Line("bind", "m", << <<"v", "b">> >>) >>,
    << Line("inputs", "m", << >>) >> }

CallTexts ==
  {<< EdgeLine("b", "m", "", TRUE), EdgeLine("a", "m", "", TRUE), EdgeLine("m", "c", "g", FALSE),
      Line("body", "m", <<"f">>) >> \o bind : bind \in Bindings}

Def(pos, posonly, defaults, kwonly, required, star, kwargs) ==
  [pos |-> pos, posonly |-> posonly, defaults |-> defaults,
   kwonly |-> kwonly, required |-> required, star |-> star, kwargs |-> kwargs]

MCCallables ==
  { Def(<<>>, 0, 0, {}, {}, FALSE, FALSE),                    \* def f()
    Def(<<"x">>, 0, 0, {}, {}, FALSE, FALSE),                 \* def f(x)
    Def(<<"x", "y">>, 0, 0, {}, {}, FALSE, FALSE),            \* def f(x, y)
    Def(<<"x", "y">>, 0, 1, {}, {}, FALSE, FALSE),            \* def f(x, y=0)
    Def(<<"x", "y">>, 1, 0, {}, {}, FALSE, FALSE),            \* def f(x, /, y)
    Def(<<"v">>, 0, 0, {}, {}, FALSE, FALSE),                 \* def f(v)
    Def(<<"v">>, 0, 0, {}, {}, TRUE, FALSE),                  \* def f(v, *rest)
    Def(<<"v">>, 0, 0, {"state"}, {"state"}, FALSE, FALSE),   \* def f(v, *, state)
    Def(<<"x">>, 0, 0, {"state"}, {"state"}, FALSE, FALSE),   \* def f(x, *, state)
    Def(<<"x", "y">>, 0, 0, {"state"}, {}, FALSE, FALSE),     \* def f(x, y, *, state=None)
    Def(<<"x">>, 0, 0, {"limit"}, {"limit"}, FALSE, FALSE),   \* def f(x, *, limit)
    Def(<<"state">>, 0, 0, {}, {}, FALSE, FALSE),             \* def f(state)
    Def(<<>>, 0, 0, {"state"}, {"state"}, FALSE, FALSE),      \* def f(*, state)
    Def(<<>>, 0, 0, {}, {}, TRUE, FALSE),                     \* def f(*rest)
    Def(<<"x", "y">>, 0, 0, {}, {}, TRUE, FALSE),             \* def f(x, y, *rest)
    Def(<<"x", "y">>, 0, 0, {}, {}, FALSE, TRUE),             \* def f(x, y, **kw)
    Def(<<"x">>, 1, 1, {}, {}, FALSE, TRUE),                  \* def f(x=0, /, **kw)
    Def(<<"x">>, 1, 0, {}, {}, FALSE, TRUE),                  \* def f(x, /, **kw)
    Def(<<"b", "x">>, 0, 0, {}, {}, FALSE, FALSE) }           \* def f(b, x)

\* What the callables are registered from.
MCRegistries ==
  {[bodies |-> [name \in {"f"} |-> Unary], guards |-> [name \in {"g"} |-> Unary]],
   [bodies |-> <<>>, guards |-> [name \in {"g"} |-> Unary]]}

BuildTexts == ReadTexts \cup CallTexts

=============================================================================
