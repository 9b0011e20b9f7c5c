------------------------------- MODULE Build -------------------------------
(***************************************************************************)
(* From a text and a registry to a runner that calls bodies and guards:    *)
(* parse() of src/tickflow/parser.py, the binds of ir.py, the registry of  *)
(* registry.py, the validation in runner.py and the calls of engine.py,    *)
(* around the checks of Checker.                                           *)
(*                                                                         *)
(* A text is a sequence of lines that the grammar recognizes, as records   *)
(*   [op |-> "edge", node, value |-> <<dst, guard or "", start>>]          *)
(*   [op |-> "start", node, value |-> <<>>]                                *)
(*   [op |-> "inputs", node, value |-> << <<producer, k>>, ... >>]         *)
(*   [op |-> "bind", node, value |-> << <<field or "", producer>>, ... >>] *)
(*   [op |-> "body" or "join", node, value |-> <<name>>]                   *)
(* where k = 0 is the policy "latest" and k > 0 is A[k].                   *)
(*                                                                         *)
(* A callable is its list of parameters, as a record                       *)
(*   pos       the names of the positional parameters                      *)
(*   posonly   how many of them are positional-only                        *)
(*   defaults  how many of them, the last ones, have a default             *)
(*   kwonly    the names of the keyword-only parameters                    *)
(*   required  those of them that have no default                          *)
(*   star      whether it takes *args                                      *)
(*   kwargs    whether it takes **kwargs                                   *)
(***************************************************************************)
EXTENDS Checker, SequencesExt

CONSTANTS Texts,       \* the texts to build from
          Alphabet,    \* the node names in alphabetical order
          Callables,   \* the callables there are
          Registries   \* the registries a user may pass

IsCallable(c) ==
  /\ Len(c.pos) \in Nat /\ DOMAIN c.pos = 1 .. Len(c.pos)
  /\ \A i, j \in DOMAIN c.pos : c.pos[i] = c.pos[j] => i = j
  /\ c.posonly \in 0 .. Len(c.pos)
  /\ c.defaults \in 0 .. Len(c.pos)
  /\ c.required \subseteq c.kwonly
  /\ c.kwonly \cap {c.pos[i] : i \in DOMAIN c.pos} = {}
  /\ c.star \in BOOLEAN /\ c.kwargs \in BOOLEAN

IsRegistry(r) ==
  /\ r = [bodies |-> r.bodies, guards |-> r.guards]
  /\ \A name \in DOMAIN r.bodies : IsCallable(r.bodies[name])
  /\ \A name \in DOMAIN r.guards : IsCallable(r.guards[name])

IsLine(line) ==
  /\ line.op \in {"edge", "start", "inputs", "bind", "body", "join"}
  /\ line.op \in {"inputs", "bind"} => DOMAIN line.value = 1 .. Len(line.value)
  /\ line.op = "join" => line.value \in {<<"AND">>, <<"OR">>}

IsText(t) ==
  /\ Len(t) \in Nat /\ DOMAIN t = 1 .. Len(t)
  /\ \A i \in DOMAIN t : IsLine(t[i])

ASSUME BuildAssumption ==
  /\ \A t \in Texts : IsText(t)
  /\ \A c \in Callables : IsCallable(c)
  /\ \A r \in Registries : IsRegistry(r)

VARIABLES
  text,      \* what the graph was parsed from, or <<>>
  decl,      \* the bodies, inputs and binds of its nodes
  registry,  \* name -> callable, for bodies and for guards
  touched    \* a name was registered again since the runner validated

bvars == <<vars, text, decl, registry, touched>>

-----------------------------------------------------------------------------
(* parse() *)

LinesOf(t, op) == {i \in DOMAIN t : t[i].op = op}

\* The last declaration of its kind wins.
Declared(t, op, n, default) ==
  LET own == {i \in LinesOf(t, op) : t[i].node = n}
  IN IF own = {} THEN default ELSE t[Max(own)].value

\* A line declares the nodes it mentions: its own, then an edge its destination.
NodesOf(t) == {t[i].node : i \in DOMAIN t} \cup {t[i].value[1] : i \in LinesOf(t, "edge")}

Mentions(t, n) ==
  {2 * i : i \in {j \in DOMAIN t : t[j].node = n}}
  \cup {2 * i + 1 : i \in {j \in LinesOf(t, "edge") : t[j].value[1] = n}}

EdgeOf(t, i) ==
  [src |-> t[i].node, dst |-> t[i].value[1], guarded |-> t[i].value[2] # "", pos |-> i]

GraphOf(t) ==
  LET edges == {EdgeOf(t, i) : i \in LinesOf(t, "edge")}
  IN [nodes  |-> NodesOf(t),
      order  |-> [n \in NodesOf(t) |-> Min(Mentions(t, n))],
      starts |-> {t[i].node : i \in LinesOf(t, "start") \cup {j \in LinesOf(t, "edge") : t[j].value[3]}},
      join   |-> [n \in NodesOf(t) |-> Declared(t, "join", n, <<"AND">>)[1]],
      edges  |-> edges,
      guard  |-> [e \in {f \in edges : f.guarded} |-> t[e.pos].value[2]]]

\* A dict keeps the place of the first entry for a key and the value of the last.
Dict(entries) ==
  LET Put(d, x) == IF \E y \in ToSet(d) : y[1] = x[1]
                     THEN [i \in DOMAIN d |-> IF d[i][1] = x[1] THEN x ELSE d[i]]
                     ELSE Append(d, x)
  IN FoldLeft(Put, <<>>, entries)

Keys(d) == {x[1] : x \in ToSet(d)}

\* Inputs that are not declared are the producers, in alphabetical order.
AutoInputs(g, n) ==
  LET producers == SelectSeq(Alphabet, LAMBDA p : p \in Producers(g, n))
  IN [i \in DOMAIN producers |-> <<producers[i], 0>>]

DeclaredInputs(t, n) ==
  IF \A i \in LinesOf(t, "inputs") : t[i].node # n
    THEN AutoInputs(GraphOf(t), n)
    ELSE Dict(Declared(t, "inputs", n, <<>>))

\* Bound producers become inputs, if they are not.
Inputs(t, n) ==
  FoldLeft(LAMBDA d, x : IF x[2] \in Keys(d) THEN d ELSE Append(d, <<x[2], 0>>),
           DeclaredInputs(t, n), Declared(t, "bind", n, <<>>))

DeclOf(t) ==
  [body   |-> [n \in NodesOf(t) |-> Declared(t, "body", n, <<"">>)[1]],
   inputs |-> [n \in NodesOf(t) |-> Inputs(t, n)],
   bind   |-> [n \in NodesOf(t) |-> Declared(t, "bind", n, <<>>)]]

\* Bind() wants entries, all with a field or all without, and no field or
\* producer twice.
IsBind(entries) ==
  /\ entries # <<>>
  /\ \A i, j \in DOMAIN entries :
       /\ (entries[i][1] = "") <=> (entries[j][1] = "")
       /\ i # j => entries[i][2] # entries[j][2] /\ (entries[i][1] # "" => entries[i][1] # entries[j][1])

\* Faulty variant: looks along the edges in the wrong direction.
FiresBeforeReversed(g, p, n) == \E c \in Producers(g, p) : n = c \/ p \in ReachableFrom(g, n)

\* "Upstream": p is a producer of n or has a path to it.
FiresBefore(g, p, n) == \E c \in Consumers(g, p) : n \in ReachableFrom(g, c)

Registered(g, d, r) ==
  /\ \A n \in g.nodes : d.body[n] # "" => d.body[n] \in DOMAIN r.bodies
  /\ \A e \in DOMAIN g.guard : g.guard[e] \in DOMAIN r.guards

\* parse() raises no ParseError.
Parses(t, r) ==
  LET g == GraphOf(t)
      d == DeclOf(t)
  IN /\ \A i \in LinesOf(t, "bind") : IsBind(t[i].value)
     /\ g.starts # {}
     /\ Registered(g, d, r)
     /\ \A n \in g.nodes : \A p \in Keys(d.inputs[n]) : p \in g.nodes /\ FiresBefore(g, p, n)

-----------------------------------------------------------------------------
(* The registry *)

\* classify(): a lone parameter v or view makes a callable view mode.
Classify(c) ==
  LET view == /\ Len(c.pos) = 1 /\ c.posonly = 0 /\ c.kwonly = {}
              /\ c.pos[1] \in {"v", "view"}
  IN [mode  |-> IF view THEN "view" ELSE "value",
      arity |-> IF c.star THEN {} ELSE {Len(c.pos)},
      names |-> ToSet(c.pos),
      state |-> "state" \in c.kwonly]

\* bind_entries()
BindEntries(d, n) ==
  IF d.bind[n] # <<>> THEN d.bind[n]
  ELSE [i \in DOMAIN d.inputs[n] |-> <<"", d.inputs[n][i][1]>>]

IsNamed(entries) == \E x \in ToSet(entries) : x[1] # ""
Fields(entries)  == {x[1] : x \in ToSet(entries)} \ {""}

\* Faulty variant: parameters beyond the fields of a named bind are accepted.
BodyFitsLoosely(sig, entries) ==
  sig.mode = "value" =>
    IF IsNamed(entries) THEN Fields(entries) \subseteq sig.names ELSE sig.arity \subseteq {Len(entries)}

BodyFits(sig, entries) ==
  sig.mode = "value" =>
    IF IsNamed(entries) THEN sig.names = Fields(entries) ELSE sig.arity \subseteq {Len(entries)}

GuardFits(sig) == sig.mode = "value" => sig.arity \subseteq {1}

\* _validate_registry_for_graph() raises no ValueError.
Validates(g, d, r) ==
  /\ Registered(g, d, r)
  /\ \A n \in g.nodes : d.body[n] # "" => BodyFits(Classify(r.bodies[d.body[n]]), BindEntries(d, n))
  /\ \A e \in DOMAIN g.guard : GuardFits(Classify(r.guards[g.guard[e]]))

-----------------------------------------------------------------------------
(* Calls *)

\* prepare_body_call(): the number of positional arguments and the keywords,
\* or that it raises.
BodyCall(sig, entries) ==
  LET tail == IF sig.state THEN {"state"} ELSE {}
  IN IF sig.mode = "view" THEN [raises |-> FALSE, args |-> 1, kws |-> {}]
     ELSE IF IsNamed(entries)
       THEN [raises |-> sig.state /\ "state" \in Fields(entries), args |-> 0, kws |-> Fields(entries) \cup tail]
       ELSE [raises |-> FALSE, args |-> Len(entries), kws |-> tail]

\* prepare_guard_call(): the output, or a view.
GuardCall == [raises |-> FALSE, args |-> 1, kws |-> {}]

\* What Python makes of it: every argument has a parameter, every parameter
\* without a default has an argument.  **kwargs takes the keywords that name no
\* parameter, or a positional-only one, but none for one that is taken.
Binds(c, call) ==
  LET ByName   == {c.pos[i] : i \in {j \in DOMAIN c.pos : j > c.posonly /\ j > call.args}}
      Optional == {c.pos[i] : i \in {j \in DOMAIN c.pos : j > Len(c.pos) - c.defaults}}
      Left     == {c.pos[i] : i \in {j \in DOMAIN c.pos : j > call.args}}
      Taken    == {c.pos[i] : i \in {j \in DOMAIN c.pos : j > c.posonly /\ j <= call.args}}
  IN /\ ~call.raises
     /\ call.args <= Len(c.pos) \/ c.star
     /\ call.kws \subseteq ByName \cup c.kwonly \/ (c.kwargs /\ call.kws \cap Taken = {})
     /\ Left \ Optional \subseteq call.kws \cap ByName
     /\ c.required \subseteq call.kws

Policy(d, n, p) ==
  <<p, IF p \in Keys(d.inputs[n]) THEN (CHOOSE x \in ToSet(d.inputs[n]) : x[1] = p)[2] ELSE 0>>

\* A by-name map is a set of <<name, <<producer, k>>>>.  All inputs of a node,
\* under the names of their producers.
OwnNames(d, n) ==
  {<<p, Policy(d, n, p)>> : p \in Keys(d.inputs[n]) \cup {x[2] : x \in ToSet(BindEntries(d, n))}}

\* What the fields of its bind stand for; the last entry for a field counts.
FieldNames(d, n) ==
  LET entries == BindEntries(d, n)
  IN {<<entries[i][1], Policy(d, n, entries[i][2])>> :
        i \in {j \in DOMAIN entries : /\ entries[j][1] # ""
                                      /\ \A k \in DOMAIN entries : entries[k][1] = entries[j][1] => k <= j}}

\* Faulty variant: producers win over fields.
BodyNamesProducersWin(d, n) ==
  OwnNames(d, n) \cup {y \in FieldNames(d, n) : \A x \in OwnNames(d, n) : x[1] # y[1]}

\* The names a body of node n may look up in its view: fields win.
BodyNames(d, n) ==
  FieldNames(d, n) \cup {y \in OwnNames(d, n) : y[1] \notin Fields(BindEntries(d, n))}

\* The names a guard behind node n may look up, but for n itself: entry by
\* entry the producer and the field, so that the last entry for a name counts.
ViewNames(d, n) ==
  LET entries == BindEntries(d, n)
      Names(i) == {entries[i][1], entries[i][2]} \ {""}
      Kept(i)  == {name \in Names(i) \ {n} : \A j \in DOMAIN entries : j > i => name \notin Names(j)}
  IN UNION {{<<name, Policy(d, n, entries[i][2])>> : name \in Kept(i)} : i \in DOMAIN entries}

-----------------------------------------------------------------------------

Plain(g) ==
  [body   |-> [n \in g.nodes |-> ""],
   inputs |-> [n \in g.nodes |-> <<>>],
   bind   |-> [n \in g.nodes |-> <<>>]]

Unary == [pos |-> <<"x">>, posonly |-> 0, defaults |-> 0, kwonly |-> {}, required |-> {},
          star |-> FALSE, kwargs |-> FALSE]

\* A graph is put together by hand and its guards are registered, or there is a
\* text.
BuildInit ==
  /\ suggestions = {} /\ front = {} /\ seen = {} /\ promoted = {}
  /\ touched = FALSE
  /\ \/ /\ graph \in Graphs
        /\ phase = "fresh"
        /\ text = <<>>
        /\ decl = Plain(graph)
        /\ registry = [bodies |-> <<>>,
                       guards |-> [name \in {graph.guard[e] : e \in DOMAIN graph.guard} |-> Unary]]
     \/ /\ text \in Texts
        /\ phase = "text"
        /\ graph = GraphOf(<<>>)
        /\ decl = DeclOf(<<>>)
        /\ registry \in Registries

Parse ==
  /\ phase = "text"
  /\ Parses(text, registry)
  /\ graph' = GraphOf(text)
  /\ decl' = DeclOf(text)
  /\ phase' = "fresh"
  /\ UNCHANGED <<suggestions, front, seen, promoted, text, registry, touched>>

\* The names the text refers to.
BodyKeys(t)  == {t[i].value[1] : i \in LinesOf(t, "body")}
GuardKeys(t) == {t[i].value[2] : i \in LinesOf(t, "edge")} \ {""}

Put(f, x, y) == [z \in DOMAIN f \cup {x} |-> IF z = x THEN y ELSE f[z]]

\* registry.body(name, c) and registry.guard(name, c), at any time.
Register(c) ==
  /\ \/ \E name \in BodyKeys(text) : registry' = [registry EXCEPT !.bodies = Put(@, name, c)]
     \/ \E name \in GuardKeys(text) : registry' = [registry EXCEPT !.guards = Put(@, name, c)]
  /\ touched' = (phase \in {"running", "over"})
  /\ UNCHANGED <<vars, text, decl>>

\* set_registry() of a runner.
SetRegistry ==
  /\ phase \in {"running", "over"}
  /\ \E r \in Registries :
       /\ Validates(graph, decl, r)
       /\ registry' = r
  /\ touched' = FALSE
  /\ UNCHANGED <<vars, text, decl>>

\* Runner(graph, registry, strict_deadlock=strict)
ConstructRunner(strict) ==
  /\ Validates(graph, decl, registry)
  /\ Construct(strict)
  /\ touched' = FALSE
  /\ UNCHANGED <<text, decl, registry>>

BuildNext ==
  \/ Parse
  \/ \E c \in Callables : Register(c)
  \/ SetRegistry
  \/ \E strict \in BOOLEAN : ConstructRunner(strict)
  \/ /\ CheckGraph \/ Tick \/ RunsOver \/ \E s \in suggestions : Promote(s)
     /\ UNCHANGED <<text, decl, registry, touched>>

BuildSpec == BuildInit /\ [][BuildNext]_bvars

-----------------------------------------------------------------------------
(* Properties *)

\* The parameters that need an argument, by position.
Mandatory(c) == {i \in DOMAIN c.pos : i <= Len(c.pos) - c.defaults}

\* What validation cannot see in a body: a keyword-only parameter without a
\* default, *args behind too many parameters, a positional-only parameter under
\* a named bind, unless it has a default and its name goes to **kwargs.
BodyHole(c, entries) ==
  \/ c.required \ {"state"} # {}
  \/ c.star /\ ~IsNamed(entries) /\ \E i \in Mandatory(c) : i > Len(entries)
  \/ IsNamed(entries) /\ c.posonly > 0 /\ (c.kwargs => \E i \in Mandatory(c) : i <= c.posonly)

\* In a guard also a keyword-only `state`, which guards do not get.
GuardHole(c) == c.required # {} \/ (c.star /\ \E i \in Mandatory(c) : i > 1)

\* Calls bind.  The calls of a runner fail for want of arguments only in the
\* ways construction and set_registry() cannot see, or after a name has been
\* registered again, which nobody validates ("a body's positional parameters
\* must match its bind exactly").
CallsBind ==
  phase \in {"running", "over"} /\ ~touched =>
    /\ \A n \in {m \in graph.nodes : decl.body[m] # ""} :
         LET c       == registry.bodies[decl.body[n]]
             entries == BindEntries(decl, n)
         IN Binds(c, BodyCall(Classify(c), entries)) <=> ~(Classify(c).mode = "value" /\ BodyHole(c, entries))
    /\ \A e \in DOMAIN graph.guard :
         LET c == registry.guards[graph.guard[e]]
         IN Binds(c, GuardCall) <=> ~(Classify(c).mode = "value" /\ GuardHole(c))

\* Inputs have fired.  Below a tree an AND-join does not fire before everything
\* the parser lets it read has ("so A fires before C"), in any run.
InputsHaveFired ==
  phase = "running" =>
    \A r \in front : \A m \in Fireable(graph, r.marking) :
      TreeAbove(graph, m) /\ graph.join[m] = "AND" => Keys(decl.inputs[m]) \subseteq r.fired

\* Names mean the same.  A name that the guards behind a node can look up is
\* what it is to the node's body ("fields win when both exist"), unless it is
\* a field and also the producer of a later entry.
NamesAgree ==
  \A n \in graph.nodes :
    LET entries == BindEntries(decl, n)
        Hidden(name) == \E i, j \in DOMAIN entries :
                          i < j /\ entries[i][1] = name /\ entries[j][2] = name
    IN \A y \in ViewNames(decl, n) : y \in BodyNames(decl, n) \/ Hidden(y[1])

=============================================================================
