----------------------------- MODULE BaseRunner -----------------------------
(***************************************************************************)
(* _BaseRunner of src/tickflow/runner.py and the parts of tick() and       *)
(* run_until_idle() that Runner and AsyncRunner share word for word.  The  *)
(* two runners differ in what happens between the tick-start hooks and the *)
(* commit of the new marking: modules Runner and AsyncRunner.              *)
(*                                                                         *)
(* A tick is a sequence of small steps because the code calls out between  *)
(* them: to hooks, node bodies and guards, and (asyncio) to other tasks.   *)
(* `pc` says where the one active call stands:                             *)
(*   user         no call is active, the user holds the runner             *)
(*   loop         run_until_idle is about to test its conditions           *)
(*   start_hooks  tick() computed the fireable set, start hooks run        *)
(*   phase_a      bodies run                                               *)
(*   phase_b      slots are written, guards run                            *)
(*   fire_hooks   the new marking is in place, on_fire hooks run           *)
(*   end_hooks    tick_count and status are set, end hooks run             *)
(*                                                                         *)
(* The history is the in-memory one (NullBackend, keep_records=True):      *)
(* `records` is RunState._records, a list whose order no definition here   *)
(* needs; `window` is RunState._edges, what it keeps in any mode.  The     *)
(* output of a body is reduced to what the runner tells apart: a value,    *)
(* None, an llm Failure ("failed") or an infrastructure one ("aborted").   *)
(***************************************************************************)
EXTENDS TickGraph

CONSTANTS Labels,        \* checkpoint labels
          MaxTicks,      \* bound on tick_count
          RunArgs,       \* the [max, pauses] run_until_idle is called with
          Outcomes,      \* what bodies may return
          MayRaise,      \* which callables may raise: a subset of {"body", "guard"}
          MaxRaises,     \* bound on the exceptions
          CancelAt,      \* the pcs at which cancel() is called
          ResetAt,       \* the pcs at which reset() is called
          CheckpointAt,  \* the pcs at which checkpoint() is called
          Remaps         \* the <<old, new>> graphs remap_graph() is called on

Failures == {"failed", "aborted"}

PCs == {"user", "loop", "start_hooks", "phase_a", "phase_b", "fire_hooks", "end_hooks"}

ASSUME BaseAssumption ==
  /\ MaxTicks \in Nat
  /\ RunArgs \subseteq [max : 0 .. MaxTicks, pauses : SUBSET Nat]
  /\ Outcomes \subseteq {"value", "none"} \cup Failures
  /\ MayRaise \subseteq {"body", "guard"}
  /\ MaxRaises \in Nat
  /\ CancelAt \subseteq PCs
  /\ ResetAt \subseteq PCs
  /\ CheckpointAt \subseteq PCs
  /\ Remaps \subseteq Graphs \X Graphs

VARIABLES
  graph, marking, tick_count, status,
  cancel_reason,  \* TRUE iff a reason is set
  records,        \* the recorded firings
  window,         \* of these the last two of each node, as they were recorded
  checkpoints,    \* label -> the snapshots saved under it (none or one)
  pc,
  loop,           \* the arguments of the active run_until_idle, {} or one
  fireable,       \* tick()'s local `fireable`
  m_next,         \* the engine's local `m_next`; equals marking outside a tick
  firings,        \* tick()'s local `firings`: the same objects as in records
  raised          \* how many exceptions have left a tick

run  == <<graph, marking, tick_count, status, cancel_reason, records, window, checkpoints>>
call == <<pc, loop, fireable, m_next, firings, raised>>
vars == <<run, call>>

Terminal == {"ABORTED", "CANCELLED", "FAILED"}
Statuses == {"IDLE", "RUNNING"} \cup Terminal

\* One NodeState.  edges_fired holds <<edge, value written>>; replayed tells a
\* record made when the same node already had one for the same tick; attempt
\* tells the objects of a tick that raised from those of the next attempt.
NodeState ==
  [tick : Nat, node : AllNodes, outcome : Outcomes,
   edges_fired : SUBSET (AllEdges \X BOOLEAN), replayed : BOOLEAN,
   attempt : Nat]

Snapshots ==
  [tick : Nat, marking : Marking, records : SUBSET NodeState, window : SUBSET NodeState,
   status : Statuses, cancel_reason : BOOLEAN]

-----------------------------------------------------------------------------

BaseInit ==
  /\ graph \in Graphs
  /\ marking = Bootstrap(graph)
  /\ tick_count = 0
  /\ status = "IDLE"
  /\ cancel_reason = FALSE
  /\ records = {}
  /\ window = {}
  /\ checkpoints = [l \in Labels |-> {}]
  /\ pc = "user"
  /\ loop = {}
  /\ fireable = {}
  /\ m_next = marking
  /\ firings = {}
  /\ raised = 0

-----------------------------------------------------------------------------
(* The operations of a user, a hook or another task *)

Cancel ==
  /\ pc \in CancelAt
  /\ status \notin Terminal
  /\ status' = "CANCELLED"
  /\ cancel_reason' = TRUE
  /\ UNCHANGED <<graph, marking, tick_count, records, window, checkpoints, call>>

\* Faulty variant: the reason survives.
ResetKeepsReason ==
  /\ pc \in ResetAt
  /\ status # "RUNNING"
  /\ status' = "IDLE"
  /\ UNCHANGED <<graph, marking, tick_count, cancel_reason, records, window, checkpoints, call>>

Reset ==
  /\ pc \in ResetAt
  /\ status # "RUNNING"
  /\ status' = "IDLE"
  /\ cancel_reason' = FALSE
  /\ UNCHANGED <<graph, marking, tick_count, records, window, checkpoints, call>>

Snapshot ==
  [tick |-> tick_count, marking |-> marking, records |-> records, window |-> window,
   status |-> status, cancel_reason |-> cancel_reason]

Checkpoint(l) ==
  /\ pc \in CheckpointAt
  /\ checkpoints' = [checkpoints EXCEPT ![l] = {Snapshot}]
  /\ UNCHANGED <<graph, marking, tick_count, status, cancel_reason, records, window, call>>

\* RunState.truncate_after on the in-memory records, and on the window, which
\* gets back nothing that was pushed out of it.
\* Faulty variant: off by one, the records of tick t + 1 survive.
TruncateAfterNext(recs, t) == {r \in recs : r.tick <= t + 1}

TruncateAfter(recs, t) == {r \in recs : r.tick <= t}

\* Faulty variant: resumes at the last tick that is done.
RestoreOffByOne(snap) ==
  /\ tick_count' = snap.tick - 1
  /\ marking' = snap.marking
  /\ m_next' = snap.marking
  /\ records' = TruncateAfter(snap.records, snap.tick - 1)
  /\ window' = TruncateAfter(snap.window, snap.tick - 1)
  /\ status' = IF snap.status \in Terminal THEN "IDLE" ELSE snap.status
  /\ cancel_reason' = (snap.cancel_reason /\ snap.status \notin Terminal)
  /\ UNCHANGED <<graph, checkpoints, pc, loop, fireable, firings, raised>>

Restore(snap) ==
  /\ tick_count' = snap.tick
  /\ marking' = snap.marking
  /\ m_next' = snap.marking
  /\ records' = TruncateAfter(snap.records, snap.tick - 1)
  /\ window' = TruncateAfter(snap.window, snap.tick - 1)
  /\ status' = IF snap.status \in Terminal THEN "IDLE" ELSE snap.status
  /\ cancel_reason' = (snap.cancel_reason /\ snap.status \notin Terminal)
  /\ UNCHANGED <<graph, checkpoints, pc, loop, fireable, firings, raised>>

Rollback(l) ==
  /\ pc = "user"
  /\ \E snap \in checkpoints[l] : Restore(snap)

\* Faulty variant: the slots of removed edges stay.
PortAllSlots(g, m) == [m EXCEPT !.armed = @ \cap g.starts]

\* Slots of edges both graphs have keep their value, new ones start False, and
\* only a start that was armed stays so.
PortMarking(g, m) ==
  [tokens |-> m.tokens \cap Slots(g), armed |-> m.armed \cap g.starts]

\* Record r was made before record q of the same node.
IsOlder(r, q) == r.tick < q.tick \/ (r.tick = q.tick /\ r.attempt < q.attempt)

\* Faulty variant: looks at the first entry of the window.
HasOutputFirst(n) ==
  \E r \in window :
     /\ r.node = n /\ r.outcome # "none"
     /\ \A q \in window : q.node = n => ~IsOlder(q, r)

\* RunState.last_output(n) is not None.
HasOutput(n) ==
  \E r \in window :
     /\ r.node = n /\ r.outcome # "none"
     /\ \A q \in window : q.node = n => ~IsOlder(r, q)

\* _warn_graph_changes refuses to promote a node whose last output is not None
\* to a start.
MayPromote(g) ==
  \A n \in (g.starts \cap graph.nodes) \ graph.starts : ~HasOutput(n)

KeepNodes(recs, nodes) == {r \in recs : r.node \in nodes}

\* Faulty variant: the verdict on the old graph stands.
RemapKeepsVerdict(g) ==
  /\ pc = "user"
  /\ <<graph, g>> \in Remaps
  /\ MayPromote(g)
  /\ graph' = g
  /\ marking' = PortMarking(g, marking)
  /\ m_next' = PortMarking(g, marking)
  /\ records' = KeepNodes(records, g.nodes)
  /\ window' = KeepNodes(window, g.nodes)
  /\ UNCHANGED <<tick_count, status, cancel_reason, checkpoints, pc, loop, fireable, firings,
                 raised>>

\* remap_graph ends in a reset(), which a running status refuses.
RemapGraph(g) ==
  /\ pc = "user"
  /\ <<graph, g>> \in Remaps
  /\ MayPromote(g)
  /\ graph' = g
  /\ marking' = PortMarking(g, marking)
  /\ m_next' = PortMarking(g, marking)
  /\ records' = KeepNodes(records, g.nodes)
  /\ window' = KeepNodes(window, g.nodes)
  /\ status' = IF status = "RUNNING" THEN status ELSE "IDLE"
  /\ cancel_reason' = (cancel_reason /\ status = "RUNNING")
  /\ UNCHANGED <<tick_count, checkpoints, pc, loop, fireable, firings, raised>>

-----------------------------------------------------------------------------
(* tick() and run_until_idle() *)

\* The head of tick(): refused when terminal.
EnterTick ==
  /\ status \notin Terminal
  /\ fireable' = Fireable(graph, marking)
  /\ pc' = "start_hooks"

CallTick ==
  /\ pc = "user"
  /\ tick_count < MaxTicks
  /\ EnterTick
  /\ UNCHANGED <<run, loop, m_next, firings, raised>>

CallRunUntilIdle ==
  /\ pc = "user"
  /\ \E a \in RunArgs : loop' = {a}
  /\ pc' = "loop"
  /\ UNCHANGED <<run, fireable, m_next, firings, raised>>

\* The while condition and the three breaks ahead of tick().
LoopStops(a) ==
  \/ tick_count >= a.max
  \/ tick_count \in a.pauses
  \/ status \in Terminal
  \/ status = "IDLE" /\ tick_count > 0 /\ ~HasPending(marking)

LoopTest ==
  /\ pc = "loop"
  /\ \E a \in loop :
       IF LoopStops(a)
         THEN /\ pc' = "user"
              /\ loop' = {}
              /\ UNCHANGED <<run, fireable, m_next, firings, raised>>
         ELSE /\ EnterTick
              /\ UNCHANGED <<run, loop, m_next, firings, raised>>

\* The engine is entered once the start hooks have run.
BeginEngine(phase) ==
  /\ pc = "start_hooks"
  /\ pc' = phase
  /\ m_next' = marking
  /\ UNCHANGED <<run, loop, fireable, firings, raised>>

NewRecord(n, outcome) ==
  [tick |-> tick_count, node |-> n, outcome |-> outcome, edges_fired |-> {},
   replayed |-> \E r \in records : r.tick = tick_count /\ r.node = n,
   attempt |-> raised]

\* RunState.record on the window: of two entries of a node the older makes room.
Pushed(w, new) ==
  {e \in w : ~\E f \in w, r \in new : r.node = e.node /\ f.node = e.node /\ IsOlder(e, f)}
     \cup new

\* The nodes fired in this tick.
Fired == {r.node : r \in firings}

Written(r) == {w[1] : w \in r.edges_fired}

\* The edges of firing r that Phase B has still to write.
Unwritten(r) == OutEdges(graph, r.node) \ Written(r)

IsFirst(e, E) == \A f \in E : e.pos <= f.pos

\* What may be written to an edge of firing r: a failed firing writes False
\* without asking the guard.
EdgeValues(r, e) ==
  IF r.outcome \in Failures THEN {FALSE} ELSE IF e.guarded THEN BOOLEAN ELSE {TRUE}

\* Phase B writes one out-edge of firing r, the next in the edge list.
WriteEdge(r, e, v) ==
  /\ e \in Unwritten(r)
  /\ IsFirst(e, Unwritten(r))
  /\ v \in EdgeValues(r, e)
  /\ m_next' = Produce(e, v, m_next)
  /\ LET s == [r EXCEPT !.edges_fired = @ \cup {<<e, v>>}]
     IN /\ firings' = (firings \ {r}) \cup {s}
        /\ records' = (records \ {r}) \cup {s}
  /\ UNCHANGED <<graph, marking, tick_count, status, cancel_reason, window, checkpoints,
                 pc, loop, fireable, raised>>

\* The engine returned: the runner installs the new marking.
Commit ==
  /\ pc = "phase_b"
  /\ \A r \in firings : Unwritten(r) = {}
  /\ marking' = m_next
  /\ pc' = "fire_hooks"
  /\ UNCHANGED <<graph, tick_count, status, cancel_reason, records, window, checkpoints,
                 loop, fireable, m_next, firings, raised>>

\* Faulty variant: every empty tick is a quiet end.
VerdictIdle ==
  IF \E r \in firings : r.outcome = "aborted" THEN "ABORTED"
  ELSE IF firings = {} THEN "IDLE" ELSE "RUNNING"

Verdict ==
  CASE \E r \in firings : r.outcome = "aborted" -> "ABORTED"
    [] firings = {} /\ HasPending(marking)      -> "FAILED"
    [] firings = {} /\ ~HasPending(marking)     -> "IDLE"
    [] OTHER                                    -> "RUNNING"

\* Faulty variant: the tick is judged but not counted.
SettleUncounted ==
  /\ pc = "fire_hooks"
  /\ status' = Verdict
  /\ pc' = "end_hooks"
  /\ UNCHANGED <<graph, marking, tick_count, cancel_reason, records, window, checkpoints,
                 loop, fireable, m_next, firings, raised>>

\* The on_fire hooks have run: advance the tick and judge the run.
Settle ==
  /\ pc = "fire_hooks"
  /\ tick_count' = tick_count + 1
  /\ status' = Verdict
  /\ pc' = "end_hooks"
  /\ UNCHANGED <<graph, marking, cancel_reason, records, window, checkpoints,
                 loop, fireable, m_next, firings, raised>>

\* tick() returns, to the user or to the loop, which stops on an empty tick
\* and on a terminal status.
EndTick ==
  /\ pc = "end_hooks"
  /\ IF loop = {} \/ firings = {} \/ status \in Terminal
       THEN pc' = "user" /\ loop' = {}
       ELSE pc' = "loop" /\ UNCHANGED loop
  /\ fireable' = {}
  /\ firings' = {}
  /\ UNCHANGED <<run, m_next, raised>>

\* Faulty variant: the engine worked on the runner's marking, not on a copy.
UnwindInPlace ==
  /\ raised < MaxRaises
  /\ raised' = raised + 1
  /\ pc' = "user"
  /\ loop' = {}
  /\ fireable' = {}
  /\ firings' = {}
  /\ marking' = m_next
  /\ UNCHANGED <<graph, tick_count, status, cancel_reason, records, window, checkpoints, m_next>>

\* An exception of a body or a guard is caught nowhere: it unwinds tick() and
\* run_until_idle(), and the locals are gone.
Unwind ==
  /\ raised < MaxRaises
  /\ raised' = raised + 1
  /\ pc' = "user"
  /\ loop' = {}
  /\ fireable' = {}
  /\ firings' = {}
  /\ m_next' = marking
  /\ UNCHANGED run

\* The user's other operation, Rollback, replaces the records.
UserStep ==
  \/ Cancel
  \/ Reset
  \/ \E l \in Labels : Checkpoint(l)
  \/ \E g \in Graphs : RemapGraph(g)
  \/ CallTick
  \/ CallRunUntilIdle

-----------------------------------------------------------------------------
(* The abstract net this implements *)

\* The ticks whose marking is in place.
Ticks == IF pc = "fire_hooks" THEN tick_count + 1 ELSE tick_count

\* The consumers a firing handed a token: the last edge to each decides.
HandedTo(r) ==
  {w[1].dst : w \in {x \in r.edges_fired : x[2] /\ IsLastEdge(Written(r), x[1])}}

\* The log of steps that a history of t whole ticks stands for.
LogOf(recs, t) ==
  [i \in 1 .. t |->
     LET now == {r \in recs : r.tick = i - 1}
     IN [n \in {r.node : r \in now} |->
           UNION {HandedTo(r) : r \in {q \in now : q.node = n}}]]

Log   == LogOf(records, Ticks)
Saved == [l \in Labels |-> {LogOf(snap.records, snap.tick) : snap \in checkpoints[l]}]

Net == INSTANCE PetriNet WITH log <- Log, saved <- Saved

\* The runner implements the net: whatever hooks, bodies, guards and users do
\* and wherever a checkpoint was taken, each tick amounts to one atomic firing
\* of exactly the nodes the history enables, and a rollback returns to a log
\* that was really reached.
ImplementsNet == Net!Spec

-----------------------------------------------------------------------------
(* Properties *)

TypeOK ==
  /\ graph \in Graphs
  /\ marking \in Marking
  /\ tick_count \in Nat
  /\ status \in Statuses
  /\ cancel_reason \in BOOLEAN
  /\ records \subseteq NodeState
  /\ window \subseteq NodeState
  /\ checkpoints \in [Labels -> SUBSET Snapshots]
  /\ pc \in PCs
  /\ loop \in SUBSET RunArgs
  /\ fireable \subseteq graph.nodes
  /\ m_next \in Marking
  /\ firings \subseteq records
  /\ raised \in Nat

\* The firings of the committed ticks.
Committed == {r \in records : r.tick < Ticks}

\* s has handed d a token that neither a later firing of s overwrote nor a
\* later firing of d consumed.
TokenDue(d, s) ==
  \E r \in Committed :
     /\ r.node = s
     /\ d \in HandedTo(r)
     /\ \A q \in Committed : q.node \in {d, s} => q.tick <= r.tick

\* No token from nowhere.  A True slot is always backed by a recorded firing
\* that delivered it and that nothing has consumed since, and a start that has
\* fired is never armed again; through rollbacks, through remaps and through
\* ticks that an exception broke off and that were repeated.
NoPhantomToken ==
  /\ \A slot \in marking.tokens : TokenDue(slot[1], slot[2])
  /\ \A r \in Committed : r.node \notin marking.armed

\* No token is lost.  Conversely, every token that a recorded firing delivered
\* is in its slot (as long as the graph is not replaced).
NoLostToken ==
  \A slot \in Slots(graph) : TokenDue(slot[1], slot[2]) => slot \in marking.tokens

\* No start is stranded.  armed_starts holds every start that has not fired yet
\* (engine.py: "Start nodes that have not yet fired"): it will get its shot.
NoStrandedStart ==
  graph.starts \ {r.node : r \in Committed} \subseteq marking.armed

\* A node has at most one record for a tick (state.py: "a node fires at most
\* once per tick"): firings_of() and A[k] count on it.
AtMostOncePerTick ==
  \A r, q \in records : r.tick = q.tick /\ r.node = q.node => r = q

\* No foreign token.  The marking speaks of the current graph only: a slot that
\* no edge feeds would be pending for ever, since no firing consumes it.
NoForeignToken ==
  marking.tokens \subseteq Slots(graph) /\ marking.armed \subseteq graph.starts

\* FAILED is the starved verdict: work is pending and nothing can fire, so no
\* further tick could have made progress.
StarvedVerdict ==
  status = "FAILED" => HasPending(marking) /\ Fireable(graph, marking) = {}

\* A cancelled run stays cancelled until reset, restore or remap clear the
\* reason: no tick in between may overwrite the status.
CancelSticks == cancel_reason => status = "CANCELLED"

\* A node with history does not become a start: such a start would silently
\* never fire (_warn_graph_changes).  The code looks at the two-entry window and
\* takes None for no history.  So what holds, as long as nothing is rolled back,
\* is this: a node that remap_graph promotes has no record, or has returned None
\* since its last record with a value; through repeated ticks after exceptions
\* and earlier remaps.
RemapRefusesHistory ==
  [][\A n \in (graph'.starts \cap graph.nodes) \ graph.starts :
        \A r \in records : r.node = n =>
           \E q \in records : q.node = n /\ q.outcome = "none" /\ ~IsOlder(q, r)]_vars

MayLeave(a) ==
  \/ status \in Terminal
  \/ tick_count \in a.pauses
  \/ tick_count >= a.max
  \/ ~HasPending(marking)
  \/ "end_hooks" \in ResetAt /\ Fireable(graph, marking) = {}

\* run_until_idle never walks away from work.  When it returns by itself (not
\* through an exception) the run is terminal, or it stands at a pause or at
\* the end of its budget, or no work is pending, or at least (where a tick-end
\* hook may reset() a starved run) none that could be done.
LoopVerdict ==
  [][(loop' = {} /\ pc \in {"loop", "end_hooks"}) => \A a \in loop : MayLeave(a)]_vars

=============================================================================
