# tickflow, specified

TLA+ modules, TLC runs and TLAPS proofs about `src/tickflow`, a Python engine
that runs a graph of nodes as a Petri net in synchronous steps ("ticks").

Contents: [the system](#the-system) · [inventory](#inventory) ·
[modules](#modules-and-how-they-correspond-to-the-code) ·
[runs](#what-each-run-checks) · [bounds](#bounds-and-why-they-are-enough) ·
[fairness](#fairness) · [proofs](#what-is-proved) ·
[disagreements found](#where-code-and-documentation-disagree) ·
[not modelled](#not-modelled) · [plan](#plan)

## The system

A **graph** (`ir.py`) has nodes, some of them *starts*, and directed edges that
may carry a guard. A **marking** (`engine.py`) holds one boolean *slot* for each
(consumer, producer) pair and the set of *armed* starts, those that have not
fired. `engine.tick` fires every node whose join (AND, OR) is satisfied: phase A
runs the bodies, records the firings and resets the slots used; phase B asks
guards and writes True or False into the consumers' slots. A body that returns a
`Failure` writes False to all of its edges; an infrastructure failure also ends the
run. Exceptions are caught nowhere.

A **runner** (`runner.py`, `async_runner.py`) owns graph, marking, tick count,
status and history, calls the engine, judges each tick (RUNNING, IDLE, FAILED
for a starved run, ABORTED), calls hooks at three points of a tick, and offers
cancel, reset, checkpoint, rollback_to, snapshot/restore and remap_graph.

A **history** (`state.py`, class `RunState`) keeps, per node, a window of the
last two outputs, a counter of firings and the latest mutable state; in memory
it also keeps all records, on disk it hands them in one batch per tick to a
**backend** (`persistence.py`: Null, Json, Sqlite). Inputs (`latest`, `A[k]`)
are read from the window and, for old firings, from the backend.

`parser.py` reads graphs, `checker.py` judges them statically, `registry.py`
classifies and validates the callables, `views.py` adapts inputs for bodies,
`cli.py` wraps it all.

Interactions: runner → engine (a call per tick) → bodies and guards (callbacks
or awaited coroutines) → hooks (callbacks that may cancel or checkpoint);
runner → history → backend (flush, snapshot); history ← backend (rebuild on
restore, cold reads); with asyncio any other task may cancel or checkpoint at
every `await`.

## Inventory

| component | state | operations | what is hard | what makes it correct |
|---|---|---|---|---|
| ir | nodes, starts, edges, adjacency index | queries | parallel edges share a slot | – |
| engine | `Marking`, the engine's copy `m_next` | `bootstrap`, join test, `tick` | order of writes, failures, exceptions half way | a tick is one atomic step of the net |
| runner | graph, marking, tick count, status, reason | `tick`, `run_until_idle`, `cancel`, `reset`, `checkpoint`, `rollback_to`, `restore`, `remap_graph` | callbacks between three partial commits; rollback; graph swap | marking and history agree; verdicts are true; calls return |
| async runner | as above, and coroutines in flight | the same, awaited | answers in any order, interleaved writes, coroutines that outlive their tick | the same net, whatever the order |
| state | window, counters, states, records, pending batch, audit ceiling | `record`, `flush_firings`, `truncate_after`, `resolve`, `audit`, snapshot data | layers rewound from different sources | all layers speak of the same history |
| persistence | rows, snapshots, checkpoints; with SQLite one connection, its open transaction and a lock | append, save, list, `firings_of`, `firing_at`, `latest_firings` | crash inside a write, failed saves, two threads, rows of abandoned ticks | what was acknowledged is there; all backends answer alike; a resumed run equals the one that died |
| checker | none (fixpoint) | `check` | cycles, joins behind guards | neither rejects a live graph nor passes a dead one |
| parser | none | `parse` | resolution of references: bodies, guards, what an input may read | what an input reads can have fired |
| registry | tables of callables | `body`, `guard`, classify, validate (in the runner) | names registered again; signatures Python binds in more ways than the classification knows | what validates can be called |
| views | none | read-only adapters | two name maps built separately | a name means the same to a guard and to the body before it |
| cli | none | argument parsing, printing | – | – |

The hazards, each at its line and with the properties that watch it, are in
`PROJECT.json`.

## Modules and how they correspond to the code

```
TickGraph ── Checker ── Build       FiringLog ─┬─ RunState ── Dispatch
    │                                          ├─ Store           (abstract)
    ├─ PetriNet                  (abstract)    │    ▲ implements
    │            ▲ implements                  └─ Backends
    └─ BaseRunner ─┬─ Runner      (engine.tick)
                   └─ AsyncRunner (async_tick)

BaseRunner_proofs ─┬─ AsyncRunner_proofs     FiringLog_proofs ─┬─ RunState_proofs
                   └─ Runner_proofs ───────────────────────────┤
                                                               ├─ Backends_proofs
PetriNet_proofs                                                └─ Build_proofs

MCGraphs and one MC module for each checked module
```

* **TickGraph** – the graph and the pure functions of the engine: adjacency,
  `Bootstrap`, `JoinSatisfied`, `Fireable`, `Consume`, `Produce`. A graph is a
  record; `order` is declaration order and `pos` the position in the edge list,
  the two orders the code depends on. A marking keeps the True slots only, since
  the code reads a missing slot as False.
* **PetriNet** – what the runners promise, on purpose without slots: the state is
  the log of steps, and marking and enabled nodes are read off it. A step fires
  exactly the enabled nodes.
* **BaseRunner** – `_BaseRunner` and the text `Runner.tick`/`AsyncRunner.tick`
  share. A tick is cut into steps wherever the code calls out; `pc` names the
  place (start hooks, phase A, phase B, on_fire hooks, end hooks), so that hooks
  and other tasks act exactly where they can. Actions: `Cancel`, `Reset`,
  `Checkpoint`, `Rollback`, `RemapGraph`, `CallTick`, `CallRunUntilIdle`,
  `LoopTest`, `BeginEngine`, `Commit`, `Settle`, `EndTick`. Outputs are reduced
  to value, None, failed, aborted; guards answer either way. `CancelAt`, `ResetAt`
  and `CheckpointAt` name the places of a tick at which a hook, a body or another
  task may call the operation. `window` holds the last two records of each node as
  they were recorded, which is where `remap_graph` looks for an output; as in the
  code it is cut by a restore, but not refilled. `Log`, `LogOf` and
  `HandedTo` are the refinement mapping: the log of a run is read off its
  recorded firings, with the tick counted as done from the commit on.
  Python tells record objects apart by identity; here `attempt`, the number of
  exceptions that had left a tick when the record was made (`raised`), tells the
  records of a tick that raised from those of the next attempt at it. `MaxRaises`
  bounds the exceptions.
* **Runner** – `engine.tick`: bodies one after the other in declaration order,
  each recorded at once, then edges firing by firing; `BodyRaises` and
  `GuardRaises` unwind from the middle.
* **AsyncRunner** – `async_tick`: `gather` of bodies that answer in any order,
  records made when all have answered, `gather` of edge writers that interleave.
  As `gather` does not cancel, an exception leaves `orphans` (bodies) and
  `strays` (edge writers with the edges left to write) that go on during later
  ticks.
* **RunState** – the history by itself: any nodes may fire in a tick, or none, an output
  is represented by the firing that made it, but for the outputs None of the
  firings in `mode.silent`: read back from a backend these are taken for Missing,
  read from the window they are not (`Output`, `Index`). Layers (`edges`, `fire_counts`,
  `state`, `records`, `pending`, `audit_ceiling`), backend (`rows`, `snapshots`),
  and what the runner does with them: record, flush, snapshot, checkpoint,
  rollback, a crash at any point (also with part of a batch written) and the
  resumption from the latest tick, a snapshot taken to a runner with a backend
  of its own. `mode` says what kind of run it is (backend, `keep_records`) and
  what its surroundings do (pure replays, checkpoints inside ticks, crashes,
  forks); `Promised` are the kinds whose layers the code can keep in agreement.
  `timeline` is a history variable, the ideal record the layers are
  compared with.
* **Dispatch** – RunState's ticks together with what callables are given to
  read. Nodes do not declare inputs here: every producer is resolved for every
  consumer under `latest` and every `A[k]`. `given` is what the bodies of the
  tick got from the synchronous engine, which resolves a node's inputs when its
  turn comes; `shared` is what asyncio would have given them, where every body
  starts before any firing is recorded; `GuardView` is what guards get, resolved
  anew at the end of phase A by both engines.
* **FiringLog** – what history and backends ask of a sequence of firings: those of
  a node, those up to a tick, the first for each tick and node; all by `Select`, the
  elements at some positions, in order.
* **Store** – the Backend protocol as an atomic store, which is what `NullBackend`
  does with its dicts.
* **Backends** – `JsonBackend` and `SqliteBackend`, and sessions that save their
  ticks on them: firings (a line or a row each), then a snapshot; checkpoints
  under labels. `disk` is what is stored. A save on files takes effect as a whole
  (`Applied`) or is cut short anywhere: some of the lines (`Parts`), part of a line, a
  line without its newline, part of a file (`Torn`). On SQLite a thread takes `lock`
  and executes its statements on `staged`, which is `disk` with the changes of the
  connection's open transaction; `Commit` then makes `staged` permanent, whoever
  executed what is in it. A failed save is swallowed by the runner and, with SQLite, may
  leave some of its statements in the open transaction. A crash
  takes all sessions down. `Resume` restores the snapshot of `latest_tick`, as the README
  of the repository does; if `load_snapshot` raises for it, going on is up to the
  user, and any snapshot that loads or a new run will do (`Restorable`). The
  queries are modelled one by one. `acked` and `harmed` are history variables: what
  a caller was told is saved (for a label also what saves begun since may have
  stored), and the writes a fault has spoiled.
* **Build** – from a text to a runner, around Checker: `parse()` on recognized
  lines (`GraphOf`, `DeclOf`, `Parses`), binds, `classify()`, the validation of
  construction and `set_registry()`, names registered again at any time, and the
  calls of bodies and guards against Python's own rule for binding arguments
  (`Binds`). A callable is its list of parameters, `*args` and `**kwargs` included. `BodyNames` and `ViewNames` are
  the two maps in which bodies and guards look up names.
* **Checker** – `check()` (branches cut at merges, one branch per guard name),
  the list of suggestions the user works through, and the runner's constructor
  that refuses; the cycle warnings. Then all runs of the net at once: `front` is
  the set of runs (marking, nodes fired and nodes failed) one tick further under
  every answer of every guard, provided the guards of a splitter exclude each other,
  which is what the check is made for, and under every Failure, which writes False to
  edges without a guard, too. So "no run can fire this join" is a state predicate.

Operators marked "Faulty variant" are plausible bugs of the definition below
them; each shows that a property can fail (`mutants` in `PROJECT.json`).

BaseRunner uses the in-memory history (NullBackend, `keep_records=True`) in the
form of a set of records and the window; what inputs are read from, the counters
and the backend are RunState's business; what a firing or a snapshot is on disk is that of Backends, in which the
nodes of a tick follow a plan. The first two meet in `TruncateAfter`, and in
`AtMostOncePerTick`, which RunState relies on and BaseRunner establishes; the
latter two in FiringLog: RunState takes from its backend what `OrdinalsHold` and
`QueriesAgree` show of the real ones.

## What each run checks

Passing runs:

| run | question | properties |
|---|---|---|
| `net` | is the abstract net prompt, and does an acyclic graph come to rest? | `NoIdleGap`, `AcyclicRunsDry` |
| `runner` | does the synchronous runner keep marking, history and verdict consistent, and is it that net? Checkpoints at every point of a tick but the on_fire hooks, reset() at every point, rollback, failures, cancellation between ticks, pauses | `NoPhantomToken`, `NoLostToken`, `AtMostOncePerTick`, `CancelSticks`, `ImplementsNet`, `TypeOK` |
| `runner_faults` | what survives raising bodies and guards, outputs None, cancel() and reset() from hooks and bodies, and graph swaps? | `StarvedVerdict`, `NoForeignToken`, `NoPhantomToken`, `CallsReturn`, `LoopVerdict`, `RemapRefusesHistory` |
| `async` | is the asyncio runner the same net under every interleaving? | `ImplementsNet` |
| `async_faults` | can coroutines that outlive their tick do harm, also with rollbacks? | `NoPhantomToken`, `RecordedWhole`, `CallsReturn`, `AsyncTypeOK` |
| `build` | does the static check say what the net does? can what the parser and the validation let through be called, and does it read what it means to? | `NoSilentDeadlockInTrees`, `NoFalseAlarm`, `PromotionCures`, `WarnedCyclesLoop`, `UnwarnedRunsEnd`, `CallsBind`, `InputsHaveFired`, `NamesAgree` |
| `history` | do the layers agree through flushes, empty ticks, rollbacks, crashes and forks, and do bodies and guards read from them the same with both engines? | `LayersAgree`, `ReadsRight`, `AuditRight`, `EnginesAgree`, `GuardSeesBody`, `RunStateTypeOK` |
| `backends` | what is left on disk after failed saves, crashes in the middle of a write, restarts, rollbacks and replays, and do both backends find the same in it? | `FiringsSurvive`, `OrdinalsHold`, `QueriesAgree`, `CrashCostsOneTick`, `CheckpointsSurvive`, `SavesAtomic`, `BackendsTypeOK` |

Violations (one disagreement each, see below): `lost_cancel`,
`hook_checkpoint`, `future_read`, `missed_deadlock`.

What the passing runs show: apart from the disagreements below, rollback
returns to a state the run was really in; a tick that an exception broke off and that is
repeated leaves marking and history in step (`NoPhantomToken` in `runner_faults`); the order in which asyncio tasks run
makes no difference to marking or history; a FAILED run really is starved;
`run_until_idle` always returns, and never walks away from work unless a tick-end hook
has reset a starved run, whose work nobody can do; a graph swap
leaves no token behind that nobody consumes; below splitters whose branches
do not merge before a join the static check flags exactly the joins that cannot
fire, and promotion cures them; a session that died anywhere in a tick resumes with
a history that agrees with the one it had at that tick; a `latest` input is the same for every body and guard of a
tick and for both engines, and an `A[k]` input differs only at the index of a
firing made in that very tick or of the one that this firing pushed out of the window
(which is gone without a backend, and with one reads Missing if its output was
None); an acknowledged firing can be read back unless a line
before it was cut short, `A[k]` means the same on disk after any number of replays,
a crash costs at most the tick under way, a label loads what was last saved under it; a SQLite connection shared by
threads stores each call whole or not at all, as long as no statement fails; a
validated call fails to bind only through the parameters `BodyHole` and `GuardHole`
list.

## Bounds and why they are enough

* `MaxTicks` bounds `tick_count`: 4 for the net and the history, 3 for the
  runner, `async` and `backends`, 2 for `async_faults`. A token lives from one tick to a
  later one; three ticks let it be produced, wait for its join, be consumed and
  let its producer fire again. Two ticks are enough for a stray to write during
  the next tick. Four ticks overfill the window of two, so that a rollback can
  empty it, halve it or leave it whole.
* Graphs: `net` takes every two-node graph with start `a` and every three-node
  acyclic graph (all joins, all guards, all start sets) and the loop shapes; the
  runners take shapes from examples and tests, chosen so that each of these
  happens: starvation behind a guard, an OR-join fed at different ticks, an
  AND-join fed at different ticks, self loop, start inside a cycle, parallel
  edges, two producers for one consumer in the same tick.
* `MaxRaises`: 2 in `async_faults`, so that what the first exception leaves behind
  meets a second attempt that raises too; 1 in `runner_faults`, where nothing of an
  attempt goes on after it, and a remap or a second tick follows.
* `history`: one firing of each node puts out None, early enough to leave the
  window within the bound.
* `backends`: `MaxFaults` 2 (a cut line and what it spoils; a failed transaction
  and a crash before the next commit), `MaxRollbacks` 1, and setups of one or two
  ticks with two labels, of three ticks of which the last is empty, and of two
  threads on one connection. The two nodes and the batch of two are what is needed
  to cut a batch in its middle.
* `build`: every forest of three nodes, joined in any way by a fourth, that reads any
  node or binds any two of them; and one body with two inputs and a guard behind
  it, under 13 declarations, with 19 shapes of parameter lists registered for either.
* One checkpoint label in the runners: a second only lets two checkpoints coexist, and a
  rollback replaces the state by one of them without looking at the other.
* `RunArgs`: a budget equal to the bound, with and without a pause after tick 1.
* `MaxRestores` 2 in the history: a restore, a replay and a restore of what the
  replay left. Checkpoints that could not be restored any more within this
  bound are not taken.
* Checker: every forest on four nodes (any parent, any guards) with a splitter
  and a join below any two or more of them; the acyclic graphs on four nodes below
  one start that have a suggestion; nested splitters that meet in one join; every
  graph on two nodes with one start, and a self loop at the end of a cycle that
  may lead back into it.
  `TreeAbove` with `PlainSplits` (no deadlock missed) or `SingleEdges` (no false alarm) are
  the conditions, and outside them the properties do fail (see below); within them five nodes hold every relative
  position of a splitter and two producers: adjacent, a chain apart, under
  different roots, below a second splitter.
* Swaps of `remap_graph`: a node removed, a start added, a node promoted, a
  pipeline exchanged for a cycle and back.

## Fairness

`FairSpec` assumes weak fairness of `TickStep`, the steps of a call under way:
callbacks return (they are ordinary functions) or, with asyncio, awaited bodies
complete and the event loop runs ready tasks. Nothing is assumed of users, hooks
or orphans. `CallsReturn` says that under this every `tick()` and
`run_until_idle()` returns, on cyclic graphs too; what makes it true is the
budget (`max_ticks`) together with a tick that always counts.

## What is proved

For every set of well-formed finite graphs and all values of the other
constants (`GraphsAssumption`, `BaseAssumption`, `MaxTicksAssumption`, `CheckerAssumption`,
`BuildAssumption`, `RunStateAssumption`, `BackendsAssumption`, which TLC evaluates on the
checked instances). They say of the data what the program's types say (a graph's
edges join its nodes, every edge has its place in the edge list and a guard if it
is guarded, every node is declared once, counters are numbers); `RunStateAssumption`
also confines `Modes` to those `Promised`, the kinds of run whose layers the code can keep in
agreement.

The runners and the net:

| theorem | statement | argument |
|---|---|---|
| `PetriNet_proofs!GapFreedom`, `AcyclicTermination` | `NoIdleGap`, `AcyclicRunsDry` | `Inv`: for the log and each saved log, *GapFree* alone is not inductive: *Fresh* says that whatever is enabled got a token in the last step, because otherwise it was enabled before and fired; *Deep* bounds the tick of a firing by the node's depth under any depth function |
| `Runner_proofs!TypeCorrect`, `AsyncRunner_proofs!AsyncTypeCorrect` | `TypeOK`, `AsyncTypeOK`, unconditionally | with `NoLocals`: between calls `tick()` has no locals, or a rollback would leave `firings` pointing at dropped records. The steps both engines share are done once, in BaseRunner_proofs |
| `Runner_proofs!NoTokenFromNowhere`, `NoTokenLost`, `NoStartStranded`, `OneRecordPerTick` | `NoPhantomToken`, `NoLostToken`, `NoStrandedStart`, `AtMostOncePerTick`, if `Undisturbed` | `TokenInv`: outside a tick the marking is exactly what the records amount to, inside it `m_next` is that marking, less what the nodes fired so far consumed, with the edges written so far; the same holds for every checkpoint cut at its tick |
| `Runner_proofs!RunnerImplementsNet` | `ImplementsNet`, if `Undisturbed` | by `TokenInv` the marking is the one read off the log; `TickInv` adds that a tick under way fires exactly what its marking enables and has written only values of its edges (`EdgeValues`), so the commit is a step of the net; a rollback is one, since the log cut at a tick is the log of the checkpoint; all else stutters |
| `AsyncRunner_proofs!TickRecordedWhole` | `RecordedWhole`, if the graph stays | `WholeInv`: the nodes recorded for a tick not yet counted are none or exactly those the marking enables, so a tick that is repeated after an exception finds the same marking and adds the same nodes; rests on `Detached` (below) |
| `AsyncRunner_proofs!AsyncNoTokenFromNowhere`, `AsyncImplementsNet` | `NoPhantomToken`, `ImplementsNet`, if `GuardsReturn` | the same `TokenInv` and lemmas (BaseRunner_proofs); in addition `Detached`: the firings the active tick holds were recorded in the present attempt, those of strays in earlier ones; `Gathered`: with guards that return no writer outlives its tick, and nothing is recorded before every body has answered, once |
| `Runner_proofs!FailedMeansStarved` | `StarvedVerdict`, unconditionally | `StarvedInv`: FAILED is only seen at rest, and in an empty tick the marking is the one the fireable set was computed from |
| `Runner_proofs!CancelHolds` | `CancelSticks`, if cancel() is only called between ticks, by the loop's caller or by end hooks | `CancelInv`: with a reason set no tick is under way |
| `Runner_proofs!NoTokenForeign` | `NoForeignToken`, if there are no checkpoints or no remaps | `OwnTokens` for marking, `m_next` and each checkpoint; with both, it is false (see below) |
| `Runner_proofs!LoopReturnsRightly` | `LoopVerdict`, unconditionally | `LoopInv`: at the end hooks of an empty tick the status is terminal or nothing is pending, or a hook has reset it and nothing is fireable (`StarvedInv`), for the tick was judged by the marking the hooks leave alone |
| `Runner_proofs!RemapsRefuseHistory` | `RemapRefusesHistory`, if there are no rollbacks (`Labels = {}`) | `WindowInv`: no record is of a later tick than the present one (`InThePast`); what is in the window was recorded (`Backed`); each node with a record has its newest one in the window, and whatever the window has dropped is older than what it holds (`Covered`), so a promoted node's window ends with its last firing, and the check reads that one |

`Undisturbed` is: no callable raises, no checkpoint from an on_fire hook, no
remap. `GuardsReturn` is the same, except that bodies may raise. Each condition is
needed: a body that raises leaves half a tick recorded by the synchronous engine,
a guard that raises leaves a whole one recorded and not committed by either; the
run `hook_checkpoint` shows what happens without the second; a remap adds starts
that are not armed and drops records.

History and backends:

| theorem | statement | argument |
|---|---|---|
| `RunState_proofs!RunStateTypes`, `LayersAlwaysAgree`, `AuditAlwaysRight` | `RunStateTypeOK`, `LayersAgree`, `AuditRight` | `HistoryInv`: the layers of the run, and of every snapshot and checkpoint kept of it, are those of its own timeline. With a backend this is not inductive, as a rollback abandons rows that stay on disk; what makes it so is that `plan` fixes one canonical history: every timeline is a whole-tick part of it (`TimelineWhole`, `KeptWhole`), and the rows list it in order but for repetitions (`JournalOK`), so that the first row for a tick and node is the right one |
| `RunState_proofs!ReadsAlwaysRight` | `ReadsRight`: what is read is what the timeline has there, but for an older output None, which reads Missing | from `HistoryInv`: the window is the end of the timeline, and what it no longer holds is at the same place among the rows |
| `RunState_proofs!EnginesAlwaysAgree`, `GuardsAlwaysSeeBody` | `EnginesAgree`, `GuardSeesBody` | `GivenOK`: what a body was given differs from what all would have been given at the start of the tick only for producers declared before it and at a `Shifted` index, and what it was given of those is still there |
| `Backends_proofs!BackendsTypes` | `BackendsTypeOK` | `BackendsInv`, the invariant of all the rows below, says of each session which call it is in (`InCall`), how far it has come (`Position`), and how disk and transaction relate to what was acknowledged and what a fault has spoiled (`StoreOK`); who holds the lock has executed its call (`LockOK`) |
| `FiringsAlwaysSurvive`, `CheckpointsAlwaysSurvive` | `FiringsSurvive`, `CheckpointsSurvive` | `Survives`: firings lost and a line that may yet spoil one are no more than the faults; a lost one is the first of its tick, as only a line without newline can spoil it; `Within`: the open transaction contains the disk; `Kept`: what disk and transaction have under a label is one of the ticks it may load, unless a fault cut the file short |
| `CrashAlwaysCostsOneTick` | `CrashCostsOneTick`, for any number of faults, rollbacks and sessions | `Position`: each tick done has its snapshot whole, or the fault of its save on record; `Kept`: a torn snapshot has its fault on record, too, and while no snapshot was hit and nobody rolled back (`Straight`), none is ahead of the session |
| `OrdinalsAlwaysHold` | `OrdinalsHold` | `History`: before a firing in the log come those of its node in earlier ticks; so the first occurrences are sorted, and two sorted sequences with the same elements are equal |
| `QueriesAlwaysAgree` | `QueriesAgree` | from the types alone: grouping by tick and keeping the first row finds what a loop with a set of ticks seen finds, in the same order |
| `SavesAlwaysAtomic` | `SavesAtomic`, the refinement of Store | `Pending`: as long as nothing is harmed the transaction is the call under way or nothing, so a commit is one atomic save, and every other step that counts is a stutter |

From the text to the verdict of the static check, on every graph:

| theorem | statement | argument |
|---|---|---|
| `Build_proofs!ValidatedCallsBind` | `CallsBind`, unconditionally | `BuildInv`: registries are well-formed, and while a runner lives and no name was registered again, its registry validates; the rest is counting parameters (`Positional`, `Named`, `ViewMode`) |
| `NamesAlwaysAgree` | `NamesAgree` | among the entries of a bind the last that has a name decides, for the guard; for the body the last field of that name, or else a producer; they differ when the last is a producer behind a field |
| `InputsFireBefore` | `InputsHaveFired` | `GraphInv`: parsed and promoted graphs are graphs, and what a node may read is upstream of it; `CausedOK`: an AND-join that fired had all producers fire, any other node one; along a path in a tree this reaches every ancestor |
| `FlagsAreDeadlocks` | `NoFalseAlarm` | `OnceOK`: below a tree a node fires once; `ExclusiveOK`: of two edges of a splitter with different guards at most one has delivered; so two branches the check calls exclusive never both deliver |
| `DeadlocksAreFlagged` | `NoSilentDeadlockInTrees` | the converse: for a join that is not flagged a choice of guard answers is fixed once and for all, each splitter answering as the edge that leads to the join asks; a run with as many firings above the join as possible that follows it must fire the join |
| `PromotionAlwaysCures` | `PromotionCures` | `SeenInv`: every run seen but not at the front has its successors among those seen; so where a producer is about to fire, one of the runs seen is that in which its guard held and the token arrived, and the next one fires the join |
| `WarnedCyclesNeverRest` | `WarnedCyclesLoop`: a run in which no body of the cycle has failed | `LoopOK`: once a node of the cycle has fired, and as none has failed, some node of it holds a token from another, and is fireable |
| `UnwarnedRunsDoEnd` | `UnwarnedRunsEnd` | guards that always answer no: what fires next lies behind the unguarded edges of what fires now. The smallest set of nodes that is closed under those edges and holds what some run is about to fire is empty, or it would be its own image and contain a component with a cycle of unguarded edges, which is warned of unless it has more edges than nodes |

The checker's `Reached` is a least fixpoint, so the last five rest on lemmas that
characterise it as the smallest closed set, by the cardinality of its
approximations. Induction over numbers is replaced by the least element of a set of numbers
(`NatMin`, `UpInduction` in FiringLog_proofs, from the well-foundedness of `<`) or the
largest (`BoundedMax`, `FiniteMax` in Build_proofs). FiringLog_proofs has the lemmas on
`Select`, the elements of a sequence at given positions, which everything about
histories and rows is built on.

Every invariant of every passing run has a theorem, the three action properties
and two refinements too. Only model-checked are

* `CallsReturn`: liveness under fairness is beyond the prover;
* `NoPhantomToken` with asyncio guards that raise (run `async_faults`): the writers
  that outlive their tick would need an invariant over the rest of every stray.
  Conversely, `AsyncImplementsNet` covers bodies that raise, for which the run
  `async` would be too large;
* the disagreements, which are violations and have counterexamples, not proofs.

## Where code and documentation disagree

Each has a run that finds it; the last two were also reproduced by running the
library.

1. **Lost cancel** (`lost_cancel`). The tick assigns its own verdict when it
   settles, so `cancel()` from a start hook, body, guard, on_fire hook or another
   task during a tick has no effect but the reason.
2. **Checkpoint in on_fire** (`hook_checkpoint`). It pairs the new marking with
   the old tick number; restoring it drops the firings behind its tokens.
3. **Reading the future** (`future_read`). After a rollback on a persistent
   backend `A[k]` finds rows of the rolled-back ticks.
4. **Missed deadlock** (`missed_deadlock`). `check()` passes joins that can never
   fire: when one branch is the splitter's own edge to the join, when two edges of
   a splitter share a guard name (only the first counts), and when a branch goes
   on past a merge.

Observed without a run of their own:

* A runner on its own backend that took over a snapshot forgets everything older
  at its next restore, once it has a row.
* When a body raises, the firings before it stay recorded; the retried tick
  records them again, the window fills with entries of one tick and `latest` may
  read Missing (`state.py:248` counts on one firing per tick). The asyncio runner
  records only after all bodies have answered, so there only a raising guard
  leaves records behind, those of the whole tick (`RecordedWhole`).
* The check also flags joins that do fire: slots persist, so with the splitter in
  a loop the other half comes in a later round, and a producer fed from elsewhere
  does not depend on the splitter; and where a splitter has two edges to one node, the node gets
  its token by either, although the check follows one (`SingleEdges`).
* `check_unguarded_cycles` looks at whole components, so an unguarded cycle next
  to a guarded edge of the same component is not reported, and a reported cycle
  of AND-joins may come to rest although the warning says it loops forever.
* With a backend and an impure replay (or a rollback followed by a remap, a
  workflow the README shows) the first row for a (tick, node) wins, so a later
  rebuild or `audit()` mixes the two timelines. Such modes are
  not `Promised`; `LayersAgree` does not hold in them.
* The engines are not "identical" (`async_runner.py:22`): with two starts A and B,
  A declared first, `B.inputs: A[1]` is A's output of the same tick with `Runner`
  and `Missing` with `AsyncRunner`. `EnginesAgree` says that this is the only way
  they differ.
* "The same policies (and values) the src body just consumed" (`views.py:28`) does
  not hold for a guard's `A[k]` when A fires in the same tick: in the same
  example, asyncio's guard sees A's output which its body did not see. The
  comment at `engine.py:376` names eviction only, but it takes no full window.
* A start added by `remap_graph` is neither armed nor fed (`runner.py:513`).
* The check against promoting a node with history looks at the last entry of its
  window (`runner.py:219`): a node that has returned None since its last value passes it.
  So does one whose window is empty though it has records: with two failed attempts
  at one tick the older firing is evicted, and a rollback then cuts what is left.
  `RemapRefusesHistory` states the first; because of the second it is claimed without
  rollbacks only.
* An output None that has left the window reads Missing from a backend
  (`state.py:231`), though "only a genuinely-fired `None` output yields None" and
  code "downstream depend[s] on this distinction" (`engine.py:171`). A body's `A[k]` may so change its answer when A
  fires again. `ReadsRight`, `EnginesAgree` and `GuardSeesBody` have the condition.
* `reset()` from a tick-end hook clears FAILED, so `run_until_idle` may stop with
  IDLE and work pending that cannot be done (`MayLeave`).
* A rollback across a remap restores slots of edges that are gone; nobody
  consumes them, and the run ends FAILED instead of IDLE.
  `NoForeignToken` needs the condition for it.
* A guard's view has names with another meaning than the body's: the body's map
  lets fields win over producers (`engine.py:199`), the guard's is filled entry by
  entry (`engine.py:390`), so a later entry whose producer has the name of an
  earlier field replaces it. With
  `C.bind: {B: A, x: B}` the body's `view["B"]` is A's output, the guard's is B's
  (reproduced by running the library), though `views.py:162` says "fields win when
  both exist". `NamesAgree` states exactly when this happens.
* The validation passes callables that no call can satisfy: a required
  keyword-only parameter, `*args` behind too many parameters, a positional-only
  parameter under a named bind, and in guards a required keyword-only `state`,
  which the engine passes to bodies only. `CallsBind` says these are all, as long
  as no name is registered again after construction, which nobody validates.
* "input will always be Missing" (`parser.py:309`) is said of producers that are
  no ancestors, which may well have fired: with starts A and B, `[A]-->X`,
  `[B]-->C`, `C.inputs: A` is refused, although C would read A's firing. And "A has
  a directed path to C (so A fires before C)" (`src/README.md:196`) does not hold
  for OR-joins, starts and nodes below several starts; `InputsHaveFired` has the
  condition under which it does.
* A batch that fails to save is not dropped (`state.py:187`): `JsonBackend` keeps the
  part that was written, and SQLite's open transaction, which nobody rolls back,
  joins the next commit of any session (the condition in `SavesAtomic`).
* Torn JSON: a torn last line of `firings.jsonl` swallows the next one appended
  (`FiringsSurvive`); a torn `checkpoints.json` forgets the labels it held
  (`CheckpointsSurvive`); `load_snapshot` raises for a torn `tick_N.json`, so a
  resumption from `latest_tick`, as the README shows it, may raise, and what to go
  on from is left to the user (`Restorable`).
* After a rollback `latest_tick` names a snapshot of the abandoned future
  until the run has passed it, and `latest_firings` its rows; hence the last condition of
  `CrashCostsOneTick`.

## Not modelled

* The text syntax (regular expressions, comments, continuation lines), DOT/Mermaid/JSON
  export, CLI, error messages: strings and I/O. Build starts from recognized lines.
* Wrappers that keep no state: the read-only views' attribute access, DictView's
  deprecated shims, JSON coercion of outputs.
* SQLite's schema migration, `close()` and path handling.
* Two concurrent `tick()` calls on one async runner, and restore or remap from
  another task during a tick: outside what the documentation offers.
* In RunState: `keep_nodes` together with a backend, legacy snapshots; rejected
  batches and torn files are Backends' business. Without records and without a
  backend, a checkpoint inside a tick cannot rewind mutable state (documented
  price of `keep_records=False`), so that combination is not `Promised`.

## Plan

Order, most important first.

1. *Core*: TickGraph, PetriNet, BaseRunner, Runner, their runs, type and token
   theorems. **done**
2. *Asyncio*: AsyncRunner against the same abstract net. **done**
3. *History*: RunState with backends, crashes, forks. **done**
4. *Checker*: deadlock check and cycle warnings against all runs of the net. **done**
5. *Dispatch*: inputs resolved against the tick under way. **done**
6. *Backends*: files and transactions, torn writes, recovery. **done**
7. *Build*: which graphs and callables reach the engine. **done**
8. *Proofs*: both runners implement PetriNet; type and token theorems of
   AsyncRunner; validated calls bind. **done**
9. *More history*: `keep_nodes` with a backend, a rollback across a remap with the
   window and the rows in view, legacy snapshots.
10. *More asyncio*: two `tick()` calls at once on one runner, what the runner would
   have to refuse for `ImplementsNet` to hold.
11. *Proofs*: every invariant of the runs. **done**
12. *More proofs*: `NoPhantomToken` with asyncio guards that raise; `PetriNet`'s
   gap freedom carried over to the runners through the refinement.
