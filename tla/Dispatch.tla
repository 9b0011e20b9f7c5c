------------------------------ MODULE Dispatch ------------------------------
(***************************************************************************)
(* What bodies and guards are given to read: the resolution of declared    *)
(* inputs in src/tickflow/engine.py and async_runner.py, during the ticks  *)
(* of RunState.                                                            *)
(*                                                                         *)
(* Which inputs a node declares is left open: every producer is resolved   *)
(* for every consumer under every policy.  The synchronous engine resolves *)
(* the inputs of a node when its turn comes, after its peers before it     *)
(* were recorded; asyncio starts every body, and so resolves every input,  *)
(* before any firing is recorded.  Both resolve the inputs of a guard when *)
(* all firings of the tick are recorded.                                   *)
(***************************************************************************)
EXTENDS RunState

VARIABLES
  given,   \* the nodes fired in this tick -> what their bodies could read
  shared   \* what asyncio gives all of them

dvars == <<vars, given, shared>>

\* Policy 0 is "latest", policy k > 0 is A[k].
Policies == 0 .. MaxTicks

Resolve(p, policy) == IF policy = 0 THEN Latest(p, tick_count) ELSE Index(p, policy)

Resolved == [p \in Nodes |-> [policy \in Policies |-> Resolve(p, policy)]]

\* A guard is not handed what the body had: its view resolves the same inputs
\* anew.
GuardView == Resolved

NothingRead == [p \in Nodes |-> [policy \in Policies |-> {}]]

DispatchInit ==
  /\ Init
  /\ given = <<>>
  /\ shared = NothingRead

StartTick ==
  /\ BeginTick
  /\ shared' = Resolved
  /\ UNCHANGED given

\* Faulty variant: the firing is recorded before its inputs are resolved.
FireResolvedLate ==
  /\ Fire
  /\ given' = [n \in DOMAIN given \cup {Head(todo)} |->
                 IF n = Head(todo) THEN Resolved' ELSE given[n]]
  /\ UNCHANGED shared

\* The inputs are resolved, the body runs, the firing is recorded.
FireBody ==
  /\ Fire
  /\ given' = [n \in DOMAIN given \cup {Head(todo)} |->
                 IF n = Head(todo) THEN Resolved ELSE given[n]]
  /\ UNCHANGED shared

\* A checkpoint or an audit(), within a tick or between ticks.
Aside ==
  /\ AuditFlushes \/ \E l \in Labels : Checkpoint(l)
  /\ UNCHANGED <<given, shared>>

\* The tick is over, or there is none.
Between ==
  /\ \/ Settle \/ Flush \/ SaveSnapshot
     \/ CrashAndResume \/ CrashAndStartOver \/ Fork
     \/ \E l \in Labels : Rollback(l)
  /\ given' = <<>>
  /\ shared' = NothingRead

DispatchNext == StartTick \/ FireBody \/ Aside \/ Between

DispatchSpec == DispatchInit /\ [][DispatchNext]_dvars

-----------------------------------------------------------------------------
(* Properties *)

Precedes(p, n) == \E i, j \in DOMAIN Order : i < j /\ Order[i] = p /\ Order[j] = n

\* Once p is recorded in this tick, a read of p may have changed at two
\* indices: that of the new firing, and that of the firing which has left the
\* window if it is Missing from now on: any without a backend, with one those
\* that put out None.
Shifted(p, policy) ==
  /\ p \in DOMAIN given
  /\ policy # 0
  /\ \/ policy = rs.fire_counts[p]
     \/ /\ policy = rs.fire_counts[p] - 2
        /\ ~mode.persistent \/ FiringsOf(timeline, p)[policy] \in mode.silent

\* A body reads the same from both engines, so no peer's write of the same tick
\* (README: "a node cannot see a peer's same-tick write"), unless it reads A[k]
\* of a peer declared before it, at one of the two indices that shift.
EnginesAgree ==
  \A n \in DOMAIN given, p \in Nodes, policy \in Policies :
    given[n][p][policy] # shared[p][policy] => Precedes(p, n) /\ Shifted(p, policy)

\* A guard reads what the body of its node read (views.py: "resolved with the
\* same policies (and values) the src body just consumed"), unless it reads
\* A[k] of a peer recorded since, or of its own node, at an index that shifts.
GuardSeesBody ==
  pc = "tick" /\ todo = <<>> =>
    \A n \in DOMAIN given, p \in Nodes, policy \in Policies :
      GuardView[p][policy] # given[n][p][policy] => ~Precedes(p, n) /\ Shifted(p, policy)

=============================================================================
