--------------------------- MODULE RunState_proofs ---------------------------
(***************************************************************************)
(* Proofs about the layers of a run's history.                             *)
(*                                                                         *)
(* The inductive invariant says of the run, and of every snapshot kept of  *)
(* it, that its layers are those of its timeline; and of a run with a      *)
(* backend, whose replays repeat it, that every log of it is a part of one *)
(* canonical history, which the rows on disk list in order but for         *)
(* repetitions.  The last part adds what bodies were given to read.        *)
(***************************************************************************)
EXTENDS Dispatch, FiringLog_proofs

-----------------------------------------------------------------------------
(* The inductive invariant *)

\* The order of firings within a run, and within the firings of one node.
Earlier ==
  {p \in Firing \X Firing : \/ p[1].tick < p[2].tick
                            \/ p[1].tick = p[2].tick /\ Precedes(p[1].node, p[2].node)}
Rising == {p \in Firing \X Firing : p[1].tick < p[2].tick}

InOrder == {p \in Nodes \X Nodes : Precedes(p[1], p[2])}

LayersType ==
  [edges : [Nodes -> Seq(Firing)], fire_counts : [Nodes -> Nat],
   state : [Nodes -> SUBSET Firing], records : Seq(Firing),
   pending : Seq(Firing), audit_ceiling : -1 .. MaxTicks - 1]

SnapshotType ==
  [tick : 0 .. MaxTicks, edges : [Nodes -> Seq(Firing)], fire_counts : [Nodes -> Nat],
   state : [Nodes -> SUBSET Firing], records : Seq(Firing), timeline : Seq(Firing)]

Types ==
  /\ mode \in Modes
  /\ rs \in LayersType
  /\ rows \in Seq(Firing)
  /\ snapshots \in [1 .. MaxTicks -> SUBSET SnapshotType]
  /\ checkpoints \in [Labels -> SUBSET SnapshotType]
  /\ tick_count \in 0 .. MaxTicks
  /\ pc \in {"user", "tick", "settled", "flushed"}
  /\ todo \in Seq(Nodes)
  /\ plan \in [0 .. MaxTicks - 1 -> SUBSET (SUBSET Nodes)]
  /\ restores \in 0 .. MaxRestores
  /\ timeline \in Seq(Firing)

\* e is the end of s.
EndOf(e, s) ==
  /\ Len(e) <= Len(s)
  /\ \A i \in 1 .. Len(e) : e[i] = s[Len(s) - Len(e) + i]

\* The window e of a node that fired s never loses its last firing, nor its
\* last one before tick t.
HeldWindow(e, s, t) ==
  /\ EndOf(e, s)
  /\ Len(e) <= 2
  /\ s # <<>> => e # <<>>
  /\ (\E i \in 1 .. Len(s) : s[i].tick < t) => \E i \in 1 .. Len(e) : e[i].tick < t

\* The layers r are those of a run, now in tick t, that fired T.
LayersOf(r, T, t) ==
  /\ \A n \in Nodes :
       /\ HeldWindow(r.edges[n], FiringsOf(T, n), t)
       /\ r.fire_counts[n] = Len(FiringsOf(T, n))
       /\ r.state[n] = LastOf(FiringsOf(T, n))
  /\ r.records = IF mode.keep_records /\ ~mode.persistent THEN T ELSE <<>>

\* The timeline grows in order.
InTick ==
  /\ pc = "tick" => tick_count < MaxTicks
  /\ pc # "tick" => todo = <<>>
  /\ Sorted(todo, InOrder)
  /\ Sorted(timeline, Earlier)
  /\ \A i \in 1 .. Len(timeline) :
       \/ timeline[i].tick < tick_count
       \/ /\ pc = "tick"
          /\ timeline[i].tick = tick_count
          /\ \A j \in 1 .. Len(todo) : Precedes(timeline[i].node, todo[j])

\* The audit's ceiling leaves out no firing of the run, and lets in none of a
\* later tick.
CeilingOK ==
  /\ \A i \in 1 .. Len(timeline) : timeline[i].tick <= rs.audit_ceiling
  /\ rs.audit_ceiling < tick_count \/ (pc = "tick" /\ rs.audit_ceiling = tick_count)

Kept == (UNION {checkpoints[l] : l \in Labels}) \cup (UNION {snapshots[t] : t \in 1 .. MaxTicks})

\* What is kept of a run: a snapshot of it.
SnapOK(snap) ==
  /\ Sorted(snap.timeline, Earlier)
  /\ LayersOf(snap, snap.timeline, snap.tick)
  /\ \A i \in 1 .. Len(snap.timeline) :
       \/ snap.timeline[i].tick < snap.tick
       \/ mode.midtick /\ snap.timeline[i].tick = snap.tick

KeptOK == \A snap \in Kept : SnapOK(snap)

\* The canonical history: what fires in each tick that was ever begun.
Canon == {f \in Firing : f.epoch = 0 /\ \E F \in plan[f.tick] : f.node \in F}

\* The ticks that were ever begun are the first ones, and each fires one set.
PlanOK ==
  /\ \A t \in 0 .. MaxTicks - 1 : \A F, G \in plan[t] : F = G
  /\ \A t \in 0 .. MaxTicks - 1 : \A u \in 0 .. t : plan[u] = {} => plan[t] = {}
  /\ \A t \in 0 .. MaxTicks - 1 :
       t < tick_count \/ (pc = "tick" /\ t = tick_count) => plan[t] # {}
  /\ \A i \in 1 .. Len(todo) : \E F \in plan[tick_count] : todo[i] \in F

\* The timeline is all of the canonical history up to now.
TimelineWhole ==
  \A f \in Firing :
    f \in ToSet(timeline) <=>
      /\ f \in Canon
      /\ \/ f.tick < tick_count
         \/ pc = "tick" /\ f.tick = tick_count /\ f.node \notin ToSet(todo)

Journal == rows \o rs.pending

\* A log of the canonical history in which a firing comes only after all
\* earlier ones.
Grows(s) ==
  /\ ToSet(s) \subseteq Canon
  /\ \A i \in 1 .. Len(s) : \A g \in Canon :
       <<g, s[i]>> \in Earlier => \E j \in 1 .. i - 1 : s[j] = g

JournalOK ==
  /\ Grows(Journal)
  /\ ToSet(timeline) \subseteq ToSet(Journal)
  /\ ToSet(rs.pending) \subseteq ToSet(timeline)
  /\ pc \in {"user", "flushed"} => rs.pending = <<>>
  /\ \A i \in 1 .. Len(rs.pending) :
       rs.pending[i].tick = IF pc = "tick" THEN tick_count ELSE tick_count - 1

\* What is kept of a run can be restored from the rows.
SnapWhole(snap) ==
  /\ \A t \in 0 .. MaxTicks - 1 : t < snap.tick => plan[t] # {}
  /\ \A f \in Firing : f.tick < snap.tick => (f \in ToSet(snap.timeline) <=> f \in Canon)
  /\ \A f \in Canon : f.tick < snap.tick =>
       IF mode.crashes THEN f \in ToSet(rows) ELSE f \in ToSet(Journal)

KeptWhole == \A snap \in Kept : SnapWhole(snap)

HistoryInv ==
  /\ Types
  /\ InTick
  /\ CeilingOK
  /\ LayersOf(rs, timeline, tick_count)
  /\ KeptOK
  /\ mode.persistent => PlanOK /\ TimelineWhole /\ JournalOK /\ KeptWhole

-----------------------------------------------------------------------------
(* The orders *)

LEMMA FiringFacts ==
  /\ \A f \in Firing : f.tick \in Int /\ f.tick \in 0 .. MaxTicks - 1 /\ f.node \in Nodes
  /\ \A f, g \in Firing : f.tick = g.tick /\ f.node = g.node /\ f.epoch = g.epoch => f = g
  BY RunStateAssumption DEF Firing

LEMMA OrderFacts ==
  /\ \A p, n \in Nodes : Precedes(p, n) => ~Precedes(n, p)
  /\ \A n \in Nodes : ~Precedes(n, n)
  /\ \A p, n \in Nodes : p = n \/ Precedes(p, n) \/ Precedes(n, p)
  <1>1. DOMAIN Order = 1 .. Len(Order) /\ Len(Order) \in Nat
    BY RunStateAssumption
  <1>2. \A i, j \in DOMAIN Order : Order[i] = Order[j] => i = j
    BY RunStateAssumption
  <1>3. Nodes = {Order[i] : i \in DOMAIN Order}
    BY DEF Nodes, ToSet
  <1>4. \A p, n \in Nodes : Precedes(p, n) => ~Precedes(n, p)
    BY <1>1, <1>2 DEF Precedes
  <1>5. ASSUME NEW p \in Nodes, NEW n \in Nodes, p # n
        PROVE  Precedes(p, n) \/ Precedes(n, p)
    <2>1. PICK i \in DOMAIN Order : Order[i] = p
      BY <1>3
    <2>2. PICK j \in DOMAIN Order : Order[j] = n
      BY <1>3
    <2>3. i < j \/ j < i
      BY <1>1, <1>5, <2>1, <2>2
    <2> QED BY <2>1, <2>2, <2>3 DEF Precedes
  <1> QED BY <1>4, <1>5

LEMMA EarlierFacts ==
  /\ Asymmetric(Earlier)
  /\ Asymmetric(Rising)
  /\ \A f, g \in Firing : <<f, g>> \in Earlier <=>
       f.tick < g.tick \/ (f.tick = g.tick /\ Precedes(f.node, g.node))
  /\ \A f, g \in Firing : <<f, g>> \in Rising <=> f.tick < g.tick
  <1>1. \A f, g : <<f, g>> \in Earlier <=>
          /\ f \in Firing /\ g \in Firing
          /\ f.tick < g.tick \/ (f.tick = g.tick /\ Precedes(f.node, g.node))
    BY DEF Earlier
  <1>2. \A f, g : <<f, g>> \in Rising <=> f \in Firing /\ g \in Firing /\ f.tick < g.tick
    BY DEF Rising
  <1>3. Asymmetric(Earlier)
    BY <1>1, FiringFacts, OrderFacts DEF Asymmetric
  <1>4. Asymmetric(Rising)
    BY <1>2, FiringFacts DEF Asymmetric
  <1> QED BY <1>1, <1>2, <1>3, <1>4

\* The firings of one node are of different ticks.
LEMMA FiringsRise ==
  ASSUME NEW T \in Seq(Firing), Sorted(T, Earlier), NEW n \in Nodes
  PROVE  /\ FiringsOf(T, n) \in Seq(Firing)
         /\ Sorted(FiringsOf(T, n), Earlier)
         /\ Sorted(FiringsOf(T, n), Rising)
         /\ \A i, j \in 1 .. Len(FiringsOf(T, n)) :
              i < j => FiringsOf(T, n)[i].tick < FiringsOf(T, n)[j].tick
  <1> DEFINE s == FiringsOf(T, n)
  <1>1. s \in Seq(Firing) /\ Sorted(s, Earlier)
    BY LogsTyped, SelectSorted DEF FiringsOf
  <1>2. ToSet(s) = {f \in ToSet(T) : f.node = n}
    BY FiringsOfElements
  <1> HIDE DEF s
  <1>3. \A i \in 1 .. Len(s) : s[i] \in Firing /\ s[i].node = n
    <2>1. DOMAIN s = 1 .. Len(s)
      BY <1>1
    <2>2. \A i \in 1 .. Len(s) : s[i] \in ToSet(s)
      BY <2>1 DEF ToSet
    <2> QED BY <1>1, <1>2, <2>2
  <1>4. \A i, j \in 1 .. Len(s) : i < j => s[i].tick < s[j].tick
    <2> TAKE i, j \in 1 .. Len(s)
    <2> HAVE i < j
    <2>1. <<s[i], s[j]>> \in Earlier
      BY <1>1 DEF Sorted
    <2>2. s[i] \in Firing /\ s[j] \in Firing /\ s[i].node = s[j].node
      BY <1>3
    <2>3. ~Precedes(s[i].node, s[j].node)
      BY <2>2, FiringFacts, OrderFacts
    <2> QED BY <2>1, <2>2, <2>3, EarlierFacts
  <1>5. Sorted(s, Rising)
    BY <1>3, <1>4, EarlierFacts DEF Sorted
  <1> QED BY <1>1, <1>4, <1>5 DEF s

-----------------------------------------------------------------------------
(* Windows *)

LEMMA EndLast ==
  ASSUME NEW e \in Seq(Firing), NEW s \in Seq(Firing), EndOf(e, s), s # <<>> => e # <<>>
  PROVE  LastOf(e) = LastOf(s)
  <1>1. Len(e) \in Nat /\ Len(s) \in Nat /\ (e = <<>> <=> Len(e) = 0) /\ (s = <<>> <=> Len(s) = 0)
    OBVIOUS
  <1>2. CASE s = <<>>
    BY <1>1, <1>2 DEF EndOf, LastOf
  <1>3. CASE s # <<>>
    <2>1. Len(e) \in 1 .. Len(e) /\ Len(s) - Len(e) + Len(e) = Len(s)
      BY <1>1, <1>3
    <2>2. e[Len(e)] = s[Len(s)]
      BY <2>1 DEF EndOf
    <2> QED BY <1>1, <1>3, <2>2 DEF LastOf
  <1> QED BY <1>2, <1>3

\* When all firings are before tick t, any end but the empty one will do.
LEMMA HeldIfPast ==
  ASSUME NEW e \in Seq(Firing), NEW s \in Seq(Firing), NEW t \in Int,
         EndOf(e, s), Len(e) <= 2, s # <<>> => e # <<>>,
         \A i \in 1 .. Len(s) : s[i].tick < t
  PROVE  HeldWindow(e, s, t)
  <1>1. Len(e) \in Nat /\ Len(s) \in Nat /\ (e = <<>> <=> Len(e) = 0) /\ (s = <<>> <=> Len(s) = 0)
    OBVIOUS
  <1>2. ASSUME \E i \in 1 .. Len(s) : s[i].tick < t
        PROVE  \E i \in 1 .. Len(e) : e[i].tick < t
    <2>1. 1 \in 1 .. Len(e) /\ Len(s) - Len(e) + 1 \in 1 .. Len(s)
      BY <1>1, <1>2 DEF EndOf
    <2>2. e[1] = s[Len(s) - Len(e) + 1]
      BY <2>1 DEF EndOf
    <2> QED BY <2>1, <2>2
  <1> QED BY <1>2 DEF HeldWindow

LEMMA HeldWhole ==
  ASSUME NEW s \in Seq(Firing), NEW t \in Int, \A i \in 1 .. Len(s) : s[i].tick < t
  PROVE  Window(s) \in Seq(Firing) /\ HeldWindow(Window(s), s, t)
  <1>1. Len(s) \in Nat /\ (s = <<>> <=> Len(s) = 0)
    OBVIOUS
  <1>2. CASE Len(s) > 2
    <2> DEFINE e == SubSeq(s, Len(s) - 1, Len(s))
    <2>1. e \in Seq(Firing) /\ Len(e) = 2 /\ e # <<>> /\ \A i \in 1 .. 2 : e[i] = s[Len(s) - 2 + i]
      BY <1>1, <1>2
    <2>2. Window(s) = e
      BY <1>2 DEF Window
    <2> HIDE DEF e
    <2>3. EndOf(e, s)
      BY <1>1, <1>2, <2>1 DEF EndOf
    <2>4. Len(e) <= 2 /\ (s # <<>> => e # <<>>)
      BY <2>1
    <2>5. HeldWindow(e, s, t)
      BY <2>1, <2>3, <2>4, HeldIfPast
    <2> QED BY <2>1, <2>2, <2>5
  <1>3. CASE ~(Len(s) > 2)
    <2>1. EndOf(s, s)
      BY <1>1 DEF EndOf
    <2>2. HeldWindow(s, s, t)
      BY <1>1, <1>3, <2>1, HeldIfPast
    <2> QED BY <1>3, <2>2 DEF Window
  <1> QED BY <1>2, <1>3

LEMMA HeldAppend ==
  ASSUME NEW e \in Seq(Firing), NEW s \in Seq(Firing), NEW f \in Firing,
         HeldWindow(e, s, f.tick), \A i \in 1 .. Len(s) : s[i].tick < f.tick
  PROVE  /\ Window(Append(e, f)) \in Seq(Firing)
         /\ HeldWindow(Window(Append(e, f)), Append(s, f), f.tick)
  <1> DEFINE E == Append(e, f)
             T == Append(s, f)
             w == Window(E)
             l == Len(e)
             m == Len(s)
  <1>1. /\ E \in Seq(Firing) /\ Len(E) = l + 1 /\ E[l + 1] = f /\ \A i \in 1 .. l : E[i] = e[i]
        /\ T \in Seq(Firing) /\ Len(T) = m + 1 /\ T[m + 1] = f /\ \A i \in 1 .. m : T[i] = s[i]
        /\ l \in Nat /\ m \in Nat /\ (e = <<>> <=> l = 0) /\ (s = <<>> <=> m = 0)
    OBVIOUS
  <1>2. /\ l <= m /\ l <= 2 /\ (m > 0 => l > 0)
        /\ \A i \in 1 .. l : e[i] = s[m - l + i]
    BY <1>1 DEF HeldWindow, EndOf
  <1>3. w = IF l + 1 > 2 THEN SubSeq(E, l, l + 1) ELSE E
    BY <1>1 DEF Window
  <1> HIDE DEF E, T, l, m
  <1> DEFINE k == IF l + 1 > 2 THEN 2 ELSE l + 1
  <1>4. k \in Nat /\ k <= 2 /\ k <= l + 1 /\ 1 <= k /\ (l > 0 => k = 2) /\ (l = 0 => k = 1)
    BY <1>1, <1>2
  <1>5. w \in Seq(Firing) /\ Len(w) = k /\ \A i \in 1 .. k : w[i] = E[l + 1 - k + i]
    <2>1. CASE l + 1 > 2
      <3>1. l = 2
        BY <1>1, <1>2, <2>1
      <3>2. w = SubSeq(E, 2, 3) /\ Len(E) = 3 /\ k = 2
        BY <1>1, <1>3, <3>1
      <3> HIDE DEF w, k
      <3>3. /\ SubSeq(E, 2, 3) \in Seq(Firing) /\ Len(SubSeq(E, 2, 3)) = 2
            /\ \A i \in 1 .. 2 : SubSeq(E, 2, 3)[i] = E[2 + i - 1]
        <4>1. 2 \in 1 .. Len(E) + 1 /\ 3 \in 2 - 1 .. Len(E) /\ 3 - 2 + 1 = 2
          BY <3>2
        <4> HIDE <3>2
        <4> QED BY <1>1, <4>1, SubSeqFacts
      <3> QED BY <3>1, <3>2, <3>3
    <2>2. CASE ~(l + 1 > 2)
      <3>1. w = E /\ k = l + 1
        BY <1>3, <2>2
      <3> HIDE DEF w, k
      <3> QED BY <1>1, <3>1
    <2> QED BY <2>1, <2>2
  <1> HIDE DEF k, w
  <1>6. \A i \in 1 .. k : w[i] = T[m + 1 - k + i]
    <2> TAKE i \in 1 .. k
    <2>1. CASE i = k
      BY <1>1, <1>4, <1>5, <2>1
    <2>2. CASE i < k
      <3>1. l + 1 - k + i \in 1 .. l /\ m + 1 - k + i \in 1 .. m
        <4>1. l \in Nat /\ m \in Nat /\ k \in Nat /\ i \in Nat /\ 1 <= i /\ i < k
          BY <1>1, <1>4, <2>2
        <4> QED BY <1>2, <1>4, <4>1
      <3>2. w[i] = e[l + 1 - k + i]
        BY <1>1, <1>5, <3>1
      <3>3. e[l + 1 - k + i] = s[m - l + (l + 1 - k + i)]
        BY <1>2, <3>1
      <3>4. m - l + (l + 1 - k + i) = m + 1 - k + i
        BY <1>1, <1>4
      <3> QED BY <1>1, <3>1, <3>2, <3>3, <3>4
    <2> QED BY <1>4, <2>1, <2>2
  <1>7. EndOf(w, T) /\ Len(w) <= 2 /\ w # <<>>
    BY <1>1, <1>2, <1>4, <1>5, <1>6 DEF EndOf
  <1>8. ASSUME \E i \in 1 .. Len(T) : T[i].tick < f.tick
        PROVE  \E i \in 1 .. Len(w) : w[i].tick < f.tick
    <2>1. PICK i \in 1 .. m + 1 : T[i].tick < f.tick
      BY <1>1, <1>8
    <2>2. i # m + 1
      BY <1>1, <2>1, FiringFacts
    <2>3. m > 0 /\ k = 2 /\ m \in 1 .. m
      BY <1>1, <1>2, <1>4, <2>1, <2>2
    <2>4. w[1] = T[m]
      BY <1>1, <1>6, <2>3
    <2>5. \A j \in 1 .. m : s[j].tick < f.tick
      BY DEF m
    <2>6. w[1].tick < f.tick
      BY <1>1, <2>3, <2>4, <2>5
    <2> QED BY <1>5, <2>3, <2>6
  <1>9. w \in Seq(Firing) /\ HeldWindow(w, T, f.tick)
    BY <1>5, <1>7, <1>8 DEF HeldWindow
  <1> QED BY <1>9 DEF w, E, T

LEMMA HeldUpTo ==
  ASSUME NEW e \in Seq(Firing), NEW s \in Seq(Firing), NEW t \in Int, HeldWindow(e, s, t),
         \A i, j \in 1 .. Len(s) : i < j => s[i].tick < s[j].tick
  PROVE  /\ UpTo(e, t - 1) \in Seq(Firing)
         /\ UpTo(s, t - 1) \in Seq(Firing)
         /\ HeldWindow(UpTo(e, t - 1), UpTo(s, t - 1), t)
         /\ Len(UpTo(s, t - 1)) = IF UpTo(e, t - 1) = <<>> THEN 0
                                  ELSE Len(s) - (Len(e) - Len(UpTo(e, t - 1)))
  <1> DEFINE l == Len(e)
             m == Len(s)
  <1>1. /\ l \in Nat /\ m \in Nat /\ t - 1 \in Int
        /\ \A i \in 1 .. l : e[i].tick \in Int
        /\ \A i \in 1 .. m : s[i].tick \in Int
    BY FiringFacts
  <1>2. /\ l <= m /\ l <= 2
        /\ \A i \in 1 .. l : e[i] = s[m - l + i]
        /\ (\E i \in 1 .. m : s[i].tick < t) => \E i \in 1 .. l : e[i].tick < t
    BY DEF HeldWindow, EndOf
  <1>3. \A i, j \in 1 .. m : i < j => s[i].tick <= s[j].tick
    BY <1>1
  <1>4. \A i, j \in 1 .. l : i < j => e[i].tick <= e[j].tick
    <2> HIDE DEF l, m
    <2> TAKE i, j \in 1 .. l
    <2> HAVE i < j
    <2>1. m - l + i \in 1 .. m /\ m - l + j \in 1 .. m /\ m - l + i < m - l + j
      BY <1>1, <1>2
    <2> QED BY <1>2, <1>3, <2>1
  <1>5. PICK c \in 0 .. m : /\ UpTo(s, t - 1) = SubSeq(s, 1, c)
                            /\ \A i \in 1 .. m : i <= c <=> s[i].tick <= t - 1
    BY <1>1, <1>3, FiringFacts, UpToPrefix
  <1>6. PICK d \in 0 .. l : /\ UpTo(e, t - 1) = SubSeq(e, 1, d)
                            /\ \A i \in 1 .. l : i <= d <=> e[i].tick <= t - 1
    BY <1>1, <1>4, FiringFacts, UpToPrefix
  <1> DEFINE E == UpTo(e, t - 1)
             T == UpTo(s, t - 1)
  <1>7. /\ E \in Seq(Firing) /\ Len(E) = d /\ (E = <<>> <=> d = 0) /\ \A i \in 1 .. d : E[i] = e[i]
        /\ T \in Seq(Firing) /\ Len(T) = c /\ (T = <<>> <=> c = 0) /\ \A i \in 1 .. c : T[i] = s[i]
    <2>1. /\ 1 \in 1 .. Len(e) + 1 /\ d \in 1 - 1 .. Len(e) /\ d - 1 + 1 = d /\ d \in Nat
          /\ 1 \in 1 .. Len(s) + 1 /\ c \in 1 - 1 .. Len(s) /\ c - 1 + 1 = c /\ c \in Nat
          /\ \A i \in Nat : 1 + i - 1 = i
      BY <1>1
    <2> HIDE DEF E, T
    <2>2. E = SubSeq(e, 1, d) /\ T = SubSeq(s, 1, c)
      BY <1>5, <1>6 DEF E, T
    <2>3. E \in Seq(Firing) /\ Len(E) = d /\ \A i \in 1 .. d : E[i] = e[i]
      BY <2>1, <2>2, SubSeqFacts
    <2>4. T \in Seq(Firing) /\ Len(T) = c /\ \A i \in 1 .. c : T[i] = s[i]
      BY <2>1, <2>2, SubSeqFacts
    <2>5. (E = <<>> <=> Len(E) = 0) /\ (T = <<>> <=> Len(T) = 0)
      BY <2>3, <2>4
    <2> QED BY <2>3, <2>4, <2>5
  <1> HIDE DEF E, T
  <1>8. c \in Nat /\ d \in Nat /\ c <= m /\ d <= l
    BY <1>1
  <1> HIDE DEF l, m
  <1>9. d = 0 => c = 0
    <2> SUFFICES ASSUME d = 0, c # 0 PROVE FALSE
      OBVIOUS
    <2>1. 1 \in 1 .. m /\ s[1].tick <= t - 1
      BY <1>5, <1>8, <1>1
    <2>2. s[1].tick < t
      BY <1>1, <2>1
    <2>3. PICK i \in 1 .. l : e[i].tick < t
      BY <1>2, <2>1, <2>2
    <2>4. e[i].tick <= t - 1
      BY <1>1, <2>3
    <2>5. i <= d
      BY <1>6, <2>4
    <2> QED BY <1>1, <2>5
  <1>10. d # 0 => c = m - (l - d)
    <2> SUFFICES ASSUME d # 0 PROVE c = m - (l - d)
      OBVIOUS
    <2>1. d \in 1 .. l /\ m - l + d \in 1 .. m
      BY <1>1, <1>2, <1>8
    <2>2. m - l + d <= c
      <3>1. d <= d
        BY <1>8
      <3>2. e[d].tick <= t - 1
        BY <1>6, <2>1, <3>1
      <3>3. e[d] = s[m - l + d]
        BY <1>2, <2>1
      <3> QED BY <1>5, <2>1, <3>2, <3>3
    <2>3. CASE d = l
      BY <1>1, <1>8, <2>2, <2>3
    <2>4. CASE d < l
      <3>1. d + 1 \in 1 .. l /\ m - l + (d + 1) \in 1 .. m
        BY <1>1, <1>2, <1>8, <2>4
      <3>2. ~(m - l + (d + 1) <= c)
        <4>1. ~(d + 1 <= d)
          BY <1>8
        <4>2. ~(e[d + 1].tick <= t - 1)
          BY <1>6, <3>1, <4>1
        <4>3. e[d + 1] = s[m - l + (d + 1)]
          BY <1>2, <3>1
        <4> QED BY <1>5, <3>1, <4>2, <4>3
      <3> QED BY <1>1, <1>8, <2>2, <3>2
    <2> QED BY <1>1, <1>8, <2>3, <2>4
  <1>11. EndOf(E, T)
    <2>1. CASE d = 0
      BY <1>7, <1>9, <2>1 DEF EndOf
    <2>2. CASE d # 0
      <3>1. c = m - (l - d)
        BY <1>10, <2>2
      <3>2. \A i \in 1 .. d : i \in 1 .. l /\ c - d + i \in 1 .. c /\ c - d + i = m - l + i
        BY <1>1, <1>2, <1>8, <3>1
      <3>3. \A i \in 1 .. d : E[i] = T[c - d + i]
        BY <1>2, <1>7, <3>2
      <3> QED BY <1>1, <1>2, <1>7, <1>8, <3>1, <3>3 DEF EndOf
    <2> QED BY <2>1, <2>2
  <1>12. \A i \in 1 .. Len(T) : T[i].tick < t
    BY <1>1, <1>5, <1>7, <1>8
  <1>13. HeldWindow(E, T, t)
    <2>1. Len(E) <= 2 /\ (T # <<>> => E # <<>>)
      BY <1>1, <1>2, <1>7, <1>8, <1>9
    <2> QED BY <1>7, <1>11, <1>12, <2>1, HeldIfPast
  <1>14. Len(T) = IF E = <<>> THEN 0 ELSE m - (l - Len(E))
    BY <1>7, <1>9, <1>10
  <1> QED BY <1>7, <1>13, <1>14 DEF E, T, l, m

-----------------------------------------------------------------------------
(* The invariant holds at first *)

LEMMA ModeFacts ==
  ASSUME mode \in Modes
  PROVE  /\ mode \in Mode /\ Promised(mode)
         /\ mode.persistent => mode.pure
  BY RunStateAssumption DEF Promised

LEMMA FreshLayers ==
  ASSUME NEW t \in Int
  PROVE  Fresh \in LayersType /\ LayersOf(Fresh, <<>>, t)
  <1>1. Fresh \in LayersType
    BY RunStateAssumption DEF Fresh, LayersType
  <1>2. HeldWindow(<<>>, <<>>, t)
    BY DEF HeldWindow, EndOf
  <1>3. \A n \in Nodes : /\ Fresh.edges[n] = <<>> /\ Fresh.fire_counts[n] = 0
                         /\ Fresh.state[n] = {} /\ Fresh.records = <<>>
    BY DEF Fresh
  <1>4. \A n \in Nodes : FiringsOf(<<>>, n) = <<>>
    BY LogsEmpty
  <1>5. Fresh.records = <<>>
    BY DEF Fresh
  <1>6. LastOf(<<>>) = {} /\ Len(<<>>) = 0
    BY DEF LastOf
  <1>7. ASSUME NEW n \in Nodes
        PROVE  /\ HeldWindow(Fresh.edges[n], FiringsOf(<<>>, n), t)
               /\ Fresh.fire_counts[n] = Len(FiringsOf(<<>>, n))
               /\ Fresh.state[n] = LastOf(FiringsOf(<<>>, n))
    BY <1>2, <1>3, <1>4, <1>6
  <1> QED BY <1>1, <1>5, <1>7 DEF LayersOf

LEMMA InitHistory == Init => HistoryInv
  <1> SUFFICES ASSUME Init PROVE HistoryInv
    OBVIOUS
  <1>1. /\ MaxTicks \in Nat /\ MaxRestores \in Nat
        /\ mode \in Modes /\ rs = Fresh /\ rows = <<>> /\ tick_count = 0 /\ pc = "user"
        /\ todo = <<>> /\ restores = 0 /\ timeline = <<>>
        /\ snapshots = [t \in 1 .. MaxTicks |-> {}] /\ checkpoints = [l \in Labels |-> {}]
        /\ plan = [t \in 0 .. MaxTicks - 1 |-> {}]
    BY RunStateAssumption DEF Init
  <1>2. Types
    BY <1>1, FreshLayers, EmptyElements DEF Types
  <1>3. InTick
    BY <1>1, EmptyElements DEF InTick, Sorted
  <1>4. CeilingOK
    BY <1>1, EmptyElements DEF CeilingOK, Fresh
  <1>5. LayersOf(rs, timeline, tick_count)
    BY <1>1, FreshLayers
  <1>6. Kept = {}
    BY <1>1 DEF Kept
  <1>7. KeptOK /\ KeptWhole
    BY <1>6 DEF KeptOK, KeptWhole
  <1>8. Canon = {} /\ PlanOK
    <2>1. \A t \in 0 .. MaxTicks - 1 : plan[t] = {}
      BY <1>1
    <2> QED BY <1>1, <2>1, FiringFacts, EmptyElements DEF Canon, PlanOK
  <1>9. rs.pending = <<>> /\ Journal = <<>>
    BY <1>1 DEF Fresh, Journal
  <1>10. TimelineWhole /\ JournalOK
    BY <1>1, <1>8, <1>9, EmptyElements DEF TimelineWhole, JournalOK, Grows
  <1> QED BY <1>2, <1>3, <1>4, <1>5, <1>7, <1>8, <1>10 DEF HistoryInv

-----------------------------------------------------------------------------
(* What a step does not touch *)

LEMMA SnapStays ==
  ASSUME mode' = mode, NEW snap, SnapOK(snap)
  PROVE  SnapOK(snap)'
  BY DEF SnapOK, LayersOf

LEMMA KeptSame ==
  ASSUME HistoryInv, mode' = mode, UNCHANGED <<checkpoints, snapshots>>
  PROVE  Kept' = Kept /\ KeptOK'
  <1>1. Kept' = Kept
    BY DEF Kept
  <1>2. \A snap \in Kept : SnapOK(snap)'
    BY SnapStays DEF HistoryInv, KeptOK
  <1> QED BY <1>1, <1>2 DEF KeptOK

\* Ticks that were begun fire what they fired.
PlanGrows == \A t \in 0 .. MaxTicks - 1 : plan[t] # {} => plan'[t] = plan[t]

LEMMA CanonBegun ==
  ASSUME PlanGrows
  PROVE  \A f \in Firing : plan[f.tick] # {} => (f \in Canon' <=> f \in Canon)
  BY FiringFacts DEF PlanGrows, Canon

LEMMA SnapWholeStays ==
  ASSUME mode' = mode, PlanGrows, NEW snap \in SnapshotType, SnapWhole(snap),
         IF mode.crashes THEN ToSet(rows) \subseteq ToSet(rows')
                         ELSE ToSet(Journal) \subseteq ToSet(Journal')
  PROVE  SnapWhole(snap)'
  <1>1. \A t \in 0 .. MaxTicks - 1 : t < snap.tick => plan[t] # {} /\ plan'[t] = plan[t]
    BY DEF SnapWhole, PlanGrows
  <1>2. \A f \in Firing : f.tick < snap.tick => (f \in Canon' <=> f \in Canon)
    BY <1>1, CanonBegun, FiringFacts
  <1>3. Canon \subseteq Firing /\ Canon' \subseteq Firing
    BY DEF Canon
  <1>4. \A f \in Firing : f.tick < snap.tick => (f \in ToSet(snap.timeline) <=> f \in Canon')
    BY <1>2 DEF SnapWhole
  <1>5. \A f \in Canon' : f.tick < snap.tick =>
          IF mode.crashes THEN f \in ToSet(rows') ELSE f \in ToSet(Journal')
    BY <1>2, <1>3 DEF SnapWhole
  <1> QED BY <1>1, <1>4, <1>5 DEF SnapWhole

LEMMA KeptType ==
  ASSUME Types
  PROVE  Kept \subseteq SnapshotType
  <1>1. \A l \in Labels : checkpoints[l] \subseteq SnapshotType
    BY DEF Types
  <1>2. \A t \in 1 .. MaxTicks : snapshots[t] \subseteq SnapshotType
    BY DEF Types
  <1> QED BY <1>1, <1>2 DEF Kept

LEMMA KeptWholeSame ==
  ASSUME HistoryInv, mode.persistent, mode' = mode, UNCHANGED <<checkpoints, snapshots>>, PlanGrows,
         IF mode.crashes THEN ToSet(rows) \subseteq ToSet(rows')
                         ELSE ToSet(Journal) \subseteq ToSet(Journal')
  PROVE  KeptWhole'
  <1>1. Kept' = Kept /\ Kept \subseteq SnapshotType
    BY KeptSame, KeptType DEF HistoryInv
  <1>2. \A snap \in Kept : SnapWhole(snap)'
    BY <1>1, SnapWholeStays DEF HistoryInv, KeptWhole
  <1> QED BY <1>1, <1>2 DEF KeptWhole

-----------------------------------------------------------------------------
(* A tick begins *)

LEMMA BatchFacts ==
  ASSUME Types, tick_count < MaxTicks, NEW F \in Batches(tick_count),
         NEW q, q = Select(Order, {i \in DOMAIN Order : Order[i] \in F})
  PROVE  /\ F \in SUBSET Nodes /\ tick_count \in 0 .. MaxTicks - 1
         /\ q \in Seq(Nodes) /\ Sorted(q, InOrder) /\ ToSet(q) = F
  <1>1. MaxTicks \in Nat /\ tick_count \in 0 .. MaxTicks - 1
    BY RunStateAssumption DEF Types
  <1>2. F \in SUBSET Nodes
    <2>1. plan[tick_count] \in SUBSET (SUBSET Nodes)
      BY <1>1 DEF Types
    <2> QED BY <2>1 DEF Batches
  <1> DEFINE I == {i \in DOMAIN Order : Order[i] \in F}
  <1>3. Order \in Seq(Nodes)
    BY RunStateAssumption
  <1>4. DOMAIN Order = 1 .. Len(Order) /\ Nodes = {Order[i] : i \in DOMAIN Order}
    BY <1>3 DEF Nodes, ToSet
  <1>5. \A i \in 1 .. Len(Order) : Order[i] \in Nodes
    BY <1>4
  <1>6. Sorted(Order, InOrder)
    BY <1>4, <1>5 DEF Sorted, InOrder, Precedes
  <1>7. {Order[i] : i \in I \cap (1 .. Len(Order))} = F
    BY <1>2, <1>4
  <1> HIDE DEF I
  <1>8. q = Select(Order, I)
    BY DEF I
  <1>9. q \in Seq(Nodes) /\ Sorted(q, InOrder) /\ ToSet(q) = F
    BY <1>3, <1>6, <1>7, <1>8, SelectChosen, SelectSorted, SelectElements
  <1> QED BY <1>1, <1>2, <1>9

LEMMA BeginPlan ==
  ASSUME HistoryInv, mode.persistent, BeginTick
  PROVE  /\ PlanGrows /\ PlanOK'
         /\ \A f \in Firing : f.tick # tick_count => (f \in Canon' <=> f \in Canon)
         /\ \A f \in Canon' : f.tick = tick_count => f.node \in ToSet(todo')
  <1>0. Types /\ PlanOK /\ MaxTicks \in Nat /\ mode.pure /\ pc = "user"
        /\ tick_count \in 0 .. MaxTicks - 1 /\ tick_count' = tick_count /\ pc' = "tick"
        /\ plan \in [0 .. MaxTicks - 1 -> SUBSET (SUBSET Nodes)]
    BY RunStateAssumption, ModeFacts DEF HistoryInv, BeginTick, Types
  <1>1. PICK F \in Batches(tick_count) :
          /\ todo' = Select(Order, {i \in DOMAIN Order : Order[i] \in F})
          /\ plan' = [plan EXCEPT ![tick_count] = {F}]
    BY <1>0 DEF BeginTick
  <1>2. tick_count < MaxTicks
    BY <1>0
  <1>3. todo' \in Seq(Nodes) /\ ToSet(todo') = F
    BY <1>0, <1>1, <1>2, BatchFacts
  <1>4. plan[tick_count] # {} => plan[tick_count] = {F}
    BY <1>0, <1>1 DEF Batches, PlanOK
  <1>5. /\ \A t \in 0 .. MaxTicks - 1 : t # tick_count => plan'[t] = plan[t]
        /\ plan'[tick_count] = {F}
    BY <1>0, <1>1
  <1>6. PlanGrows
    BY <1>4, <1>5 DEF PlanGrows
  <1>7. PlanOK'
    <2>1. \A t \in 0 .. MaxTicks - 1 : \A G, H \in plan'[t] : G = H
      BY <1>0, <1>5 DEF PlanOK
    <2>2. \A t \in 0 .. MaxTicks - 1 : t <= tick_count => plan'[t] # {}
      <3> TAKE t \in 0 .. MaxTicks - 1
      <3>1. CASE t = tick_count
        BY <1>5, <3>1
      <3>2. CASE t < tick_count
        BY <1>0, <1>5, <3>2 DEF PlanOK
      <3> QED BY <1>0, <3>1, <3>2
    <2>3. \A t \in 0 .. MaxTicks - 1 : \A u \in 0 .. t : plan'[u] = {} => plan'[t] = {}
      <3> TAKE t \in 0 .. MaxTicks - 1
      <3> TAKE u \in 0 .. t
      <3> HAVE plan'[u] = {}
      <3>1. u \in 0 .. MaxTicks - 1 /\ tick_count < u /\ t # tick_count /\ u # tick_count
        <4>1. u \in 0 .. MaxTicks - 1 /\ u <= t
          BY <1>0
        <4>2. ~(u <= tick_count)
          BY <2>2, <4>1
        <4> QED BY <1>0, <4>1, <4>2
      <3>2. plan[u] = {}
        BY <1>5, <3>1
      <3>3. plan[t] = {}
        BY <1>0, <3>2 DEF PlanOK
      <3> QED BY <1>5, <3>1, <3>3
    <2>4. \A i \in 1 .. Len(todo') : \E G \in plan'[tick_count] : todo'[i] \in G
      BY <1>3, <1>5, ElementsOf
    <2>5. \A t \in 0 .. MaxTicks - 1 :
            t < tick_count' \/ (pc' = "tick" /\ t = tick_count') => plan'[t] # {}
      BY <1>0, <2>2
    <2>6. \A i \in 1 .. Len(todo') : \E G \in plan'[tick_count'] : todo'[i] \in G
      BY <1>0, <2>4
    <2> QED BY <2>1, <2>3, <2>5, <2>6 DEF PlanOK
  <1>8. \A f \in Firing : f.tick # tick_count => (f \in Canon' <=> f \in Canon)
    BY <1>5, FiringFacts DEF Canon
  <1>9. \A f \in Canon' : f.tick = tick_count => f.node \in ToSet(todo')
    BY <1>3, <1>5 DEF Canon
  <1> QED BY <1>6, <1>7, <1>8, <1>9

LEMMA StepBegin ==
  ASSUME HistoryInv, BeginTick
  PROVE  HistoryInv'
  <1>0. /\ pc = "user" /\ tick_count < MaxTicks /\ pc' = "tick"
        /\ UNCHANGED <<mode, rs, rows, snapshots, checkpoints, tick_count, restores, timeline>>
        /\ Types
    BY DEF BeginTick, HistoryInv
  <1>1. PICK F \in Batches(tick_count) :
          /\ todo' = Select(Order, {i \in DOMAIN Order : Order[i] \in F})
          /\ plan' = IF mode.pure \/ tick_count = 0
                     THEN [plan EXCEPT ![tick_count] = {F}] ELSE plan
    BY DEF BeginTick
  <1>2. /\ F \in SUBSET Nodes /\ tick_count \in 0 .. MaxTicks - 1
        /\ todo' \in Seq(Nodes) /\ Sorted(todo', InOrder) /\ ToSet(todo') = F
    BY <1>0, <1>1, BatchFacts
  <1>3. Types'
    <2>1. plan' \in [0 .. MaxTicks - 1 -> SUBSET (SUBSET Nodes)]
      <3>1. {F} \in SUBSET (SUBSET Nodes)
        BY <1>2
      <3> QED BY <1>0, <1>1, <3>1 DEF Types
    <2> QED BY <1>0, <1>2, <2>1 DEF Types
  <1>4. \A i \in 1 .. Len(timeline) : timeline[i].tick < tick_count
    BY <1>0 DEF HistoryInv, InTick
  <1>5. InTick'
    BY <1>0, <1>2, <1>4 DEF HistoryInv, InTick
  <1>9. CeilingOK'
    BY <1>0 DEF HistoryInv, CeilingOK
  <1>10. LayersOf(rs, timeline, tick_count)'
    BY <1>0 DEF HistoryInv, LayersOf
  <1>11. KeptOK'
    BY <1>0, KeptSame
  <1>12. ASSUME mode.persistent
         PROVE  PlanOK' /\ TimelineWhole' /\ JournalOK' /\ KeptWhole'
    <2>1. PlanOK /\ TimelineWhole /\ JournalOK /\ KeptWhole
      BY <1>12 DEF HistoryInv
    <2>2. /\ PlanGrows /\ PlanOK'
          /\ \A f \in Firing : f.tick # tick_count => (f \in Canon' <=> f \in Canon)
          /\ \A f \in Canon' : f.tick = tick_count => f.node \in ToSet(todo')
      BY <1>12, BeginPlan
    <2>3. TimelineWhole'
      <3> SUFFICES ASSUME NEW f \in Firing
                   PROVE  f \in ToSet(timeline) <=>
                            /\ f \in Canon'
                            /\ \/ f.tick < tick_count
                               \/ f.tick = tick_count /\ f.node \notin ToSet(todo')
        BY <1>0 DEF TimelineWhole
      <3>1. f \in ToSet(timeline) <=> f \in Canon /\ f.tick < tick_count
        BY <1>0, <2>1 DEF TimelineWhole
      <3>2. CASE f.tick = tick_count
        BY <1>2, <2>2, <3>1, <3>2
      <3>3. CASE f.tick # tick_count
        BY <2>2, <3>1, <3>3
      <3> QED BY <3>2, <3>3
    <2>4. Journal' = Journal /\ rs.pending = <<>>
      BY <1>0, <2>1 DEF Journal, JournalOK
    <2>5. Journal \in Seq(Firing)
      <3>1. rows \in Seq(Firing) /\ rs.pending \in Seq(Firing)
        BY <1>0 DEF Types, LayersType
      <3> QED BY <3>1, ConcatElements DEF Journal
    <2>6. Canon \subseteq Canon'
      BY <2>2, CanonBegun, FiringFacts DEF Canon
    <2>7. ASSUME NEW i \in 1 .. Len(Journal), NEW g \in Canon', <<g, Journal[i]>> \in Earlier
          PROVE  \E j \in 1 .. i - 1 : Journal[j] = g
      <3>1. g \in Canon
        <4>1. CASE g.tick # tick_count
          BY <2>2, <4>1 DEF Canon
        <4>2. CASE g.tick = tick_count
          <5>1. Journal[i] \in Canon
            BY <2>1, <2>5, ElementsOf DEF JournalOK, Grows
          <5>2. g \in Firing /\ Journal[i] \in Firing /\ plan[Journal[i].tick] # {}
            BY <5>1 DEF Canon
          <5>3. g.tick <= Journal[i].tick
            BY <2>7, <5>2, EarlierFacts, FiringFacts
          <5>4. plan[g.tick] # {}
            BY <2>1, <5>2, <5>3, FiringFacts DEF PlanOK
          <5> QED BY <2>2, <5>2, <5>4, CanonBegun
        <4> QED BY <4>1, <4>2
      <3> QED BY <2>1, <2>7, <3>1 DEF JournalOK, Grows
    <2>8. Grows(Journal)'
      BY <2>1, <2>4, <2>6, <2>7 DEF JournalOK, Grows
    <2>9. JournalOK'
      BY <1>0, <2>1, <2>4, <2>8, EmptyElements DEF JournalOK
    <2>10. KeptWhole'
      BY <1>0, <1>12, <2>2, <2>4, KeptWholeSame
    <2> QED BY <2>2, <2>3, <2>9, <2>10
  <1> QED BY <1>0, <1>3, <1>5, <1>9, <1>10, <1>11, <1>12 DEF HistoryInv

-----------------------------------------------------------------------------
(* A firing *)

LEMMA FireFacts ==
  ASSUME HistoryInv, Fire, NEW f,
         f = [tick |-> tick_count, node |-> Head(todo),
              epoch |-> IF mode.pure THEN 0 ELSE restores]
  PROVE  /\ f \in Firing /\ f.tick = tick_count /\ f.node = Head(todo)
         /\ mode.pure => f.epoch = 0
         /\ rs' = Record(rs, f) /\ timeline' = Append(timeline, f)
         /\ todo # <<>> /\ Len(todo) \in Nat \ {0} /\ Head(todo) = todo[1] /\ Head(todo) \in Nodes
         /\ Tail(todo) \in Seq(Nodes) /\ Len(Tail(todo)) = Len(todo) - 1
         /\ \A i \in 1 .. Len(todo) - 1 : Tail(todo)[i] = todo[i + 1]
         /\ \A i \in 2 .. Len(todo) : Precedes(Head(todo), todo[i])
         /\ tick_count \in 0 .. MaxTicks - 1
  <1>1. /\ todo \in Seq(Nodes) /\ todo # <<>> /\ pc = "tick" /\ tick_count < MaxTicks
        /\ tick_count \in 0 .. MaxTicks /\ MaxTicks \in Nat /\ MaxRestores \in Nat
        /\ restores \in 0 .. MaxRestores /\ mode \in Mode
    BY RunStateAssumption, ModeFacts DEF HistoryInv, Types, InTick, Fire
  <1>2. /\ Len(todo) \in Nat \ {0} /\ Head(todo) = todo[1] /\ Head(todo) \in Nodes
        /\ Tail(todo) \in Seq(Nodes) /\ Len(Tail(todo)) = Len(todo) - 1
        /\ \A i \in 1 .. Len(todo) - 1 : Tail(todo)[i] = todo[i + 1]
    BY <1>1
  <1>3. tick_count \in 0 .. MaxTicks - 1
    BY <1>1
  <1>4. mode.pure \in BOOLEAN
    BY <1>1 DEF Mode
  <1>5. f \in Firing
    <2>1. (IF mode.pure THEN 0 ELSE restores) \in 0 .. MaxRestores
      BY <1>1, <1>4
    <2> QED BY <1>2, <1>3, <2>1 DEF Firing
  <1>6. rs' = Record(rs, f) /\ timeline' = Append(timeline, f)
    BY DEF Fire
  <1>7. \A i \in 2 .. Len(todo) : Precedes(Head(todo), todo[i])
    <2>1. \A i \in 2 .. Len(todo) : <<todo[1], todo[i]>> \in InOrder
      BY <1>2 DEF HistoryInv, InTick, Sorted
    <2> QED BY <1>2, <2>1 DEF InOrder
  <1> QED BY <1>1, <1>2, <1>3, <1>5, <1>6, <1>7

\* All that was fired came before.
LEMMA FirePast ==
  ASSUME HistoryInv, Fire, NEW f \in Firing, f.tick = tick_count, f.node = Head(todo)
  PROVE  /\ \A i \in 1 .. Len(timeline) : <<timeline[i], f>> \in Earlier
         /\ \A i \in 1 .. Len(FiringsOf(timeline, f.node)) :
              FiringsOf(timeline, f.node)[i].tick < f.tick
  <1>1. /\ timeline \in Seq(Firing) /\ Sorted(timeline, Earlier)
        /\ \A i \in 1 .. Len(timeline) : timeline[i] \in Firing
    BY ElementsOf DEF HistoryInv, Types, InTick
  <1>2. 1 \in 1 .. Len(todo) /\ Head(todo) = todo[1]
    <2>1. todo \in Seq(Nodes) /\ todo # <<>>
      BY DEF HistoryInv, Types, Fire
    <2> QED BY <2>1
  <1>3. \A i \in 1 .. Len(timeline) :
          \/ timeline[i].tick < tick_count
          \/ timeline[i].tick = tick_count /\ Precedes(timeline[i].node, f.node)
    BY <1>2 DEF HistoryInv, InTick
  <1>4. \A i \in 1 .. Len(timeline) : <<timeline[i], f>> \in Earlier
    BY <1>1, <1>3, EarlierFacts
  <1> DEFINE s == FiringsOf(timeline, f.node)
  <1>5. s \in Seq(Firing) /\ ToSet(s) = {g \in ToSet(timeline) : g.node = f.node}
    BY <1>1, LogsTyped, FiringsOfElements
  <1> HIDE DEF s
  <1>6. ASSUME NEW i \in 1 .. Len(s)
        PROVE  s[i].tick < f.tick
    <2>1. s[i] \in ToSet(timeline) /\ s[i].node = f.node
      BY <1>5, ElementsOf
    <2>2. PICK j \in 1 .. Len(timeline) : timeline[j] = s[i]
      BY <1>1, <2>1, ElementsOf
    <2>3. ~Precedes(f.node, f.node)
      BY OrderFacts, FiringFacts
    <2> QED BY <1>3, <2>1, <2>2, <2>3
  <1> QED BY <1>4, <1>6 DEF s

LEMMA RecordLayers ==
  ASSUME NEW r \in LayersType, NEW T \in Seq(Firing), NEW f \in Firing, Sorted(T, Earlier),
         LayersOf(r, T, f.tick),
         \A i \in 1 .. Len(FiringsOf(T, f.node)) : FiringsOf(T, f.node)[i].tick < f.tick
  PROVE  Record(r, f) \in LayersType /\ LayersOf(Record(r, f), Append(T, f), f.tick)
  <1> DEFINE q == Record(r, f)
             U == Append(T, f)
  <1>1. /\ r.edges \in [Nodes -> Seq(Firing)] /\ r.fire_counts \in [Nodes -> Nat]
        /\ r.state \in [Nodes -> SUBSET Firing] /\ r.records \in Seq(Firing)
        /\ r.pending \in Seq(Firing) /\ r.audit_ceiling \in -1 .. MaxTicks - 1
        /\ f.node \in Nodes /\ f.tick \in 0 .. MaxTicks - 1
        /\ r = [r EXCEPT !.edges = @] /\ MaxTicks \in Nat
    BY FiringFacts, RunStateAssumption DEF LayersType
  <1>2. /\ q.edges = [r.edges EXCEPT ![f.node] = Window(Append(@, f))]
        /\ q.fire_counts = [r.fire_counts EXCEPT ![f.node] = @ + 1]
        /\ q.state = [r.state EXCEPT ![f.node] = {f}]
        /\ q.records = IF mode.keep_records /\ ~mode.persistent THEN Append(r.records, f) ELSE r.records
        /\ q.pending = IF mode.persistent THEN Append(r.pending, f) ELSE r.pending
        /\ q.audit_ceiling = IF f.tick > r.audit_ceiling THEN f.tick ELSE r.audit_ceiling
    <2>1. r = [edges |-> r.edges, fire_counts |-> r.fire_counts, state |-> r.state,
               records |-> r.records, pending |-> r.pending, audit_ceiling |-> r.audit_ceiling]
      BY DEF LayersType
    <2>2. q.edges = [r.edges EXCEPT ![f.node] = Window(Append(@, f))]
      BY <2>1 DEF Record
    <2>3. q.fire_counts = [r.fire_counts EXCEPT ![f.node] = @ + 1]
      BY <2>1 DEF Record
    <2>4. q.state = [r.state EXCEPT ![f.node] = {f}]
      BY <2>1 DEF Record
    <2>5. q.records = IF mode.keep_records /\ ~mode.persistent THEN Append(r.records, f) ELSE r.records
      BY <2>1 DEF Record
    <2>6. q.pending = IF mode.persistent THEN Append(r.pending, f) ELSE r.pending
      BY <2>1 DEF Record
    <2>7. q.audit_ceiling = IF f.tick > r.audit_ceiling THEN f.tick ELSE r.audit_ceiling
      BY <2>1 DEF Record
    <2> QED BY <2>2, <2>3, <2>4, <2>5, <2>6, <2>7
  <1> HIDE DEF q
  <1>3. HeldWindow(r.edges[f.node], FiringsOf(T, f.node), f.tick)
    BY <1>1 DEF LayersOf
  <1>4. FiringsOf(T, f.node) \in Seq(Firing) /\ r.edges[f.node] \in Seq(Firing)
    BY <1>1, LogsTyped
  <1>5. /\ Window(Append(r.edges[f.node], f)) \in Seq(Firing)
        /\ HeldWindow(Window(Append(r.edges[f.node], f)), Append(FiringsOf(T, f.node), f), f.tick)
    BY <1>3, <1>4, HeldAppend
  <1>6. q \in LayersType
    <2>1. q.edges \in [Nodes -> Seq(Firing)] /\ q.fire_counts \in [Nodes -> Nat]
      <3>1. q.edges \in [Nodes -> Seq(Firing)]
        BY <1>1, <1>2, <1>5
      <3>2. q.fire_counts \in [Nodes -> Nat]
        BY <1>1, <1>2
      <3> QED BY <3>1, <3>2
    <2>2. q.state \in [Nodes -> SUBSET Firing]
      BY <1>1, <1>2
    <2>3. q.records \in Seq(Firing) /\ q.pending \in Seq(Firing)
      BY <1>1, <1>2, AppendElements
    <2>4. q.audit_ceiling \in -1 .. MaxTicks - 1
      BY <1>1, <1>2
    <2>5. /\ DOMAIN q = {"edges", "fire_counts", "state", "records", "pending", "audit_ceiling"}
          /\ q = [x \in DOMAIN q |-> q[x]]
      BY DEF q, Record, LayersType
    <2> QED BY <2>1, <2>2, <2>3, <2>4, <2>5 DEF LayersType
  <1>7. ASSUME NEW n \in Nodes
        PROVE  /\ HeldWindow(q.edges[n], FiringsOf(U, n), f.tick)
               /\ q.fire_counts[n] = Len(FiringsOf(U, n))
               /\ q.state[n] = LastOf(FiringsOf(U, n))
    <2>1. FiringsOf(U, n) = IF f.node = n THEN Append(FiringsOf(T, n), f) ELSE FiringsOf(T, n)
      BY FiringsOfAppend
    <2>2. CASE f.node = n
      <3>1. /\ q.edges[n] = Window(Append(r.edges[n], f))
            /\ q.fire_counts[n] = r.fire_counts[n] + 1 /\ q.state[n] = {f}
        BY <1>1, <1>2, <2>2
      <3>2. FiringsOf(U, n) = Append(FiringsOf(T, n), f)
        BY <2>1, <2>2
      <3>3. r.fire_counts[n] = Len(FiringsOf(T, n))
        BY DEF LayersOf
      <3>4. /\ Len(Append(FiringsOf(T, n), f)) = Len(FiringsOf(T, n)) + 1
            /\ Append(FiringsOf(T, n), f)[Len(FiringsOf(T, n)) + 1] = f
            /\ Append(FiringsOf(T, n), f) # <<>>
        BY <1>4, <2>2, AppendElements
      <3>5. LastOf(Append(FiringsOf(T, n), f)) = {f}
        BY <3>4 DEF LastOf
      <3> QED BY <1>5, <2>2, <3>1, <3>2, <3>3, <3>4, <3>5
    <2>3. CASE f.node # n
      <3>1. /\ q.edges[n] = r.edges[n] /\ q.fire_counts[n] = r.fire_counts[n]
            /\ q.state[n] = r.state[n] /\ FiringsOf(U, n) = FiringsOf(T, n)
        BY <1>1, <1>2, <2>1, <2>3
      <3> QED BY <3>1 DEF LayersOf
    <2> QED BY <2>2, <2>3
  <1>8. q.records = IF mode.keep_records /\ ~mode.persistent THEN U ELSE <<>>
    BY <1>2 DEF LayersOf
  <1>9. LayersOf(q, U, f.tick)
    BY <1>7, <1>8 DEF LayersOf
  <1> QED BY <1>6, <1>9 DEF q

LEMMA JournalType ==
  ASSUME Types
  PROVE  /\ rows \in Seq(Firing) /\ rs.pending \in Seq(Firing) /\ Journal \in Seq(Firing)
         /\ timeline \in Seq(Firing)
         /\ ToSet(rows) \subseteq ToSet(Journal)
         /\ tick_count \in 0 .. MaxTicks /\ MaxTicks \in Nat
  <1>1. rows \in Seq(Firing) /\ rs.pending \in Seq(Firing)
    BY DEF Types, LayersType
  <1> QED BY <1>1, ConcatElements, RunStateAssumption DEF Types, Journal

\* A persistent run fires the next of the canonical history.
LEMMA FireCanon ==
  ASSUME HistoryInv, mode.persistent, Fire, NEW f \in Firing,
         f.tick = tick_count, f.node = Head(todo), f.epoch = 0
  PROVE  /\ f \in Canon
         /\ \A g \in Canon : <<g, f>> \in Earlier => g \in ToSet(timeline)
  <1>1. /\ PlanOK /\ TimelineWhole /\ Sorted(todo, InOrder) /\ todo \in Seq(Nodes) /\ todo # <<>>
        /\ pc = "tick"
    BY DEF HistoryInv, InTick, Types, Fire
  <1>2. Head(todo) = todo[1] /\ 1 \in 1 .. Len(todo) /\ Len(todo) \in Nat
    BY <1>1
  <1>3. f \in Canon
    BY <1>1, <1>2 DEF PlanOK, Canon
  <1>4. ASSUME NEW g \in Canon, <<g, f>> \in Earlier
        PROVE  g \in ToSet(timeline)
    <2>1. g \in Firing /\ (g.tick < tick_count \/ (g.tick = tick_count /\ Precedes(g.node, f.node)))
      BY <1>4, EarlierFacts DEF Canon
    <2>2. ASSUME Precedes(g.node, f.node), g.node \in ToSet(todo)
          PROVE  FALSE
      <3>1. PICK i \in 1 .. Len(todo) : todo[i] = g.node
        BY <1>1, <2>2, ElementsOf
      <3>2. CASE i = 1
        BY <1>2, <2>2, <3>1, <3>2, OrderFacts, FiringFacts
      <3>3. CASE i # 1
        <4>1. <<todo[1], todo[i]>> \in InOrder
          BY <1>1, <1>2, <3>3 DEF Sorted
        <4>2. Precedes(f.node, g.node)
          BY <1>2, <3>1, <4>1 DEF InOrder
        <4> QED BY <2>1, <2>2, <4>2, OrderFacts, FiringFacts
      <3> QED BY <3>2, <3>3
    <2> QED BY <1>1, <1>4, <2>1, <2>2 DEF TimelineWhole
  <1> QED BY <1>3, <1>4

LEMMA StepFire ==
  ASSUME HistoryInv, Fire
  PROVE  HistoryInv'
  <1> DEFINE f == [tick |-> tick_count, node |-> Head(todo),
                   epoch |-> IF mode.pure THEN 0 ELSE restores]
  <1>1. /\ f \in Firing /\ f.tick = tick_count /\ f.node = Head(todo)
        /\ mode.pure => f.epoch = 0
        /\ rs' = Record(rs, f) /\ timeline' = Append(timeline, f)
        /\ todo # <<>> /\ Len(todo) \in Nat \ {0} /\ Head(todo) = todo[1] /\ Head(todo) \in Nodes
        /\ Tail(todo) \in Seq(Nodes) /\ Len(Tail(todo)) = Len(todo) - 1
        /\ \A i \in 1 .. Len(todo) - 1 : Tail(todo)[i] = todo[i + 1]
        /\ \A i \in 2 .. Len(todo) : Precedes(Head(todo), todo[i])
        /\ tick_count \in 0 .. MaxTicks - 1
    BY FireFacts
  <1> HIDE DEF f
  <1>2. /\ pc = "tick" /\ pc' = "tick" /\ todo' = Tail(todo)
        /\ UNCHANGED <<mode, rows, snapshots, checkpoints, tick_count, plan, restores>>
        /\ Types
    BY DEF Fire, HistoryInv
  <1>3. /\ \A i \in 1 .. Len(timeline) : <<timeline[i], f>> \in Earlier
        /\ \A i \in 1 .. Len(FiringsOf(timeline, f.node)) :
             FiringsOf(timeline, f.node)[i].tick < f.tick
    BY <1>1, FirePast
  <1>4. /\ rows \in Seq(Firing) /\ rs.pending \in Seq(Firing) /\ Journal \in Seq(Firing)
        /\ timeline \in Seq(Firing)
    BY <1>2, JournalType
  <1>5. /\ timeline' \in Seq(Firing) /\ Len(timeline') = Len(timeline) + 1 /\ Len(timeline) \in Nat
        /\ timeline'[Len(timeline) + 1] = f
        /\ \A i \in 1 .. Len(timeline) : timeline'[i] = timeline[i]
        /\ ToSet(timeline') = ToSet(timeline) \cup {f}
    BY <1>1, <1>4, AppendElements
  <1>6. rs' \in LayersType /\ LayersOf(rs', timeline', tick_count)
    <2>1. rs \in LayersType /\ Sorted(timeline, Earlier) /\ LayersOf(rs, timeline, f.tick)
      BY <1>1 DEF HistoryInv, Types, InTick
    <2> QED BY <1>1, <1>3, <1>4, <2>1, RecordLayers
  <1>7. Types'
    BY <1>1, <1>2, <1>5, <1>6 DEF Types
  <1>8. Sorted(todo', InOrder)
    <2>1. Sorted(todo, InOrder)
      BY DEF HistoryInv, InTick
    <2>2. \A i \in 1 .. Len(todo) - 1 : i + 1 \in 1 .. Len(todo)
      BY <1>1
    <2> QED BY <1>1, <1>2, <2>1, <2>2 DEF Sorted
  <1>9. Sorted(timeline', Earlier)
    <2> SUFFICES ASSUME NEW i \in 1 .. Len(timeline'), NEW j \in 1 .. Len(timeline'), i < j
                 PROVE  <<timeline'[i], timeline'[j]>> \in Earlier
      BY DEF Sorted
    <2>1. i \in 1 .. Len(timeline) /\ (j \in 1 .. Len(timeline) \/ j = Len(timeline) + 1)
      BY <1>5
    <2>2. CASE j = Len(timeline) + 1
      BY <1>3, <1>5, <2>1, <2>2
    <2>3. CASE j \in 1 .. Len(timeline)
      BY <1>5, <2>1, <2>3 DEF HistoryInv, InTick, Sorted
    <2> QED BY <2>1, <2>2, <2>3
  <1>10. \A i \in 1 .. Len(timeline') :
           \/ timeline'[i].tick < tick_count
           \/ /\ timeline'[i].tick = tick_count
              /\ \A j \in 1 .. Len(todo') : Precedes(timeline'[i].node, todo'[j])
    <2> TAKE i \in 1 .. Len(timeline')
    <2>1. \A j \in 1 .. Len(todo') : j + 1 \in 2 .. Len(todo) /\ j + 1 \in 1 .. Len(todo)
                                     /\ todo'[j] = todo[j + 1]
      BY <1>1, <1>2
    <2>2. CASE i = Len(timeline) + 1
      BY <1>1, <1>5, <2>1, <2>2
    <2>3. CASE i \in 1 .. Len(timeline)
      BY <1>5, <2>1, <2>3 DEF HistoryInv, InTick
    <2> QED BY <1>5, <2>2, <2>3
  <1>11. InTick'
    <2>1. pc' = "tick" /\ tick_count' = tick_count /\ tick_count < MaxTicks
      BY <1>2 DEF HistoryInv, InTick
    <2> QED BY <1>8, <1>9, <1>10, <2>1 DEF InTick
  <1>14. CeilingOK'
    <2>1. rs'.audit_ceiling = IF f.tick > rs.audit_ceiling THEN f.tick ELSE rs.audit_ceiling
      BY <1>1, <1>2 DEF Types, LayersType, Record
    <2>2. rs.audit_ceiling \in Int /\ tick_count \in Int /\ rs.audit_ceiling <= tick_count
      BY DEF HistoryInv, CeilingOK, Types, LayersType
    <2>3. rs'.audit_ceiling = tick_count
      BY <1>1, <2>1, <2>2
    <2>4. \A i \in 1 .. Len(timeline') : timeline'[i].tick <= tick_count
      <3>1. \A i \in 1 .. Len(timeline') : timeline'[i].tick \in Int
        BY <1>3, <1>5, ElementsOf, FiringFacts
      <3> QED BY <1>10, <2>2, <3>1
    <2> QED BY <1>2, <2>3, <2>4 DEF CeilingOK
  <1>15. LayersOf(rs, timeline, tick_count)'
    BY <1>2, <1>6 DEF LayersOf
  <1>16. KeptOK'
    BY <1>2, KeptSame
  <1>17. ASSUME mode.persistent
         PROVE  PlanOK' /\ TimelineWhole' /\ JournalOK' /\ KeptWhole'
    <2>1. PlanOK /\ TimelineWhole /\ JournalOK /\ KeptWhole /\ mode.pure
      BY <1>2, <1>17, ModeFacts DEF HistoryInv, Types
    <2>2. Canon' = Canon /\ PlanGrows
      BY <1>2 DEF Canon, PlanGrows
    <2>3. \A j \in 1 .. Len(todo') : j + 1 \in 1 .. Len(todo) /\ todo'[j] = todo[j + 1]
      BY <1>1, <1>2
    <2>4. PlanOK'
      BY <1>2, <2>1, <2>3 DEF PlanOK
    <2>5. f \in Canon /\ \A g \in Canon : <<g, f>> \in Earlier => g \in ToSet(timeline)
      BY <1>1, <1>17, <2>1, FireCanon
    <2>6. \A n \in Nodes : n \in ToSet(todo') <=> n \in ToSet(todo) /\ n # Head(todo)
      <3> TAKE n \in Nodes
      <3>1. n \in ToSet(todo) <=> \E i \in 1 .. Len(todo) : todo[i] = n
        BY <1>2, ElementsOf DEF Types
      <3>2. n \in ToSet(todo') <=> \E i \in 1 .. Len(todo') : todo'[i] = n
        <4>1. todo' \in Seq(Nodes)
          BY <1>1, <1>2
        <4> QED BY <4>1, ElementsOf
      <3>3. \A i \in 2 .. Len(todo) : todo[i] # Head(todo)
        BY <1>1, OrderFacts
      <3>4. ASSUME NEW i \in 1 .. Len(todo), todo[i] = n, n # Head(todo)
            PROVE  \E j \in 1 .. Len(todo') : todo'[j] = n
        <4>1. i # 1 /\ i - 1 \in 1 .. Len(todo') /\ i - 1 + 1 = i
          BY <1>1, <1>2, <3>4
        <4> QED BY <2>3, <3>4, <4>1
      <3>5. ASSUME NEW j \in 1 .. Len(todo'), todo'[j] = n
            PROVE  n \in ToSet(todo) /\ n # Head(todo)
        <4>1. j + 1 \in 2 .. Len(todo) /\ j + 1 \in 1 .. Len(todo) /\ todo[j + 1] = n
          BY <1>1, <1>2, <2>3, <3>5
        <4> QED BY <3>1, <3>3, <4>1
      <3> QED BY <3>1, <3>2, <3>4, <3>5
    <2>7. TimelineWhole'
      <3> SUFFICES ASSUME NEW g \in Firing
                   PROVE  g \in ToSet(timeline') <=>
                            /\ g \in Canon
                            /\ \/ g.tick < tick_count
                               \/ g.tick = tick_count /\ g.node \notin ToSet(todo')
        BY <1>2, <2>2 DEF TimelineWhole
      <3>1. g \in ToSet(timeline) <=>
              /\ g \in Canon
              /\ \/ g.tick < tick_count
                 \/ g.tick = tick_count /\ g.node \notin ToSet(todo)
        BY <1>2, <2>1 DEF TimelineWhole
      <3>2. g.node \in Nodes
        BY FiringFacts
      <3>3. g \in Canon /\ g.tick = f.tick /\ g.node = f.node => g = f
        BY <2>5, FiringFacts DEF Canon
      <3> QED BY <1>1, <1>5, <2>5, <2>6, <3>1, <3>2, <3>3, FiringFacts
    <2>8. rs'.pending = Append(rs.pending, f)
      BY <1>1, <1>2, <1>17 DEF Types, LayersType, Record
    <2>9. Journal' = Append(Journal, f)
      <3>1. rows \o Append(rs.pending, f) = Append(rows \o rs.pending, f)
        <4>1. f \in Firing /\ rows \in Seq(Firing) /\ rs.pending \in Seq(Firing)
          BY <1>1, <1>4
        <4> DEFINE p == rs.pending
        <4>2. p \in Seq(Firing)
          BY <4>1
        <4> HIDE DEF p
        <4>3. rows \o Append(p, f) = Append(rows \o p, f)
          BY <4>1, <4>2
        <4> QED BY <4>3 DEF p
      <3> QED BY <1>2, <2>8, <3>1 DEF Journal
    <2>10. /\ Len(Journal') = Len(Journal) + 1 /\ Len(Journal) \in Nat
           /\ Journal'[Len(Journal) + 1] = f /\ \A i \in 1 .. Len(Journal) : Journal'[i] = Journal[i]
           /\ ToSet(Journal') = ToSet(Journal) \cup {f}
      <3>1. Len(Journal) \in Nat
        BY <1>4, ElementsOf
      <3> HIDE DEF Journal
      <3> QED BY <1>1, <1>4, <2>9, <3>1, AppendElements
    <2>11. ASSUME NEW i \in 1 .. Len(Journal'), NEW g \in Canon, <<g, Journal'[i]>> \in Earlier
           PROVE  \E j \in 1 .. i - 1 : Journal'[j] = g
      <3>1. CASE i = Len(Journal) + 1
        <4>1. g \in ToSet(timeline)
          BY <2>5, <2>10, <2>11, <3>1
        <4>2. g \in ToSet(Journal)
          BY <2>1, <4>1 DEF JournalOK
        <4>3. PICK j \in 1 .. Len(Journal) : Journal[j] = g
          BY <1>4, <4>2, ElementsOf
        <4>4. j \in 1 .. i - 1
          BY <2>10, <3>1
        <4> QED BY <2>10, <4>3, <4>4
      <3>2. CASE i \in 1 .. Len(Journal)
        <4>1. PICK j \in 1 .. i - 1 : Journal[j] = g
          BY <2>1, <2>10, <2>11, <3>2 DEF JournalOK, Grows
        <4>2. j \in 1 .. Len(Journal)
          BY <2>10, <3>2
        <4> QED BY <2>10, <4>1, <4>2
      <3> QED BY <2>10, <3>1, <3>2
    <2>12. Grows(Journal)'
      BY <2>1, <2>2, <2>5, <2>10, <2>11 DEF JournalOK, Grows
    <2>13. \A i \in 1 .. Len(rs'.pending) : rs'.pending[i].tick = tick_count
      BY <1>1, <1>2, <1>4, <2>1, <2>8, AppendElements DEF JournalOK
    <2>14. JournalOK'
      <3>1. ToSet(rs'.pending) = ToSet(rs.pending) \cup {f}
        BY <1>1, <1>4, <2>8, AppendElements
      <3>2. ToSet(rs'.pending) \subseteq ToSet(timeline')
        BY <1>5, <2>1, <3>1 DEF JournalOK
      <3> QED BY <1>2, <1>5, <2>1, <2>10, <2>12, <2>13, <3>2 DEF JournalOK
    <2>15. KeptWhole'
      BY <1>2, <1>17, <2>2, <2>10, KeptWholeSame
    <2> QED BY <2>4, <2>7, <2>14, <2>15
  <1> QED BY <1>2, <1>7, <1>11, <1>14, <1>15, <1>16, <1>17 DEF HistoryInv

-----------------------------------------------------------------------------
(* The end of a tick *)

LEMMA StepSettle ==
  ASSUME HistoryInv, Settle
  PROVE  HistoryInv'
  <1>1. /\ pc = "tick" /\ todo = <<>> /\ tick_count' = tick_count + 1 /\ pc' = "settled"
        /\ UNCHANGED <<mode, rs, rows, snapshots, checkpoints, todo, plan, restores, timeline>>
        /\ Types /\ InTick
    BY DEF Settle, HistoryInv
  <1>2. tick_count \in 0 .. MaxTicks - 1 /\ MaxTicks \in Nat /\ timeline \in Seq(Firing)
    <2>1. tick_count < MaxTicks
      BY <1>1 DEF InTick
    <2> QED BY <1>1, <2>1, JournalType
  <1>3. Types'
    BY <1>1, <1>2 DEF Types
  <1>4. \A i \in 1 .. Len(timeline) : timeline[i].tick < tick_count + 1 /\ timeline[i].tick <= tick_count
    <2> SUFFICES ASSUME NEW i \in 1 .. Len(timeline)
                 PROVE  timeline[i].tick < tick_count + 1 /\ timeline[i].tick <= tick_count
      OBVIOUS
    <2>1. timeline[i] \in Firing
      BY <1>2, ElementsOf
    <2>2. timeline[i].tick \in Int
      BY <2>1, FiringFacts
    <2>3. timeline[i].tick < tick_count \/ timeline[i].tick = tick_count
      BY <1>1 DEF InTick
    <2> QED BY <1>2, <2>2, <2>3
  <1>5. InTick'
    BY <1>1, <1>4 DEF InTick
  <1>6. CeilingOK'
    <2>1. rs.audit_ceiling \in Int /\ rs.audit_ceiling <= tick_count
      BY <1>1, <1>2 DEF HistoryInv, CeilingOK, Types, LayersType
    <2> QED BY <1>1, <1>2, <2>1 DEF HistoryInv, CeilingOK
  <1>7. LayersOf(rs, timeline, tick_count + 1)
    <2>1. LayersOf(rs, timeline, tick_count) /\ Sorted(timeline, Earlier)
      BY <1>1 DEF HistoryInv, InTick
    <2>2. ASSUME NEW n \in Nodes
          PROVE  HeldWindow(rs.edges[n], FiringsOf(timeline, n), tick_count + 1)
      <3> DEFINE e == rs.edges[n]
                 s == FiringsOf(timeline, n)
      <3>1. e \in Seq(Firing) /\ s \in Seq(Firing) /\ ToSet(s) = {f \in ToSet(timeline) : f.node = n}
        <4>1. e \in Seq(Firing)
          BY <1>1 DEF Types, LayersType
        <4>2. s \in Seq(Firing) /\ ToSet(s) = {f \in ToSet(timeline) : f.node = n}
          BY <1>2, LogsTyped, FiringsOfElements
        <4> QED BY <4>1, <4>2
      <3>2. EndOf(e, s) /\ Len(e) <= 2 /\ (s # <<>> => e # <<>>)
        BY <2>1 DEF LayersOf, HeldWindow
      <3> HIDE DEF e, s
      <3>3. \A i \in 1 .. Len(s) : s[i].tick < tick_count + 1
        <4>1. \A f \in ToSet(timeline) : f.tick < tick_count + 1
          BY <1>2, <1>4, ElementsOf
        <4> QED BY <3>1, <4>1, ElementsOf
      <3>4. HeldWindow(e, s, tick_count + 1)
        <4>1. tick_count + 1 \in Int
          BY <1>2
        <4> QED BY <3>1, <3>2, <3>3, <4>1, HeldIfPast
      <3> QED BY <3>4 DEF e, s
    <2> QED BY <2>1, <2>2 DEF LayersOf
  <1>8. LayersOf(rs, timeline, tick_count)'
    BY <1>1, <1>7 DEF LayersOf
  <1>9. KeptOK'
    BY <1>1, KeptSame
  <1>10. ASSUME mode.persistent
         PROVE  PlanOK' /\ TimelineWhole' /\ JournalOK' /\ KeptWhole'
    <2>1. PlanOK /\ TimelineWhole /\ JournalOK
      BY <1>10 DEF HistoryInv
    <2>2. Canon' = Canon /\ PlanGrows /\ Journal' = Journal
      BY <1>1 DEF Canon, PlanGrows, Journal
    <2>3. PlanOK'
      <3>1. \A t \in 0 .. MaxTicks - 1 : t < tick_count + 1 => t < tick_count \/ t = tick_count
        BY <1>2
      <3> QED BY <1>1, <2>1, <3>1, EmptyElements DEF PlanOK
    <2>4. TimelineWhole'
      <3>1. \A f \in Firing : f.tick < tick_count + 1 <=> f.tick < tick_count \/ f.tick = tick_count
        BY <1>2, FiringFacts
      <3> QED BY <1>1, <2>1, <2>2, <3>1, EmptyElements DEF TimelineWhole
    <2>5. Grows(Journal)'
      BY <2>1, <2>2 DEF JournalOK, Grows
    <2>6. JournalOK'
      BY <1>1, <1>2, <2>1, <2>2, <2>5 DEF JournalOK
    <2>7. KeptWhole'
      BY <1>1, <1>10, <2>2, KeptWholeSame
    <2> QED BY <2>3, <2>4, <2>6, <2>7
  <1> QED BY <1>1, <1>3, <1>5, <1>6, <1>8, <1>9, <1>10 DEF HistoryInv

\* A flush, of a tick or of an audit().
LEMMA Flushed ==
  ASSUME HistoryInv, rows' = rows \o rs.pending, rs' = [rs EXCEPT !.pending = <<>>],
         pc' = pc \/ (pc = "settled" /\ pc' = "flushed"),
         UNCHANGED <<mode, snapshots, checkpoints, tick_count, todo, plan, restores, timeline>>
  PROVE  HistoryInv'
  <1>1. Types /\ rows \in Seq(Firing) /\ rs.pending \in Seq(Firing) /\ rs \in LayersType
    BY JournalType DEF HistoryInv, Types
  <1>2. /\ rs' \in LayersType /\ rs'.edges = rs.edges /\ rs'.fire_counts = rs.fire_counts
        /\ rs'.state = rs.state /\ rs'.records = rs.records
        /\ rs'.audit_ceiling = rs.audit_ceiling /\ rs'.pending = <<>>
    BY <1>1, EmptyElements DEF LayersType
  <1>3. rows' \in Seq(Firing) /\ rows' \o <<>> = rows'
    BY <1>1, ConcatElements
  <1>4. Types'
    <2>1. pc' \in {"user", "tick", "settled", "flushed"}
      BY <1>1 DEF Types
    <2> QED BY <1>1, <1>2, <1>3, <2>1 DEF Types
  <1>5. InTick'
    BY DEF HistoryInv, InTick
  <1>6. CeilingOK'
    BY <1>2 DEF HistoryInv, CeilingOK
  <1>7. LayersOf(rs, timeline, tick_count)'
    BY <1>2 DEF HistoryInv, LayersOf
  <1>8. KeptOK'
    BY KeptSame
  <1>9. ASSUME mode.persistent
        PROVE  PlanOK' /\ TimelineWhole' /\ JournalOK' /\ KeptWhole'
    <2>1. PlanOK /\ TimelineWhole /\ JournalOK
      BY <1>9 DEF HistoryInv
    <2>2. Canon' = Canon /\ PlanGrows
      BY DEF Canon, PlanGrows
    <2>3. Journal' = Journal
      BY <1>2, <1>3 DEF Journal
    <2>4. ToSet(rows) \subseteq ToSet(rows')
      BY <1>1, ConcatElements
    <2>5. PlanOK' /\ TimelineWhole'
      BY <2>1, <2>2 DEF PlanOK, TimelineWhole
    <2>6. Grows(Journal)'
      BY <2>1, <2>2, <2>3 DEF JournalOK, Grows
    <2>7. JournalOK'
      BY <1>2, <2>1, <2>3, <2>6, EmptyElements DEF JournalOK
    <2>8. KeptWhole'
      BY <1>9, <2>2, <2>3, <2>4, KeptWholeSame
    <2> QED BY <2>5, <2>7, <2>8
  <1> QED BY <1>4, <1>5, <1>6, <1>7, <1>8, <1>9 DEF HistoryInv

-----------------------------------------------------------------------------
(* What is kept of a run *)

LEMMA SnapshotGood ==
  ASSUME HistoryInv, pc # "tick" \/ mode.midtick, mode.crashes => rs.pending = <<>>
  PROVE  /\ Snapshot \in SnapshotType
         /\ SnapOK(Snapshot)
         /\ mode.persistent => SnapWhole(Snapshot)
  <1> DEFINE snap == Snapshot
  <1>1. Types /\ InTick /\ rs \in LayersType /\ timeline \in Seq(Firing)
    BY DEF HistoryInv, Types
  <1>2. /\ snap.tick = tick_count /\ snap.timeline = timeline /\ snap.edges = rs.edges
        /\ snap.fire_counts = rs.fire_counts /\ snap.state = rs.state /\ snap.records = rs.records
    BY DEF Snapshot
  <1>3. snap \in SnapshotType
    BY <1>1 DEF Types, LayersType, SnapshotType, Snapshot
  <1> HIDE DEF snap
  <1>4. SnapOK(snap)
    BY <1>1, <1>2 DEF SnapOK, HistoryInv, InTick, LayersOf
  <1>5. ASSUME mode.persistent
        PROVE  SnapWhole(snap)
    <2>1. PlanOK /\ TimelineWhole /\ JournalOK
      BY <1>5 DEF HistoryInv
    <2>2. tick_count \in 0 .. MaxTicks /\ MaxTicks \in Nat
      BY <1>1, JournalType
    <2>3. \A f \in Firing : f.tick < tick_count => (f \in ToSet(timeline) <=> f \in Canon)
      BY <2>1, <2>2, FiringFacts DEF TimelineWhole
    <2>4. Canon \subseteq Firing
      BY DEF Canon
    <2>5. \A f \in Canon : f.tick < tick_count => f \in ToSet(Journal)
      BY <2>1, <2>3, <2>4 DEF JournalOK
    <2>6. mode.crashes => Journal = rows
      <3>1. rows \in Seq(Firing)
        BY <1>1 DEF Types
      <3> QED BY <3>1 DEF Journal
    <2> QED BY <1>2, <2>1, <2>3, <2>5, <2>6 DEF PlanOK, SnapWhole
  <1> QED BY <1>3, <1>4, <1>5 DEF snap

LEMMA Keeps ==
  ASSUME HistoryInv, Kept' \subseteq Kept \cup {Snapshot},
         pc # "tick" \/ mode.midtick, mode.crashes => rs.pending = <<>>,
         snapshots' \in [1 .. MaxTicks -> SUBSET SnapshotType],
         checkpoints' \in [Labels -> SUBSET SnapshotType],
         pc' = pc \/ (pc = "flushed" /\ pc' = "user"),
         UNCHANGED <<mode, rs, rows, tick_count, todo, plan, restores, timeline>>
  PROVE  HistoryInv'
  <1>1. Types' /\ InTick' /\ CeilingOK'
    BY DEF HistoryInv, Types, InTick, CeilingOK
  <1>2. LayersOf(rs, timeline, tick_count)'
    BY DEF HistoryInv, LayersOf
  <1>3. /\ SnapOK(Snapshot) /\ \A snap \in Kept : SnapOK(snap)
        /\ mode.persistent => SnapWhole(Snapshot) /\ \A snap \in Kept : SnapWhole(snap)
        /\ Kept \cup {Snapshot} \subseteq SnapshotType
    BY SnapshotGood, KeptType DEF HistoryInv, KeptOK, KeptWhole
  <1>4. KeptOK'
    <2>1. \A snap \in Kept \cup {Snapshot} : SnapOK(snap)'
      BY <1>3, SnapStays
    <2> QED BY <2>1 DEF KeptOK
  <1>5. ASSUME mode.persistent
        PROVE  PlanOK' /\ TimelineWhole' /\ JournalOK' /\ KeptWhole'
    <2>1. PlanOK /\ TimelineWhole /\ JournalOK
      BY <1>5 DEF HistoryInv
    <2>2. Canon' = Canon /\ PlanGrows /\ Journal' = Journal
      BY DEF Canon, PlanGrows, Journal
    <2>3. PlanOK' /\ TimelineWhole'
      BY <2>1, <2>2 DEF PlanOK, TimelineWhole
    <2>4. Grows(Journal)'
      BY <2>1, <2>2 DEF JournalOK, Grows
    <2>5. JournalOK'
      BY <2>1, <2>2, <2>4 DEF JournalOK
    <2>6. \A snap \in Kept \cup {Snapshot} : SnapWhole(snap)'
      BY <1>3, <1>5, <2>2, SnapWholeStays
    <2>7. KeptWhole'
      BY <2>6 DEF KeptWhole
    <2> QED BY <2>3, <2>5, <2>7
  <1> QED BY <1>1, <1>2, <1>4, <1>5 DEF HistoryInv

LEMMA StepSave ==
  ASSUME HistoryInv, SaveSnapshot
  PROVE  HistoryInv'
  <1>1. /\ pc = "flushed" /\ pc' = "user"
        /\ snapshots' = IF mode.persistent THEN [snapshots EXCEPT ![tick_count] = {Snapshot}]
                        ELSE snapshots
        /\ UNCHANGED <<mode, rs, rows, checkpoints, tick_count, todo, plan, restores, timeline>>
        /\ Types
    BY DEF SaveSnapshot, HistoryInv
  <1>2. mode.crashes => rs.pending = <<>>
    <2>1. mode.crashes => mode.persistent
      BY <1>1, ModeFacts DEF Types, Promised
    <2> QED BY <1>1, <2>1 DEF HistoryInv, JournalOK
  <1>3. Snapshot \in SnapshotType
    BY <1>1, <1>2, SnapshotGood
  <1>4. /\ snapshots' \in [1 .. MaxTicks -> SUBSET SnapshotType]
        /\ \A t \in 1 .. MaxTicks : snapshots'[t] \subseteq snapshots[t] \cup {Snapshot}
    <2>1. snapshots \in [1 .. MaxTicks -> SUBSET SnapshotType]
      BY <1>1 DEF Types
    <2> HIDE DEF Snapshot
    <2> QED BY <1>1, <1>3, <2>1
  <1>5. Kept' \subseteq Kept \cup {Snapshot}
    BY <1>1, <1>4 DEF Kept
  <1> QED BY <1>1, <1>2, <1>4, <1>5, Keeps DEF Types

LEMMA StepCheckpoint ==
  ASSUME HistoryInv, NEW l \in Labels, Checkpoint(l)
  PROVE  HistoryInv'
  <1>1. /\ pc = "user" \/ mode.midtick
        /\ checkpoints' = [checkpoints EXCEPT ![l] = {Snapshot}]
        /\ UNCHANGED <<mode, rs, rows, snapshots, tick_count, pc, todo, plan, restores, timeline>>
        /\ Types
    BY DEF Checkpoint, MayAct, HistoryInv
  <1>2. mode.crashes => rs.pending = <<>>
    <2>1. mode.crashes => mode.persistent /\ ~mode.midtick
      BY <1>1, ModeFacts DEF Types, Promised
    <2> QED BY <1>1, <2>1 DEF HistoryInv, JournalOK
  <1>3. Snapshot \in SnapshotType
    BY <1>1, <1>2, SnapshotGood
  <1>4. /\ checkpoints' \in [Labels -> SUBSET SnapshotType]
        /\ \A k \in Labels : checkpoints'[k] \subseteq checkpoints[k] \cup {Snapshot}
    <2>1. checkpoints \in [Labels -> SUBSET SnapshotType]
      BY <1>1 DEF Types
    <2> HIDE DEF Snapshot
    <2> QED BY <1>1, <1>3, <2>1
  <1>5. Kept' \subseteq Kept \cup {Snapshot}
    BY <1>1, <1>4 DEF Kept
  <1> QED BY <1>1, <1>2, <1>4, <1>5, Keeps DEF Types

-----------------------------------------------------------------------------
(* A restore *)

LEMMA UpToFacts ==
  ASSUME NEW T \in Seq(Firing), Sorted(T, Earlier), NEW t \in Int
  PROVE  /\ UpTo(T, t - 1) \in Seq(Firing) /\ Sorted(UpTo(T, t - 1), Earlier)
         /\ \A f : f \in ToSet(UpTo(T, t - 1)) <=> f \in ToSet(T) /\ f.tick < t
         /\ \A i \in 1 .. Len(UpTo(T, t - 1)) : UpTo(T, t - 1)[i].tick < t
         /\ (\A i \in 1 .. Len(T) : T[i].tick < t) => UpTo(T, t - 1) = T
  <1> DEFINE U == UpTo(T, t - 1)
  <1>1. U \in Seq(Firing) /\ Sorted(U, Earlier) /\ ToSet(U) = {f \in ToSet(T) : f.tick <= t - 1}
    BY LogsTyped, SelectSorted, UpToElements DEF UpTo
  <1> HIDE DEF U
  <1>2. \A f \in ToSet(T) : f.tick <= t - 1 <=> f.tick < t
    BY ElementsOf, FiringFacts
  <1>3. \A f : f \in ToSet(U) <=> f \in ToSet(T) /\ f.tick < t
    BY <1>1, <1>2
  <1>4. \A i \in 1 .. Len(U) : U[i].tick < t
    BY <1>1, <1>3, ElementsOf
  <1>5. ASSUME \A i \in 1 .. Len(T) : T[i].tick < t
        PROVE  U = T
    <2>1. \A f \in ToSet(T) : f.tick < t
      BY <1>5, ElementsOf
    <2>2. ToSet(U) = ToSet(T)
      BY <1>3, <2>1
    <2> QED BY <1>1, <2>2, EarlierFacts, SortedUnique
  <1> QED BY <1>1, <1>3, <1>4, <1>5 DEF U

\* A part of such a log, chosen by its elements, has them in order once the
\* repetitions are left out.
LEMMA GrownPart ==
  ASSUME NEW D \in Seq(Firing), Grows(D), NEW I, I \subseteq DOMAIN D,
         \A a, b \in DOMAIN D : a \in I /\ D[a] = D[b] => b \in I
  PROVE  /\ KeepFirst(Select(D, I)) \in Seq(Firing)
         /\ ToSet(KeepFirst(Select(D, I))) = ToSet(Select(D, I))
         /\ Sorted(KeepFirst(Select(D, I)), Earlier)
  <1> DEFINE p == Select(D, I)
  <1>1. p \in Seq(Firing) /\ ToSet(p) = {D[i] : i \in I \cap (1 .. Len(D))}
    BY SelectChosen, SelectElements
  <1>2. \E e : Chosen(e, p, D, I)
    BY SelectChosen
  <1>3. PICK e : Chosen(e, p, D, I)
    BY <1>2
  <1> HIDE DEF p
  <1>4. /\ Len(p) \in Nat /\ DOMAIN D = 1 .. Len(D) /\ Len(D) \in Nat
        /\ \A k \in 1 .. Len(p) : p[k] = D[e[k]] /\ e[k] \in 1 .. Len(D)
        /\ \A k, l \in 1 .. Len(p) : k < l => e[k] < e[l]
        /\ \A i \in I : \E k \in 1 .. Len(p) : e[k] = i
    <2>1. DOMAIN D = 1 .. Len(D) /\ Len(D) \in Nat /\ I \cap (1 .. Len(D)) = I
      <3>1. DOMAIN D = 1 .. Len(D) /\ Len(D) \in Nat
        OBVIOUS
      <3> QED BY <3>1
    <2>2. /\ Len(p) \in Nat /\ p = [k \in 1 .. Len(p) |-> D[e[k]]]
          /\ e \in [1 .. Len(p) -> I]
          /\ \A k, l \in 1 .. Len(p) : k < l => e[k] < e[l]
          /\ \A i \in I : \E k \in 1 .. Len(p) : e[k] = i
      BY <1>3, <2>1 DEF Chosen
    <2>3. \A k \in 1 .. Len(p) : p[k] = D[e[k]] /\ e[k] \in I
      BY <2>2
    <2>4. \A k \in 1 .. Len(p) : e[k] \in 1 .. Len(D)
      BY <2>1, <2>3
    <2> QED BY <2>1, <2>2, <2>3, <2>4
  <1>5. ToSet(D) \subseteq Canon /\ Canon \subseteq Firing /\ ToSet(p) \subseteq Canon
    <2>1. ToSet(D) \subseteq Canon
      BY DEF Grows
    <2>2. ToSet(p) \subseteq ToSet(D)
      BY <1>1, <1>4, ElementsOf
    <2> QED BY <2>1, <2>2 DEF Canon
  <1>6. \A x, y \in ToSet(p) : SameKey(x, y) => x = y
    <2>1. \A x, y \in Canon : SameKey(x, y) => x = y
      BY FiringFacts DEF Canon, SameKey
    <2> QED BY <1>5, <2>1
  <1>7. \A x, y \in ToSet(p) : <<x, y>> \in Earlier \/ <<y, x>> \in Earlier \/ SameKey(x, y)
    <2> TAKE x, y \in ToSet(p)
    <2>1. x \in Firing /\ y \in Firing
      BY <1>5
    <2>2. x.tick < y.tick \/ y.tick < x.tick \/ x.tick = y.tick
      BY <2>1, FiringFacts
    <2>3. x.node = y.node \/ Precedes(x.node, y.node) \/ Precedes(y.node, x.node)
      BY <2>1, FiringFacts, OrderFacts
    <2> QED BY <2>1, <2>2, <2>3, EarlierFacts DEF SameKey
  <1>8. ASSUME NEW i \in 1 .. Len(p), NEW g \in ToSet(p), <<g, p[i]>> \in Earlier
        PROVE  \E j \in 1 .. i - 1 : p[j] = g
    <2>1. g \in Canon /\ p[i] = D[e[i]] /\ e[i] \in 1 .. Len(D)
      BY <1>4, <1>5
    <2>2. PICK a \in I : g = D[a]
      BY <1>1
    <2>3. PICK b \in 1 .. e[i] - 1 : D[b] = g
      BY <1>8, <2>1 DEF Grows
    <2>4. a \in DOMAIN D /\ b \in DOMAIN D
      BY <1>4, <2>1
    <2>5. b \in I
      BY <2>2, <2>3, <2>4
    <2>6. PICK k \in 1 .. Len(p) : e[k] = b
      BY <1>4, <2>5
    <2>7. ~(i < k) /\ i # k
      <3>1. b \in Nat /\ e[i] \in Nat /\ b < e[i]
        BY <1>4, <2>1, <2>3
      <3>2. i < k => e[i] < e[k]
        BY <1>4
      <3> QED BY <2>6, <3>1, <3>2
    <2>8. k \in 1 .. i - 1
      BY <1>4, <2>7
    <2> QED BY <1>4, <2>3, <2>6, <2>8
  <1>9. KeepFirst(p) \in Seq(Firing)
    BY <1>1, LogsTyped
  <1>10. ToSet(KeepFirst(p)) = ToSet(p)
    BY <1>1, <1>6, KeepFirstElements
  <1>11. Sorted(KeepFirst(p), Earlier)
    <2>1. \A i \in 1 .. Len(p) : \A g \in ToSet(p) :
            <<g, p[i]>> \in Earlier => \E j \in 1 .. i - 1 : SameKey(p[j], g)
      BY <1>8 DEF SameKey
    <2> QED BY <1>1, <1>7, <2>1, KeepFirstSorted
  <1> QED BY <1>9, <1>10, <1>11 DEF p

\* The rows on disk, without repetitions, are the run up to any tick that
\* they hold all of.
LEMMA Replayed ==
  ASSUME NEW T \in Seq(Firing), Sorted(T, Earlier), NEW D \in Seq(Firing), Grows(D), NEW t \in Int,
         \A f \in Firing : f.tick <= t => (f \in ToSet(T) <=> f \in Canon),
         \A f \in Canon : f.tick <= t => f \in ToSet(D)
  PROVE  KeepFirst(UpTo(D, t)) = UpTo(T, t)
  <1> DEFINE I == {i \in DOMAIN D : D[i].tick <= t}
             p == Select(D, I)
             U == UpTo(T, t)
             k == KeepFirst(p)
  <1>1. p \in Seq(Firing) /\ ToSet(p) = {f \in ToSet(D) : f.tick <= t} /\ p = UpTo(D, t)
    BY LogsTyped, UpToElements DEF UpTo
  <1>2. U \in Seq(Firing) /\ Sorted(U, Earlier) /\ ToSet(U) = {f \in ToSet(T) : f.tick <= t}
    BY LogsTyped, SelectSorted, UpToElements DEF UpTo
  <1>3. k \in Seq(Firing) /\ ToSet(k) = ToSet(p) /\ Sorted(k, Earlier)
    <2>1. I \subseteq DOMAIN D /\ \A a, b \in DOMAIN D : a \in I /\ D[a] = D[b] => b \in I
      OBVIOUS
    <2> HIDE DEF I
    <2> QED BY <2>1, GrownPart
  <1> HIDE DEF p, U, k
  <1>4. ToSet(p) = ToSet(U)
    <2>1. \A f \in Firing : f \in ToSet(p) <=> f \in Canon /\ f.tick <= t
      <3>1. ToSet(D) \subseteq Canon
        BY DEF Grows
      <3> QED BY <1>1, <3>1
    <2>2. \A f \in Firing : f \in ToSet(U) <=> f \in Canon /\ f.tick <= t
      BY <1>2
    <2>3. ToSet(p) \subseteq Firing /\ ToSet(U) \subseteq Firing
      BY <1>1, <1>2, ElementsOf
    <2> QED BY <2>1, <2>2, <2>3
  <1>5. k = U
    BY <1>2, <1>3, <1>4, EarlierFacts, SortedUnique
  <1> QED BY <1>1, <1>5 DEF k, U

Loaded(snap) ==
  [Fresh EXCEPT !.edges = snap.edges, !.fire_counts = snap.fire_counts,
                !.state = snap.state, !.records = snap.records]

LEMMA LoadedFacts ==
  ASSUME NEW snap \in SnapshotType
  PROVE  /\ Loaded(snap) \in LayersType
         /\ Loaded(snap).edges = snap.edges /\ Loaded(snap).fire_counts = snap.fire_counts
         /\ Loaded(snap).state = snap.state /\ Loaded(snap).records = snap.records
         /\ snap.edges \in [Nodes -> Seq(Firing)] /\ snap.fire_counts \in [Nodes -> Nat]
         /\ snap.state \in [Nodes -> SUBSET Firing] /\ snap.records \in Seq(Firing)
         /\ snap.timeline \in Seq(Firing) /\ snap.tick \in 0 .. MaxTicks
  <1>1. Fresh \in LayersType
    BY FreshLayers
  <1>2. /\ snap.edges \in [Nodes -> Seq(Firing)] /\ snap.fire_counts \in [Nodes -> Nat]
        /\ snap.state \in [Nodes -> SUBSET Firing] /\ snap.records \in Seq(Firing)
        /\ snap.timeline \in Seq(Firing) /\ snap.tick \in 0 .. MaxTicks
    BY DEF SnapshotType
  <1> HIDE DEF Fresh
  <1> QED BY <1>1, <1>2 DEF Loaded, LayersType

\* The windows of a snapshot, rewound.
LEMMA RewoundWindows ==
  ASSUME NEW snap \in SnapshotType, SnapOK(snap), NEW n \in Nodes
  PROVE  \E e \in Seq(Firing), s \in Seq(Firing) :
           /\ e = UpTo(snap.edges[n], snap.tick - 1)
           /\ s = FiringsOf(UpTo(snap.timeline, snap.tick - 1), n)
           /\ HeldWindow(e, s, snap.tick)
           /\ Len(s) = IF e = <<>> THEN 0
                       ELSE snap.fire_counts[n] - (Len(snap.edges[n]) - Len(e))
           /\ e = <<>> => s = <<>>
  <1> DEFINE T == snap.timeline
             S == FiringsOf(T, n)
             e == UpTo(snap.edges[n], snap.tick - 1)
             s == FiringsOf(UpTo(snap.timeline, snap.tick - 1), n)
  <1>1. T \in Seq(Firing) /\ snap.edges[n] \in Seq(Firing) /\ snap.tick \in Int
    <2>1. snap.tick \in 0 .. MaxTicks /\ MaxTicks \in Nat
      BY LoadedFacts, RunStateAssumption
    <2>2. T \in Seq(Firing) /\ snap.edges \in [Nodes -> Seq(Firing)]
      BY LoadedFacts
    <2> QED BY <2>1, <2>2
  <1>2. Sorted(T, Earlier) /\ LayersOf(snap, T, snap.tick)
    BY DEF SnapOK
  <1> HIDE DEF T, e, s
  <1>3. S \in Seq(Firing) /\ \A i, j \in 1 .. Len(S) : i < j => S[i].tick < S[j].tick
    BY <1>1, <1>2, FiringsRise
  <1>4. HeldWindow(snap.edges[n], S, snap.tick) /\ snap.fire_counts[n] = Len(S)
    BY <1>2 DEF LayersOf
  <1>5. s = UpTo(S, snap.tick - 1)
    <2>1. s = FiringsOf(UpTo(T, snap.tick - 1), n)
      BY DEF T, s
    <2> QED BY <1>1, <1>2, <2>1, EarlierFacts, FiringsOfUpTo
  <1> DEFINE w == snap.edges[n]
             k == snap.tick
  <1>6. e = UpTo(w, k - 1) /\ s = UpTo(S, k - 1) /\ w \in Seq(Firing) /\ k \in Int
    BY <1>1, <1>5 DEF e
  <1>7. HeldWindow(w, S, k) /\ snap.fire_counts[n] = Len(S)
    BY <1>4
  <1> HIDE DEF S, w, k
  <1>8. /\ e \in Seq(Firing) /\ s \in Seq(Firing)
        /\ HeldWindow(e, s, k)
        /\ Len(s) = IF e = <<>> THEN 0 ELSE Len(S) - (Len(w) - Len(e))
    BY <1>3, <1>6, <1>7, HeldUpTo
  <1>9. e = <<>> => s = <<>>
    <2>1. Len(s) = 0 => s = <<>>
      BY <1>8
    <2> QED BY <1>8, <2>1
  <1>10. /\ e = UpTo(snap.edges[n], snap.tick - 1)
         /\ s = FiringsOf(UpTo(snap.timeline, snap.tick - 1), n)
    BY DEF e, s
  <1> QED BY <1>7, <1>8, <1>9, <1>10 DEF w, k

LEMMA LastType ==
  ASSUME NEW s \in Seq(Firing)
  PROVE  LastOf(s) \subseteq Firing
  <1>1. Len(s) \in Nat /\ (s # <<>> => Len(s) \in 1 .. Len(s))
    OBVIOUS
  <1> QED BY <1>1, ElementsOf DEF LastOf

\* In memory the layers are truncated.
LEMMA RestoreInMemory ==
  ASSUME mode \in Modes, ~mode.persistent, NEW snap \in SnapshotType, SnapOK(snap),
         NEW q, q = TruncateInMemory(Loaded(snap), snap.tick - 1)
  PROVE  q \in LayersType /\ LayersOf(q, UpTo(snap.timeline, snap.tick - 1), snap.tick)
  <1> DEFINE r == Loaded(snap)
             t == snap.tick - 1
             T == UpTo(snap.timeline, t)
  <1>1. /\ r \in LayersType /\ r.edges = snap.edges /\ r.fire_counts = snap.fire_counts
        /\ r.state = snap.state /\ r.records = snap.records
        /\ snap.edges \in [Nodes -> Seq(Firing)] /\ snap.fire_counts \in [Nodes -> Nat]
        /\ snap.state \in [Nodes -> SUBSET Firing] /\ snap.records \in Seq(Firing)
        /\ snap.timeline \in Seq(Firing) /\ snap.tick \in 0 .. MaxTicks /\ MaxTicks \in Nat
    BY LoadedFacts, RunStateAssumption
  <1> HIDE DEF r
  <1>2. /\ q.edges = Rewind(r, t)
        /\ q.records = IF mode.keep_records THEN UpTo(r.records, t) ELSE <<>>
        /\ q.fire_counts = [n \in Nodes |-> IF Rewind(r, t)[n] = <<>> THEN 0
                              ELSE r.fire_counts[n] - (Len(r.edges[n]) - Len(Rewind(r, t)[n]))]
        /\ q.state = [n \in Nodes |->
                        IF mode.keep_records THEN LastOf(FiringsOf(UpTo(r.records, t), n))
                        ELSE IF Rewind(r, t)[n] = <<>> THEN {} ELSE r.state[n]]
        /\ q.pending = r.pending /\ q.audit_ceiling = r.audit_ceiling
        /\ DOMAIN q = {"edges", "fire_counts", "state", "records", "pending", "audit_ceiling"}
        /\ q = [x \in DOMAIN q |-> q[x]]
    <2>1. q = TruncateInMemory(r, t)
      BY DEF r
    <2>2. r = [edges |-> r.edges, fire_counts |-> r.fire_counts, state |-> r.state,
               records |-> r.records, pending |-> r.pending, audit_ceiling |-> r.audit_ceiling]
      BY <1>1 DEF LayersType
    <2> HIDE DEF t
    <2>3. q.edges = Rewind(r, t)
      BY <2>1, <2>2 DEF TruncateInMemory
    <2>4. q.records = IF mode.keep_records THEN UpTo(r.records, t) ELSE <<>>
      BY <2>1, <2>2 DEF TruncateInMemory
    <2>5. q.fire_counts = [n \in Nodes |-> IF Rewind(r, t)[n] = <<>> THEN 0
                             ELSE r.fire_counts[n] - (Len(r.edges[n]) - Len(Rewind(r, t)[n]))]
      BY <2>1, <2>2 DEF TruncateInMemory
    <2>6. q.state = [n \in Nodes |->
                       IF mode.keep_records THEN LastOf(FiringsOf(UpTo(r.records, t), n))
                       ELSE IF Rewind(r, t)[n] = <<>> THEN {} ELSE r.state[n]]
      <3> DEFINE st == [n \in Nodes |->
                          IF mode.keep_records
                          THEN LastOf(FiringsOf(IF mode.keep_records THEN UpTo(r.records, t)
                                                ELSE <<>>, n))
                          ELSE IF Rewind(r, t)[n] = <<>> THEN {} ELSE r.state[n]]
      <3>1. q.state = st
        <4> HIDE DEF st
        <4> QED BY <2>1, <2>2 DEF TruncateInMemory, st
      <3> QED BY <3>1
    <2>7. /\ q.pending = r.pending /\ q.audit_ceiling = r.audit_ceiling
          /\ DOMAIN q = {"edges", "fire_counts", "state", "records", "pending", "audit_ceiling"}
          /\ q = [x \in DOMAIN q |-> q[x]]
      BY <1>1, <2>1 DEF TruncateInMemory, LayersType
    <2> QED BY <2>3, <2>4, <2>5, <2>6, <2>7
  <1>3. Sorted(snap.timeline, Earlier) /\ LayersOf(snap, snap.timeline, snap.tick)
    BY DEF SnapOK
  <1>4. ASSUME NEW n \in Nodes
        PROVE  /\ q.edges[n] \in Seq(Firing) /\ FiringsOf(T, n) \in Seq(Firing)
               /\ HeldWindow(q.edges[n], FiringsOf(T, n), snap.tick)
               /\ q.fire_counts[n] = Len(FiringsOf(T, n))
               /\ Rewind(r, t)[n] = <<>> => FiringsOf(T, n) = <<>>
    <2>1. q.edges[n] = UpTo(snap.edges[n], t) /\ Rewind(r, t)[n] = UpTo(snap.edges[n], t)
      BY <1>1, <1>2 DEF Rewind
    <2>2. PICK e \in Seq(Firing), s \in Seq(Firing) :
            /\ e = UpTo(snap.edges[n], snap.tick - 1)
            /\ s = FiringsOf(UpTo(snap.timeline, snap.tick - 1), n)
            /\ HeldWindow(e, s, snap.tick)
            /\ Len(s) = IF e = <<>> THEN 0
                        ELSE snap.fire_counts[n] - (Len(snap.edges[n]) - Len(e))
            /\ e = <<>> => s = <<>>
      BY RewoundWindows
    <2>3. q.edges[n] = e /\ Rewind(r, t)[n] = e /\ s = FiringsOf(T, n)
      BY <2>1, <2>2
    <2> HIDE DEF T, t
    <2>4. q.fire_counts[n] = IF e = <<>> THEN 0
                             ELSE snap.fire_counts[n] - (Len(snap.edges[n]) - Len(e))
      <3>1. q.fire_counts = [i \in Nodes |-> IF Rewind(r, t)[i] = <<>> THEN 0
                               ELSE r.fire_counts[i] - (Len(r.edges[i]) - Len(Rewind(r, t)[i]))]
        BY <1>2
      <3>2. r.edges = snap.edges /\ r.fire_counts = snap.fire_counts
        BY <1>1
      <3> QED BY <2>3, <3>1, <3>2
    <2> QED BY <2>2, <2>3, <2>4
  <1>5. T \in Seq(Firing) /\ (~mode.midtick => T = snap.timeline)
    <2>1. ~mode.midtick => \A i \in 1 .. Len(snap.timeline) : snap.timeline[i].tick < snap.tick
      BY DEF SnapOK
    <2>2. snap.tick \in Int
      BY <1>1
    <2> QED BY <1>1, <1>3, <2>1, <2>2, UpToFacts
  <1>6. q.records = IF mode.keep_records THEN T ELSE <<>>
    BY <1>1, <1>2, <1>3 DEF LayersOf
  <1>7. ASSUME NEW n \in Nodes
        PROVE  q.state[n] = LastOf(FiringsOf(T, n))
    <2>1. CASE mode.keep_records
      <3>1. snap.records = snap.timeline
        BY <1>3, <2>1 DEF LayersOf
      <3> QED BY <1>1, <1>2, <2>1, <3>1
    <2>2. CASE ~mode.keep_records
      <3>1. T = snap.timeline
        BY <1>5, <2>2, ModeFacts DEF Promised
      <3>2. snap.state[n] = LastOf(FiringsOf(T, n))
        BY <1>3, <3>1 DEF LayersOf
      <3>3. LastOf(<<>>) = {}
        BY DEF LastOf
      <3>4. q.state[n] = IF Rewind(r, t)[n] = <<>> THEN {} ELSE snap.state[n]
        <4>1. r.state = snap.state
          BY <1>1
        <4>2. q.state = [i \in Nodes |->
                           IF mode.keep_records THEN LastOf(FiringsOf(UpTo(r.records, t), i))
                           ELSE IF Rewind(r, t)[i] = <<>> THEN {} ELSE r.state[i]]
          BY <1>2
        <4> HIDE DEF t
        <4> QED BY <2>2, <4>1, <4>2
      <3> QED BY <1>4, <3>2, <3>3, <3>4
    <2> QED BY <2>1, <2>2
  <1> HIDE DEF T, t
  <1>8. LayersOf(q, T, snap.tick)
    BY <1>4, <1>6, <1>7 DEF LayersOf
  <1>9. q \in LayersType
    <2>1. q.edges \in [Nodes -> Seq(Firing)]
      <3>1. q.edges = [n \in Nodes |-> q.edges[n]]
        BY <1>2 DEF Rewind
      <3> QED BY <1>4, <3>1
    <2>2. q.fire_counts \in [Nodes -> Nat]
      <3>1. q.fire_counts = [n \in Nodes |-> q.fire_counts[n]]
        BY <1>2
      <3>2. \A n \in Nodes : q.fire_counts[n] \in Nat
        BY <1>4
      <3> QED BY <3>1, <3>2
    <2>3. q.state \in [Nodes -> SUBSET Firing]
      <3>1. q.state = [n \in Nodes |-> q.state[n]]
        BY <1>2
      <3>2. ASSUME NEW n \in Nodes
            PROVE  q.state[n] \subseteq Firing
        BY <1>4, <1>7, LastType
      <3> QED BY <3>1, <3>2
    <2>4. q.records \in Seq(Firing)
      BY <1>5, <1>6, EmptyElements
    <2>5. q.pending \in Seq(Firing) /\ q.audit_ceiling \in -1 .. MaxTicks - 1
      BY <1>1, <1>2 DEF LayersType
    <2> QED BY <1>2, <2>1, <2>2, <2>3, <2>4, <2>5 DEF LayersType
  <1> QED BY <1>8, <1>9 DEF T, t

\* From rows on disk the layers are rebuilt.
LEMMA RestoreFromDisk ==
  ASSUME mode \in Modes, mode.persistent, NEW snap \in SnapshotType, SnapOK(snap), SnapWhole(snap),
         NEW D \in Seq(Firing), Grows(D), \A f \in Canon : f.tick < snap.tick => f \in ToSet(D),
         NEW q, q = RebuildFrom(Loaded(snap), D, snap.tick - 1)
  PROVE  q \in LayersType /\ LayersOf(q, UpTo(snap.timeline, snap.tick - 1), snap.tick)
  <1> DEFINE r == Loaded(snap)
             k == snap.tick
             T == UpTo(snap.timeline, k - 1)
             K == KeepFirst(UpTo(D, k - 1))
  <1>1. /\ r \in LayersType /\ snap.timeline \in Seq(Firing) /\ k \in Int /\ k - 1 \in Int
        /\ Sorted(snap.timeline, Earlier)
    <2>1. k \in 0 .. MaxTicks /\ MaxTicks \in Nat
      BY LoadedFacts, RunStateAssumption
    <2> QED BY <2>1, LoadedFacts DEF SnapOK
  <1>2. /\ \A f \in Firing : f.tick < k => (f \in ToSet(snap.timeline) <=> f \in Canon)
        /\ \A f \in Canon : f.tick < k => f \in ToSet(D)
    BY DEF SnapWhole
  <1>3. q = RebuildFrom(r, D, k - 1)
    OBVIOUS
  <1> HIDE DEF r, k
  <1>4. K = T
    <2>1. \A f \in Firing : f.tick <= k - 1 <=> f.tick < k
      BY <1>1, FiringFacts
    <2>2. Canon \subseteq Firing
      BY DEF Canon
    <2>3. /\ \A f \in Firing : f.tick <= k - 1 => (f \in ToSet(snap.timeline) <=> f \in Canon)
          /\ \A f \in Canon : f.tick <= k - 1 => f \in ToSet(D)
      BY <1>2, <2>1, <2>2
    <2> QED BY <1>1, <2>3, Replayed
  <1>5. K \in Seq(Firing) /\ Sorted(K, Earlier) /\ \A i \in 1 .. Len(K) : K[i].tick < k
    <2>1. T \in Seq(Firing) /\ Sorted(T, Earlier) /\ \A i \in 1 .. Len(T) : T[i].tick < k
      BY <1>1, UpToFacts
    <2> HIDE DEF T, K
    <2> QED BY <1>4, <2>1
  <1> HIDE DEF T, K
  <1>6. /\ q.edges = [n \in Nodes |-> Window(FiringsOf(K, n))]
        /\ q.fire_counts = [n \in Nodes |-> Len(FiringsOf(K, n))]
        /\ q.state = [n \in Nodes |->
                        {f \in ToSet(FiringsOf(K, n)) :
                           \A g \in ToSet(FiringsOf(K, n)) : g.tick <= f.tick}]
        /\ q.records = <<>> /\ q.pending = r.pending /\ q.audit_ceiling = r.audit_ceiling
        /\ DOMAIN q = {"edges", "fire_counts", "state", "records", "pending", "audit_ceiling"}
        /\ q = [x \in DOMAIN q |-> q[x]]
    <2>1. r = [edges |-> r.edges, fire_counts |-> r.fire_counts, state |-> r.state,
               records |-> r.records, pending |-> r.pending, audit_ceiling |-> r.audit_ceiling]
      BY <1>1 DEF LayersType
    <2> DEFINE E == [n \in Nodes |-> Window(FiringsOf(K, n))]
               F == [n \in Nodes |-> Len(FiringsOf(K, n))]
               S == [n \in Nodes |->
                       {f \in ToSet(FiringsOf(K, n)) :
                          \A g \in ToSet(FiringsOf(K, n)) : g.tick <= f.tick}]
    <2>2. q = [r EXCEPT !.edges = E, !.fire_counts = F, !.state = S, !.records = <<>>]
      BY <1>3 DEF RebuildFrom, K
    <2>3. /\ q.edges = E /\ q.fire_counts = F /\ q.state = S /\ q.records = <<>>
          /\ q.pending = r.pending /\ q.audit_ceiling = r.audit_ceiling
          /\ DOMAIN q = {"edges", "fire_counts", "state", "records", "pending", "audit_ceiling"}
          /\ q = [x \in DOMAIN q |-> q[x]]
      <3> HIDE DEF E, F, S
      <3> QED BY <2>1, <2>2
    <2> QED BY <2>3
  <1>7. ASSUME NEW n \in Nodes
        PROVE  /\ q.edges[n] \in Seq(Firing) /\ FiringsOf(K, n) \in Seq(Firing)
               /\ HeldWindow(q.edges[n], FiringsOf(K, n), k)
               /\ q.fire_counts[n] = Len(FiringsOf(K, n))
               /\ q.state[n] = LastOf(FiringsOf(K, n))
               /\ q.state[n] \subseteq Firing
    <2> DEFINE s == FiringsOf(K, n)
    <2>1. s \in Seq(Firing) /\ \A i, j \in 1 .. Len(s) : i < j => s[i].tick < s[j].tick
      BY <1>5, FiringsRise
    <2>2. ToSet(s) \subseteq ToSet(K)
      BY <1>5, FiringsOfElements
    <2>3. q.edges[n] = Window(s) /\ q.fire_counts[n] = Len(s)
      BY <1>6
    <2>4. q.state[n] = {f \in ToSet(s) : \A g \in ToSet(s) : g.tick <= f.tick}
      BY <1>6
    <2> HIDE DEF s
    <2>5. \A i \in 1 .. Len(s) : s[i].tick < k
      <3>1. \A f \in ToSet(K) : f.tick < k
        BY <1>5, ElementsOf
      <3> QED BY <2>1, <2>2, <3>1, ElementsOf
    <2>6. Window(s) \in Seq(Firing) /\ HeldWindow(Window(s), s, k)
      BY <1>1, <2>1, <2>5, HeldWhole
    <2>7. LastOf(s) = {f \in ToSet(s) : \A g \in ToSet(s) : g.tick <= f.tick}
      <3>1. \A x \in Firing : x.tick \in Int
        BY FiringFacts
      <3> QED BY <2>1, <3>1, LastIsNewest
    <2>8. LastOf(s) \subseteq Firing
      BY <2>1, LastType
    <2> QED BY <2>1, <2>3, <2>4, <2>6, <2>7, <2>8 DEF s
  <1>8. LayersOf(q, K, k)
    BY <1>6, <1>7 DEF LayersOf
  <1>9. q \in LayersType
    <2>1. q.edges \in [Nodes -> Seq(Firing)]
      <3>1. q.edges = [n \in Nodes |-> q.edges[n]]
        BY <1>6
      <3> QED BY <1>7, <3>1
    <2>2. q.fire_counts \in [Nodes -> Nat]
      <3>1. q.fire_counts = [n \in Nodes |-> q.fire_counts[n]]
        BY <1>6
      <3>2. \A n \in Nodes : q.fire_counts[n] \in Nat
        BY <1>7
      <3> QED BY <3>1, <3>2
    <2>3. q.state \in [Nodes -> SUBSET Firing]
      <3>1. q.state = [n \in Nodes |-> q.state[n]]
        BY <1>6
      <3> QED BY <1>7, <3>1
    <2>4. /\ q.records \in Seq(Firing) /\ q.pending \in Seq(Firing)
          /\ q.audit_ceiling \in -1 .. MaxTicks - 1
      BY <1>1, <1>6, EmptyElements DEF LayersType
    <2> QED BY <1>6, <2>1, <2>2, <2>3, <2>4 DEF LayersType
  <1> QED BY <1>4, <1>8, <1>9 DEF T, k

\* Without a row on disk nothing had fired before the snapshot's tick.
LEMMA RestorePruned ==
  ASSUME mode \in Modes, mode.persistent, NEW snap \in SnapshotType, SnapOK(snap), SnapWhole(snap),
         \A f \in Canon : ~(f.tick < snap.tick),
         NEW q, q = PruneOnly(Loaded(snap), snap.tick - 1)
  PROVE  q \in LayersType /\ LayersOf(q, UpTo(snap.timeline, snap.tick - 1), snap.tick)
  <1> DEFINE r == Loaded(snap)
             k == snap.tick
             T == UpTo(snap.timeline, k - 1)
  <1>1. /\ r \in LayersType /\ r.edges = snap.edges
        /\ snap.timeline \in Seq(Firing) /\ k \in Int /\ k - 1 \in Int
        /\ snap.edges \in [Nodes -> Seq(Firing)]
        /\ Sorted(snap.timeline, Earlier)
    <2>1. k \in 0 .. MaxTicks /\ MaxTicks \in Nat
      BY LoadedFacts, RunStateAssumption
    <2> QED BY <2>1, LoadedFacts DEF SnapOK
  <1>2. \A f \in Firing : f.tick < k => (f \in ToSet(snap.timeline) <=> f \in Canon)
    BY DEF SnapWhole
  <1>3. q = PruneOnly(r, k - 1)
    OBVIOUS
  <1>4. \A f \in Canon : ~(f.tick < k)
    OBVIOUS
  <1>5. T = <<>>
    <2> HIDE DEF k
    <2>1. T \in Seq(Firing) /\ \A f : f \in ToSet(T) <=> f \in ToSet(snap.timeline) /\ f.tick < k
      BY <1>1, UpToFacts
    <2> HIDE DEF T
    <2>2. ToSet(snap.timeline) \subseteq Firing
      BY <1>1, ElementsOf
    <2>3. ToSet(T) = {}
      BY <1>2, <1>4, <2>1, <2>2
    <2>4. Len(T) \in Nat /\ (Len(T) # 0 => T[1] \in ToSet(T))
      BY <2>1, ElementsOf
    <2> QED BY <2>1, <2>3, <2>4
  <1>6. ASSUME NEW n \in Nodes
        PROVE  Rewind(r, k - 1)[n] = <<>> /\ FiringsOf(T, n) = <<>>
    <2>1. PICK e \in Seq(Firing), s \in Seq(Firing) :
            /\ e = UpTo(snap.edges[n], snap.tick - 1)
            /\ s = FiringsOf(UpTo(snap.timeline, snap.tick - 1), n)
            /\ HeldWindow(e, s, snap.tick)
      BY RewoundWindows
    <2>2. s = <<>>
      BY <1>5, <2>1, LogsEmpty
    <2>3. Len(s) = 0 /\ Len(e) \in Nat /\ (Len(e) = 0 => e = <<>>)
      BY <2>2
    <2>4. e = <<>>
      BY <2>1, <2>3 DEF HeldWindow, EndOf
    <2>5. Rewind(r, k - 1)[n] = UpTo(snap.edges[n], k - 1)
      BY <1>1 DEF Rewind
    <2> QED BY <2>1, <2>2, <2>4, <2>5
  <1> HIDE DEF r, k, T
  <1>7. /\ q.edges = Rewind(r, k - 1)
        /\ q.records = <<>>
        /\ q.fire_counts = [n \in Nodes |-> IF Rewind(r, k - 1)[n] = <<>> THEN 0
                   ELSE r.fire_counts[n] - (Len(r.edges[n]) - Len(Rewind(r, k - 1)[n]))]
        /\ q.state = [n \in Nodes |-> IF Rewind(r, k - 1)[n] = <<>> THEN {} ELSE r.state[n]]
        /\ q.pending = r.pending /\ q.audit_ceiling = r.audit_ceiling
        /\ DOMAIN q = {"edges", "fire_counts", "state", "records", "pending", "audit_ceiling"}
        /\ q = [x \in DOMAIN q |-> q[x]]
    <2> DEFINE u == TruncateInMemory(r, k - 1)
    <2>1. r = [edges |-> r.edges, fire_counts |-> r.fire_counts, state |-> r.state,
               records |-> r.records, pending |-> r.pending, audit_ceiling |-> r.audit_ceiling]
      BY <1>1 DEF LayersType
    <2>2. u.edges = Rewind(r, k - 1)
      BY <2>1 DEF TruncateInMemory
    <2>3. u.fire_counts = [n \in Nodes |-> IF Rewind(r, k - 1)[n] = <<>> THEN 0
                ELSE r.fire_counts[n] - (Len(r.edges[n]) - Len(Rewind(r, k - 1)[n]))]
      BY <2>1 DEF TruncateInMemory
    <2>4. /\ u.pending = r.pending /\ u.audit_ceiling = r.audit_ceiling
          /\ DOMAIN u = {"edges", "fire_counts", "state", "records", "pending", "audit_ceiling"}
          /\ u = [x \in DOMAIN u |-> u[x]]
      BY <1>1 DEF TruncateInMemory, LayersType
    <2>5. q = [u EXCEPT
                 !.state = [n \in Nodes |-> IF Rewind(r, k - 1)[n] = <<>> THEN {} ELSE r.state[n]],
                 !.records = <<>>]
      BY <1>3 DEF PruneOnly
    <2> HIDE DEF u
    <2> QED BY <2>2, <2>3, <2>4, <2>5
  <1>8. ASSUME NEW n \in Nodes
        PROVE  /\ q.edges[n] = <<>> /\ FiringsOf(T, n) = <<>>
               /\ q.fire_counts[n] = 0 /\ q.state[n] = {}
    BY <1>6, <1>7
  <1>9. HeldWindow(<<>>, <<>>, k) /\ Len(<<>>) = 0 /\ LastOf(<<>>) = {}
    <2>1. Len(<<>>) = 0
      OBVIOUS
    <2> QED BY <2>1 DEF HeldWindow, EndOf, LastOf
  <1>10. LayersOf(q, T, k)
    <2>1. \A n \in Nodes : /\ HeldWindow(q.edges[n], FiringsOf(T, n), k)
                           /\ q.fire_counts[n] = Len(FiringsOf(T, n))
                           /\ q.state[n] = LastOf(FiringsOf(T, n))
      BY <1>8, <1>9
    <2>2. q.records = <<>>
      BY <1>7
    <2> QED BY <2>1, <2>2 DEF LayersOf
  <1>11. q \in LayersType
    <2>1. q.edges \in [Nodes -> Seq(Firing)]
      <3>1. q.edges = [n \in Nodes |-> q.edges[n]]
        BY <1>7 DEF Rewind
      <3> QED BY <1>8, <3>1, EmptyElements
    <2>2. q.fire_counts \in [Nodes -> Nat]
      <3>1. q.fire_counts = [n \in Nodes |-> q.fire_counts[n]]
        BY <1>7
      <3>2. \A n \in Nodes : q.fire_counts[n] \in Nat
        BY <1>8
      <3> QED BY <3>1, <3>2
    <2>3. q.state \in [Nodes -> SUBSET Firing]
      <3>1. q.state = [n \in Nodes |-> q.state[n]]
        BY <1>7
      <3> QED BY <1>8, <3>1
    <2>4. /\ q.records \in Seq(Firing) /\ q.pending \in Seq(Firing)
          /\ q.audit_ceiling \in -1 .. MaxTicks - 1
      BY <1>1, <1>7, EmptyElements DEF LayersType
    <2> QED BY <1>7, <2>1, <2>2, <2>3, <2>4 DEF LayersType
  <1> QED BY <1>10, <1>11 DEF T, k

\* What a restored or a new run has to be like.
LEMMA Resumed ==
  ASSUME HistoryInv, UNCHANGED <<mode, plan>>, pc' = "user", todo' = <<>>,
         restores' \in 0 .. MaxRestores, tick_count' \in 0 .. MaxTicks,
         rs' \in LayersType, rs'.pending = <<>>, rs'.audit_ceiling = tick_count' - 1,
         timeline' \in Seq(Firing), Sorted(timeline', Earlier),
         \A i \in 1 .. Len(timeline') : timeline'[i].tick < tick_count',
         LayersOf(rs', timeline', tick_count'),
         rows' \in Seq(Firing),
         snapshots' \in [1 .. MaxTicks -> SUBSET SnapshotType],
         checkpoints' \in [Labels -> SUBSET SnapshotType],
         Kept' \subseteq Kept,
         mode.persistent =>
           /\ \A t \in 0 .. MaxTicks - 1 : t < tick_count' => plan[t] # {}
           /\ \A f \in Firing : f \in ToSet(timeline') <=> f \in Canon /\ f.tick < tick_count'
           /\ Grows(rows')
           /\ ToSet(timeline') \subseteq ToSet(rows')
           /\ IF mode.crashes THEN ToSet(rows) \subseteq ToSet(rows')
                              ELSE ToSet(Journal) \subseteq ToSet(rows')
  PROVE  HistoryInv'
  <1>1. Types /\ Kept \subseteq SnapshotType /\ KeptOK
    BY KeptType DEF HistoryInv
  <1>2. Types'
    <2>1. mode' \in Modes /\ plan' \in [0 .. MaxTicks - 1 -> SUBSET (SUBSET Nodes)]
      BY <1>1 DEF Types
    <2>2. todo' \in Seq(Nodes)
      BY EmptyElements
    <2> QED BY <2>1, <2>2 DEF Types
  <1>3. InTick'
    BY EmptyElements DEF InTick, Sorted
  <1>4. CeilingOK'
    <2>1. \A i \in 1 .. Len(timeline') : timeline'[i].tick \in Int
      BY ElementsOf, FiringFacts
    <2>2. tick_count' \in Int
      OBVIOUS
    <2> QED BY <2>1, <2>2 DEF CeilingOK
  <1>5. LayersOf(rs, timeline, tick_count)'
    BY DEF LayersOf
  <1>6. KeptOK'
    BY <1>1, SnapStays DEF KeptOK
  <1>7. ASSUME mode.persistent
        PROVE  PlanOK' /\ TimelineWhole' /\ JournalOK' /\ KeptWhole'
    <2>1. PlanOK /\ KeptWhole
      BY <1>7 DEF HistoryInv
    <2>2. Canon' = Canon /\ PlanGrows
      BY DEF Canon, PlanGrows
    <2>3. rows' \o <<>> = rows'
      BY ConcatElements, EmptyElements
    <2>4. Journal' = rows'
      BY <2>3 DEF Journal
    <2>5. PlanOK'
      <3>1. \A t \in 0 .. MaxTicks - 1 : t < tick_count' => plan'[t] # {}
        BY <1>7
      <3>2. 1 .. Len(todo') = {}
        BY EmptyElements
      <3>3. /\ \A t \in 0 .. MaxTicks - 1 : \A F, G \in plan[t] : F = G
            /\ \A t \in 0 .. MaxTicks - 1 : \A u \in 0 .. t : plan[u] = {} => plan[t] = {}
            /\ plan' = plan /\ pc' = "user"
        BY <2>1 DEF PlanOK
      <3> QED BY <3>1, <3>2, <3>3 DEF PlanOK
    <2>6. TimelineWhole'
      <3>1. \A f \in Firing : f \in ToSet(timeline') <=> f \in Canon' /\ f.tick < tick_count'
        BY <1>7, <2>2
      <3> QED BY <3>1 DEF TimelineWhole
    <2>7. JournalOK'
      <3>1. Grows(Journal)'
        BY <1>7, <2>2, <2>4 DEF Grows
      <3>2. Len(rs'.pending) = 0 /\ ToSet(rs'.pending) = {}
        BY EmptyElements
      <3>3. ToSet(timeline') \subseteq ToSet(Journal')
        BY <1>7, <2>4
      <3> QED BY <3>1, <3>2, <3>3 DEF JournalOK
    <2>8. KeptWhole'
      <3>1. IF mode.crashes THEN ToSet(rows) \subseteq ToSet(rows')
                            ELSE ToSet(Journal) \subseteq ToSet(Journal')
        BY <1>7, <2>4
      <3>2. \A snap \in Kept : SnapWhole(snap)'
        BY <1>1, <2>1, <2>2, <3>1, SnapWholeStays DEF KeptWhole
      <3> QED BY <3>2 DEF KeptWhole
    <2> QED BY <2>5, <2>6, <2>7, <2>8
  <1> QED BY <1>2, <1>3, <1>4, <1>5, <1>6, <1>7 DEF HistoryInv

\* A snapshot is restored, over the rows D if there is a backend.
LEMMA Restored ==
  ASSUME HistoryInv, NEW snap \in Kept, NEW D \in Seq(Firing), Restore(snap, D),
         rows' \in Seq(Firing),
         snapshots' \in [1 .. MaxTicks -> SUBSET SnapshotType],
         checkpoints' \in [Labels -> SUBSET SnapshotType],
         Kept' \subseteq Kept,
         mode.persistent =>
           /\ D = rows' /\ Grows(D)
           /\ \A f \in Canon : f.tick < snap.tick => f \in ToSet(D)
           /\ IF mode.crashes THEN ToSet(rows) \subseteq ToSet(rows')
                              ELSE ToSet(Journal) \subseteq ToSet(rows')
  PROVE  HistoryInv'
  <1> DEFINE k == snap.tick
             T == UpTo(snap.timeline, k - 1)
             q == IF ~mode.persistent THEN TruncateInMemory(Loaded(snap), k - 1)
                  ELSE IF D # <<>> THEN RebuildFrom(Loaded(snap), D, k - 1)
                  ELSE PruneOnly(Loaded(snap), k - 1)
  <1>1. /\ restores < MaxRestores
        /\ rs' = TruncateAfter(Loaded(snap), D, k - 1)
        /\ tick_count' = k /\ timeline' = T /\ restores' = restores + 1
        /\ pc' = "user" /\ todo' = <<>> /\ UNCHANGED <<mode, plan>>
    BY DEF Restore, Loaded
  <1>2. rs' = [q EXCEPT !.pending = <<>>, !.audit_ceiling = k - 1]
    BY <1>1 DEF TruncateAfter
  <1>3. /\ snap \in SnapshotType /\ SnapOK(snap) /\ mode \in Modes
        /\ mode.persistent => SnapWhole(snap)
        /\ snap.timeline \in Seq(Firing) /\ Sorted(snap.timeline, Earlier)
        /\ k \in 0 .. MaxTicks /\ MaxTicks \in Nat /\ k \in Int
        /\ restores \in 0 .. MaxRestores /\ MaxRestores \in Nat
    <2>1. snap \in SnapshotType /\ SnapOK(snap) /\ (mode.persistent => SnapWhole(snap))
      BY KeptType DEF HistoryInv, KeptOK, KeptWhole
    <2>2. k \in 0 .. MaxTicks /\ snap.timeline \in Seq(Firing)
      BY <2>1, LoadedFacts
    <2>3. mode \in Modes /\ restores \in 0 .. MaxRestores
      BY DEF HistoryInv, Types
    <2> QED BY <2>1, <2>2, <2>3, RunStateAssumption DEF SnapOK
  <1>4. q \in LayersType /\ LayersOf(q, T, k)
    <2>1. CASE ~mode.persistent
      BY <1>3, <2>1, RestoreInMemory
    <2>2. CASE mode.persistent /\ D # <<>>
      BY <1>3, <2>2, RestoreFromDisk
    <2>3. CASE mode.persistent /\ D = <<>>
      <3>1. \A f \in Canon : ~(f.tick < snap.tick)
        BY <2>3, EmptyElements
      <3> QED BY <1>3, <2>3, <3>1, RestorePruned
    <2> QED BY <2>1, <2>2, <2>3
  <1>5. /\ T \in Seq(Firing) /\ Sorted(T, Earlier)
        /\ \A f : f \in ToSet(T) <=> f \in ToSet(snap.timeline) /\ f.tick < k
        /\ \A i \in 1 .. Len(T) : T[i].tick < k
    <2> HIDE DEF k
    <2> QED BY <1>3, UpToFacts
  <1> HIDE DEF q, T
  <1>6. /\ rs' \in LayersType /\ rs'.pending = <<>> /\ rs'.audit_ceiling = k - 1
        /\ rs'.edges = q.edges /\ rs'.fire_counts = q.fire_counts
        /\ rs'.state = q.state /\ rs'.records = q.records
    <2>1. k - 1 \in -1 .. MaxTicks - 1
      BY <1>3
    <2> HIDE DEF k
    <2> QED BY <1>2, <1>4, <2>1, EmptyElements DEF LayersType
  <1>7. LayersOf(rs', timeline', tick_count')
    BY <1>1, <1>4, <1>6 DEF LayersOf
  <1>8. restores' \in 0 .. MaxRestores
    BY <1>1, <1>3
  <1>9. ASSUME mode.persistent
        PROVE  /\ \A t \in 0 .. MaxTicks - 1 : t < k => plan[t] # {}
               /\ \A f \in Firing : f \in ToSet(T) <=> f \in Canon /\ f.tick < k
               /\ Grows(rows')
               /\ ToSet(T) \subseteq ToSet(rows')
               /\ IF mode.crashes THEN ToSet(rows) \subseteq ToSet(rows')
                                  ELSE ToSet(Journal) \subseteq ToSet(rows')
    <2>1. SnapWhole(snap) /\ D = rows' /\ Grows(rows')
      BY <1>3, <1>9
    <2>2. \A t \in 0 .. MaxTicks - 1 : t < k => plan[t] # {}
      BY <2>1 DEF SnapWhole
    <2>3. \A f \in Firing : f \in ToSet(T) <=> f \in Canon /\ f.tick < k
      BY <1>5, <2>1 DEF SnapWhole
    <2>4. ToSet(T) \subseteq ToSet(rows')
      <3>1. ToSet(T) \subseteq Firing
        BY <1>5, ElementsOf
      <3> QED BY <1>9, <2>1, <2>3, <3>1
    <2> QED BY <1>9, <2>1, <2>2, <2>3, <2>4
  <1> HIDE DEF k
  <1> QED BY <1>1, <1>3, <1>5, <1>6, <1>7, <1>8, <1>9, Resumed

LEMMA StepRollback ==
  ASSUME HistoryInv, NEW l \in Labels, Rollback(l)
  PROVE  HistoryInv'
  <1>1. PICK snap \in checkpoints[l] : Restore(snap, rows)
    BY DEF Rollback
  <1>2. /\ pc = "user" /\ UNCHANGED <<rows, snapshots, checkpoints>>
        /\ Types /\ rows \in Seq(Firing) /\ Kept' = Kept
    BY JournalType DEF HistoryInv, Rollback, Kept
  <1>3. /\ snapshots' \in [1 .. MaxTicks -> SUBSET SnapshotType]
        /\ checkpoints' \in [Labels -> SUBSET SnapshotType]
        /\ snap \in Kept
    BY <1>2 DEF Types, Kept
  <1>4. ASSUME mode.persistent
        PROVE  /\ Grows(rows)
               /\ \A f \in Canon : f.tick < snap.tick => f \in ToSet(rows)
               /\ ToSet(Journal) \subseteq ToSet(rows)
    <2>1. rs.pending = <<>> /\ Grows(Journal) /\ SnapWhole(snap)
      BY <1>2, <1>3, <1>4 DEF HistoryInv, JournalOK, KeptWhole
    <2>2. Journal = rows
      <3>1. rows \o <<>> = rows
        BY <1>2, ConcatElements, EmptyElements
      <3> QED BY <2>1, <3>1 DEF Journal
    <2> QED BY <2>1, <2>2 DEF SnapWhole
  <1> QED BY <1>1, <1>2, <1>3, <1>4, Restored

\* What is left of a batch leaves a part of the journal.
LEMMA TornFacts ==
  ASSUME HistoryInv, mode.persistent, NEW batch \in Torn
  PROVE  /\ rows \o batch \in Seq(Firing) /\ Grows(rows \o batch)
         /\ ToSet(rows) \subseteq ToSet(rows \o batch)
  <1>1. /\ rows \in Seq(Firing) /\ rs.pending \in Seq(Firing) /\ Journal \in Seq(Firing)
        /\ Grows(Journal)
    BY JournalType DEF HistoryInv, JournalOK
  <1> DEFINE m == Len(rows)
             p == rs.pending
             j == Journal
  <1>2. PICK k \in 0 .. Len(p) : batch = SubSeq(p, 1, k)
    <2>1. <<>> = SubSeq(p, 1, 0)
      BY <1>1
    <2>2. 0 \in 0 .. Len(p)
      BY <1>1
    <2>3. batch \in {SubSeq(p, 1, k) : k \in 0 .. Len(p)} \/ batch = <<>>
      BY DEF Torn
    <2> HIDE DEF p
    <2> QED BY <2>1, <2>2, <2>3
  <1>3. /\ j \in Seq(Firing) /\ m \in Nat /\ Len(p) \in Nat /\ Len(j) = m + Len(p)
        /\ \A i \in 1 .. m : j[i] = rows[i]
        /\ \A i \in 1 .. Len(p) : j[m + i] = p[i]
    BY <1>1, ConcatElements DEF Journal
  <1>4. batch \in Seq(Firing) /\ Len(batch) = k /\ \A i \in 1 .. k : batch[i] = p[i]
    <2>1. 1 \in 1 .. Len(p) + 1 /\ k \in 1 - 1 .. Len(p) /\ k - 1 + 1 = k
          /\ \A i \in 1 .. k : 1 + i - 1 = i
      BY <1>3
    <2> QED BY <1>1, <1>2, <2>1, SubSeqFacts
  <1> DEFINE s == rows \o batch
  <1>5. /\ s \in Seq(Firing) /\ Len(s) = m + k /\ ToSet(rows) \subseteq ToSet(s)
        /\ \A i \in 1 .. m : s[i] = rows[i]
        /\ \A i \in 1 .. k : s[m + i] = batch[i]
    <2>1. /\ s \in Seq(Firing) /\ Len(s) = Len(rows) + Len(batch)
          /\ \A i \in 1 .. Len(rows) : s[i] = rows[i]
          /\ \A i \in 1 .. Len(batch) : s[Len(rows) + i] = batch[i]
          /\ ToSet(s) = ToSet(rows) \cup ToSet(batch)
      <3>1. rows \in Seq(Firing) /\ batch \in Seq(Firing)
        BY <1>1, <1>4
      <3> HIDE DEF m, p, j
      <3> QED BY <3>1, ConcatElements
    <2> HIDE DEF s
    <2> QED BY <1>4, <2>1
  <1>6. Grows(j)
    BY <1>1
  <1> HIDE DEF m, p, j, s
  <1>7. \A i \in 1 .. Len(s) : s[i] = j[i] /\ i \in 1 .. Len(j)
    <2> TAKE i \in 1 .. Len(s)
    <2>1. CASE i <= m
      <3>1. i \in 1 .. m /\ i \in 1 .. Len(j)
        BY <1>3, <1>5, <2>1
      <3> QED BY <1>3, <1>5, <3>1
    <2>2. CASE i > m
      <3>1. i - m \in 1 .. k /\ i - m \in 1 .. Len(p) /\ m + (i - m) = i /\ i \in 1 .. Len(j)
        BY <1>3, <1>5, <2>2
      <3>2. s[m + (i - m)] = batch[i - m] /\ batch[i - m] = p[i - m] /\ j[m + (i - m)] = p[i - m]
        BY <1>3, <1>4, <1>5, <3>1
      <3> QED BY <3>1, <3>2
    <2> QED BY <1>3, <1>5, <2>1, <2>2
  <1>8. ToSet(s) \subseteq ToSet(j)
    BY <1>3, <1>5, <1>7, ElementsOf
  <1>9. Grows(s)
    <2>1. ToSet(s) \subseteq Canon
      BY <1>6, <1>8 DEF Grows
    <2>2. ASSUME NEW i \in 1 .. Len(s), NEW g \in Canon, <<g, s[i]>> \in Earlier
          PROVE  \E b \in 1 .. i - 1 : s[b] = g
      <3>1. PICK b \in 1 .. i - 1 : j[b] = g
        BY <1>6, <1>7, <2>2 DEF Grows
      <3>2. b \in 1 .. Len(s)
        BY <1>3, <1>5
      <3> QED BY <1>7, <3>1, <3>2
    <2> QED BY <2>1, <2>2 DEF Grows
  <1> QED BY <1>5, <1>9 DEF s

LEMMA StepCrashAndResume ==
  ASSUME HistoryInv, CrashAndResume
  PROVE  HistoryInv'
  <1>1. /\ mode.crashes /\ UNCHANGED <<snapshots, checkpoints>>
        /\ Types /\ Kept' = Kept
    BY DEF HistoryInv, CrashAndResume, Kept
  <1>2. mode.persistent
    BY <1>1, ModeFacts DEF Types, Promised
  <1>3. PICK t \in SavedTicks, batch \in Torn :
          rows' = rows \o batch /\ \E snap \in snapshots[t] : Restore(snap, rows')
    BY DEF CrashAndResume
  <1>4. PICK snap \in snapshots[t] : Restore(snap, rows')
    BY <1>3
  <1>5. /\ rows' \in Seq(Firing) /\ Grows(rows') /\ ToSet(rows) \subseteq ToSet(rows')
    BY <1>2, <1>3, TornFacts
  <1>6. /\ snapshots' \in [1 .. MaxTicks -> SUBSET SnapshotType]
        /\ checkpoints' \in [Labels -> SUBSET SnapshotType]
        /\ snap \in Kept
    BY <1>1 DEF Types, Kept, SavedTicks
  <1>7. \A f \in Canon : f.tick < snap.tick => f \in ToSet(rows')
    <2>1. SnapWhole(snap)
      BY <1>2, <1>6 DEF HistoryInv, KeptWhole
    <2> QED BY <1>1, <1>5, <2>1 DEF SnapWhole
  <1> QED BY <1>1, <1>4, <1>5, <1>6, <1>7, Restored

LEMMA StepCrashAndStartOver ==
  ASSUME HistoryInv, CrashAndStartOver
  PROVE  HistoryInv'
  <1>1. /\ mode.crashes /\ restores < MaxRestores /\ restores' = restores + 1
        /\ rs' = Fresh /\ tick_count' = 0 /\ timeline' = <<>> /\ pc' = "user" /\ todo' = <<>>
        /\ UNCHANGED <<mode, snapshots, checkpoints, plan>>
        /\ Types /\ Kept' = Kept
    BY DEF HistoryInv, CrashAndStartOver, Kept
  <1>2. mode.persistent
    BY <1>1, ModeFacts DEF Types, Promised
  <1>3. PICK batch \in Torn : rows' = rows \o batch
    BY DEF CrashAndStartOver
  <1>4. /\ rows' \in Seq(Firing) /\ Grows(rows') /\ ToSet(rows) \subseteq ToSet(rows')
    BY <1>2, <1>3, TornFacts
  <1>5. /\ Fresh \in LayersType /\ LayersOf(Fresh, <<>>, 0)
        /\ Fresh.pending = <<>> /\ Fresh.audit_ceiling = 0 - 1
    <2>1. Fresh \in LayersType /\ LayersOf(Fresh, <<>>, 0)
      BY FreshLayers
    <2>2. Fresh.pending = <<>> /\ Fresh.audit_ceiling = 0 - 1
      BY DEF Fresh
    <2> QED BY <2>1, <2>2
  <1>6. /\ snapshots' \in [1 .. MaxTicks -> SUBSET SnapshotType]
        /\ checkpoints' \in [Labels -> SUBSET SnapshotType]
        /\ restores' \in 0 .. MaxRestores /\ 0 \in 0 .. MaxTicks
    BY <1>1, RunStateAssumption DEF Types
  <1>7. /\ ToSet(<<>>) = {} /\ Len(<<>>) = 0 /\ <<>> \in Seq(Firing) /\ Sorted(<<>>, Earlier)
    BY EmptyElements DEF Sorted
  <1>8. /\ \A t \in 0 .. MaxTicks - 1 : t < tick_count' => plan[t] # {}
        /\ \A f \in Firing : f \in ToSet(timeline') <=> f \in Canon /\ f.tick < tick_count'
    BY <1>1, <1>7, FiringFacts
  <1>9. /\ timeline' \in Seq(Firing) /\ Sorted(timeline', Earlier)
        /\ \A i \in 1 .. Len(timeline') : timeline'[i].tick < tick_count'
        /\ ToSet(timeline') \subseteq ToSet(rows')
    BY <1>1, <1>7
  <1>10. /\ rs' \in LayersType /\ rs'.pending = <<>> /\ rs'.audit_ceiling = tick_count' - 1
         /\ LayersOf(rs', timeline', tick_count')
    BY <1>1, <1>5
  <1> QED BY <1>1, <1>4, <1>6, <1>8, <1>9, <1>10, Resumed

LEMMA StepFork ==
  ASSUME HistoryInv, Fork
  PROVE  HistoryInv'
  <1>1. /\ mode.forks /\ rows' = <<>>
        /\ snapshots' = [t \in DOMAIN snapshots |-> {}]
        /\ checkpoints' = [l \in Labels |-> {}]
        /\ Types
    BY DEF HistoryInv, Fork
  <1>2. ~mode.persistent
    BY <1>1, ModeFacts DEF Types, Promised
  <1>3. DOMAIN snapshots = 1 .. MaxTicks
    BY <1>1 DEF Types
  <1>4. PICK snap \in Kept : Restore(snap, <<>>)
    BY <1>3 DEF Fork, Kept
  <1>5. /\ snapshots' \in [1 .. MaxTicks -> SUBSET SnapshotType]
        /\ checkpoints' \in [Labels -> SUBSET SnapshotType]
        /\ Kept' = {}
    BY <1>1, <1>3 DEF Kept
  <1> QED BY <1>1, <1>2, <1>4, <1>5, EmptyElements, Restored

-----------------------------------------------------------------------------
(* The theorems *)

\* Every step of a run, dispatching or not, keeps the invariant.
LEMMA HistoryStep ==
  ASSUME HistoryInv, [Next]_vars
  PROVE  HistoryInv'
  <1>1. CASE BeginTick
    BY <1>1, StepBegin
  <1>2. CASE Fire
    BY <1>2, StepFire
  <1>3. CASE Settle
    BY <1>3, StepSettle
  <1>4. CASE Flush
    BY <1>4, Flushed DEF Flush
  <1>5. CASE SaveSnapshot
    BY <1>5, StepSave
  <1>6. CASE AuditFlushes
    BY <1>6, Flushed DEF AuditFlushes
  <1>7. ASSUME NEW l \in Labels, Checkpoint(l) \/ Rollback(l)
        PROVE  HistoryInv'
    BY <1>7, StepCheckpoint, StepRollback
  <1>8. CASE CrashAndResume
    BY <1>8, StepCrashAndResume
  <1>9. CASE CrashAndStartOver
    BY <1>9, StepCrashAndStartOver
  <1>10. CASE Fork
    BY <1>10, StepFork
  <1>11. CASE UNCHANGED vars
    <2>1. /\ Kept' = Kept /\ KeptOK' /\ Canon' = Canon /\ PlanGrows /\ Journal' = Journal
      BY <1>11, KeptSame DEF vars, Kept, Canon, PlanGrows, Journal
    <2>2. Types' /\ InTick' /\ CeilingOK'
      BY <1>11 DEF vars, HistoryInv, Types, InTick, CeilingOK
    <2>3. LayersOf(rs, timeline, tick_count)'
      BY <1>11 DEF vars, HistoryInv, LayersOf
    <2>4. ASSUME mode.persistent
          PROVE  PlanOK' /\ TimelineWhole' /\ JournalOK' /\ KeptWhole'
      <3>1. PlanOK' /\ TimelineWhole'
        BY <1>11, <2>1, <2>4 DEF vars, HistoryInv, PlanOK, TimelineWhole
      <3>2. Grows(Journal)'
        BY <2>1, <2>4 DEF HistoryInv, JournalOK, Grows
      <3>3. JournalOK'
        BY <1>11, <2>1, <2>4, <3>2 DEF vars, HistoryInv, JournalOK
      <3>4. KeptWhole'
        BY <1>11, <2>1, <2>4, KeptWholeSame DEF vars
      <3> QED BY <3>1, <3>3, <3>4
    <2>5. mode' = mode
      BY <1>11 DEF vars
    <2> QED BY <2>1, <2>2, <2>3, <2>4, <2>5 DEF HistoryInv
  <1> QED BY <1>1, <1>2, <1>3, <1>4, <1>5, <1>6, <1>7, <1>8, <1>9, <1>10, <1>11 DEF Next

\* The layers of a run, of its snapshots and of the rows on disk are those of
\* its timeline, through every tick, flush, checkpoint, rollback, crash and
\* fork of RunState, persistence.py and runner.py.
THEOREM RunStateHistory == Spec => []HistoryInv
  BY InitHistory, HistoryStep, PTL DEF Spec

\* Type correctness of a run, and a window of at most two firings.
THEOREM RunStateTypes == Spec => []RunStateTypeOK
  <1>1. HistoryInv => RunStateTypeOK
    <2> SUFFICES ASSUME HistoryInv PROVE RunStateTypeOK
      OBVIOUS
    <2>1. Types /\ rs \in LayersType /\ LayersOf(rs, timeline, tick_count)
      BY DEF HistoryInv, Types
    <2>2. ASSUME NEW n \in Nodes
          PROVE  /\ Len(rs.edges[n]) <= 2
                 /\ ToSet(rs.edges[n]) \subseteq Firing
                 /\ rs.fire_counts[n] \in Nat
                 /\ rs.state[n] \subseteq Firing
      <3>1. rs.edges[n] \in Seq(Firing) /\ rs.fire_counts[n] \in Nat /\ rs.state[n] \subseteq Firing
        BY <2>1 DEF LayersType
      <3>2. Len(rs.edges[n]) <= 2
        BY <2>1 DEF LayersOf, HeldWindow
      <3> QED BY <3>1, <3>2, ElementsOf
    <2>3. \A s \in {rows, timeline, rs.records, rs.pending} : ToSet(s) \subseteq Firing
      <3>1. /\ rows \in Seq(Firing) /\ timeline \in Seq(Firing)
            /\ rs.records \in Seq(Firing) /\ rs.pending \in Seq(Firing)
        BY <2>1 DEF Types, LayersType
      <3> QED BY <3>1, ElementsOf
    <2>4. rs.audit_ceiling \in -1 .. MaxTicks - 1
      BY <2>1 DEF LayersType
    <2> QED BY <2>1, <2>2, <2>3, <2>4 DEF RunStateTypeOK, Types
  <1> QED BY <1>1, RunStateHistory, PTL

LEMMA EndIsSuffix ==
  ASSUME NEW e \in Seq(Firing), NEW s \in Seq(Firing), EndOf(e, s)
  PROVE  IsSuffix(e, s)
  <1> DEFINE l == Len(e)
             m == Len(s)
             a == Reverse(e)
             b == Reverse(s)
  <1>1. l \in Nat /\ m \in Nat /\ l <= m /\ \A i \in 1 .. l : e[i] = s[m - l + i]
    BY DEF EndOf
  <1>2. /\ a \in Seq(Firing) /\ Len(a) = l /\ \A i \in 1 .. l : a[i] = e[(l - i) + 1]
        /\ b \in Seq(Firing) /\ Len(b) = m /\ \A i \in 1 .. m : b[i] = s[(m - i) + 1]
    <2>1. /\ \A i \in 1 .. l : e[(l - i) + 1] \in Firing
          /\ \A i \in 1 .. m : s[(m - i) + 1] \in Firing
      <3>1. \A i \in 1 .. l : (l - i) + 1 \in 1 .. l
        BY <1>1
      <3>2. \A i \in 1 .. m : (m - i) + 1 \in 1 .. m
        BY <1>1
      <3> QED BY <3>1, <3>2, ElementsOf
    <2> QED BY <1>1, <2>1 DEF Reverse
  <1> HIDE DEF a, b, l, m
  <1>3. \A i \in 1 .. l : a[i] = b[i]
    <2> TAKE i \in 1 .. l
    <2>1. (l - i) + 1 \in 1 .. l /\ i \in 1 .. m /\ m - l + ((l - i) + 1) = (m - i) + 1
      BY <1>1
    <2>2. a[i] = e[(l - i) + 1]
      BY <1>2
    <2>3. b[i] = s[(m - i) + 1]
      BY <1>2, <2>1
    <2>4. e[(l - i) + 1] = s[m - l + ((l - i) + 1)]
      BY <1>1, <2>1
    <2> QED BY <2>1, <2>2, <2>3, <2>4
  <1>4. SubSeq(a, 1, l) = SubSeq(b, 1, l)
    <2>1. 1 \in 1 .. Len(a) + 1 /\ 1 \in 1 .. Len(b) + 1 /\ l \in 1 - 1 .. Len(a)
          /\ l \in 1 - 1 .. Len(b) /\ l - 1 + 1 = l /\ \A i \in 1 .. l : 1 + i - 1 = i
      BY <1>1, <1>2
    <2> DEFINE c == SubSeq(a, 1, l)
               d == SubSeq(b, 1, l)
    <2>2. /\ c \in Seq(Firing) /\ Len(c) = l /\ \A i \in 1 .. l : c[i] = a[i]
          /\ d \in Seq(Firing) /\ Len(d) = l /\ \A i \in 1 .. l : d[i] = b[i]
      BY <1>2, <2>1, SubSeqFacts
    <2> HIDE DEF c, d
    <2>3. c = d
      BY <1>3, <2>2
    <2> QED BY <2>3 DEF c, d
  <1>5. IsPrefix(a, b)
    BY <1>1, <1>2, <1>4 DEF IsPrefix
  <1> QED BY <1>5 DEF IsSuffix, a, b

\* What the window, the ordinals and the states of NodeState say is what the
\* current run has fired: after any number of flushes, checkpoints, rollbacks,
\* crashes and forks.
THEOREM LayersAlwaysAgree == Spec => []LayersAgree
  <1>1. HistoryInv => LayersAgree
    <2> SUFFICES ASSUME HistoryInv, NEW n \in Nodes
                 PROVE  LET fired == FiringsOf(timeline, n)
                        IN /\ rs.fire_counts[n] = Len(fired)
                           /\ IsSuffix(rs.edges[n], fired)
                           /\ rs.edges[n] = <<>> => fired = <<>>
                           /\ rs.state[n] = LastOf(fired)
      BY DEF LayersAgree
    <2> DEFINE fired == FiringsOf(timeline, n)
    <2>1. /\ HeldWindow(rs.edges[n], fired, tick_count)
          /\ rs.fire_counts[n] = Len(fired) /\ rs.state[n] = LastOf(fired)
      BY DEF HistoryInv, LayersOf
    <2>2. fired \in Seq(Firing) /\ rs.edges[n] \in Seq(Firing)
      <3>1. timeline \in Seq(Firing) /\ rs \in LayersType
        BY DEF HistoryInv, Types
      <3> QED BY <3>1, LogsTyped DEF LayersType
    <2> HIDE DEF fired
    <2>3. IsSuffix(rs.edges[n], fired)
      BY <2>1, <2>2, EndIsSuffix DEF HeldWindow
    <2>4. rs.edges[n] = <<>> => fired = <<>>
      BY <2>1 DEF HeldWindow
    <2> QED BY <2>1, <2>3, <2>4 DEF fired
  <1> QED BY <1>1, RunStateHistory, PTL

\* Between ticks audit() lists the current run, from the records or from the
\* rows, whatever was replayed, rewound or torn.
THEOREM AuditAlwaysRight == Spec => []AuditRight
  <1>1. HistoryInv => AuditRight
    <2> SUFFICES ASSUME HistoryInv, mode.keep_records, pc = "user"
                 PROVE  Audit = timeline
      BY DEF AuditRight
    <2>1. CASE ~mode.persistent
      BY <2>1 DEF HistoryInv, LayersOf, Audit
    <2>2. CASE mode.persistent
      <3>1. /\ timeline \in Seq(Firing) /\ Sorted(timeline, Earlier) /\ Journal \in Seq(Firing)
            /\ tick_count \in Int /\ tick_count - 1 \in Int
            /\ \A i \in 1 .. Len(timeline) : timeline[i].tick < tick_count
        BY JournalType DEF HistoryInv, InTick
      <3> DEFINE k == rs.audit_ceiling
      <3>2. k \in Int /\ k < tick_count /\ \A i \in 1 .. Len(timeline) : timeline[i].tick <= k
        BY DEF HistoryInv, CeilingOK, Types, LayersType
      <3> HIDE DEF k
      <3>3. TimelineWhole /\ Grows(Journal) /\ ToSet(timeline) \subseteq ToSet(Journal)
        BY <2>2 DEF HistoryInv, JournalOK
      <3>4. \A f \in Firing : f.tick <= k => (f \in ToSet(timeline) <=> f \in Canon)
        <4>1. \A f \in Firing : f.tick <= k => f.tick < tick_count
          BY <3>1, <3>2, FiringFacts
        <4> QED BY <3>3, <4>1 DEF TimelineWhole
      <3>5. \A f \in Canon : f.tick <= k => f \in ToSet(Journal)
        BY <3>3, <3>4 DEF Canon
      <3>6. KeepFirst(UpTo(Journal, k)) = UpTo(timeline, k)
        BY <3>1, <3>2, <3>3, <3>4, <3>5, Replayed
      <3>7. UpTo(timeline, k) = timeline
        <4>1. PICK t \in Int : k = t - 1
          <5>1. k + 1 \in Int /\ k = (k + 1) - 1
            BY <3>2
          <5> QED BY <5>1
        <4>2. \A i \in 1 .. Len(timeline) : timeline[i].tick < t
          <5>1. \A i \in 1 .. Len(timeline) : timeline[i].tick \in Int
            BY <3>1, ElementsOf, FiringFacts
          <5> QED BY <3>2, <4>1, <5>1
        <4>3. UpTo(timeline, t - 1) = timeline
          BY <3>1, <4>2, UpToFacts
        <4> QED BY <4>1, <4>3
      <3>8. Audit = KeepFirst(UpTo(Journal, k))
        BY <2>2 DEF Audit, Journal, k
      <3> QED BY <3>6, <3>7, <3>8
    <2> QED BY <2>1, <2>2
  <1> QED BY <1>1, RunStateHistory, PTL

-----------------------------------------------------------------------------
(* What an input reads *)

LEMMA RowsGrow ==
  ASSUME HistoryInv, mode.persistent
  PROVE  rows \in Seq(Firing) /\ Grows(rows)
  <1>1. rows \in Seq(Firing) /\ rs.pending \in Seq(Firing)
    BY JournalType DEF HistoryInv
  <1>2. <<>> \in Torn
    <2>1. SubSeq(rs.pending, 1, 0) = <<>> /\ 0 \in 0 .. Len(rs.pending)
      BY <1>1
    <2> QED BY <2>1 DEF Torn
  <1>3. rows \o <<>> = rows
    BY <1>1, ConcatElements, EmptyElements
  <1>4. Grows(rows \o <<>>)
    BY <1>2, TornFacts
  <1> QED BY <1>1, <1>3, <1>4

\* What the backend has of a node, in order.
LEMMA OwnFacts ==
  ASSUME NEW D \in Seq(Firing), Grows(D), NEW n \in Nodes
  PROVE  /\ KeepFirst(FiringsOf(D, n)) \in Seq(Firing)
         /\ Sorted(KeepFirst(FiringsOf(D, n)), Earlier)
         /\ \A f : f \in ToSet(KeepFirst(FiringsOf(D, n))) <=> f \in ToSet(D) /\ f.node = n
         /\ \A i, j \in 1 .. Len(KeepFirst(FiringsOf(D, n))) :
              i < j => KeepFirst(FiringsOf(D, n))[i].tick < KeepFirst(FiringsOf(D, n))[j].tick
  <1> DEFINE I == {i \in DOMAIN D : D[i].node = n}
             own == KeepFirst(FiringsOf(D, n))
  <1>1. own \in Seq(Firing) /\ ToSet(own) = ToSet(FiringsOf(D, n)) /\ Sorted(own, Earlier)
    <2>1. I \subseteq DOMAIN D /\ \A a, b \in DOMAIN D : a \in I /\ D[a] = D[b] => b \in I
      OBVIOUS
    <2>2. FiringsOf(D, n) = Select(D, I)
      BY DEF FiringsOf
    <2> HIDE DEF I
    <2> QED BY <2>1, <2>2, GrownPart
  <1>2. \A f : f \in ToSet(own) <=> f \in ToSet(D) /\ f.node = n
    BY <1>1, FiringsOfElements
  <1> HIDE DEF own
  <1>3. \A i, j \in 1 .. Len(own) : i < j => own[i].tick < own[j].tick
    <2> TAKE i, j \in 1 .. Len(own)
    <2> HAVE i < j
    <2>1. <<own[i], own[j]>> \in Earlier
      BY <1>1 DEF Sorted
    <2>2. own[i] \in Firing /\ own[j] \in Firing /\ own[i].node = n /\ own[j].node = n
      BY <1>1, <1>2, ElementsOf
    <2>3. ~Precedes(own[i].node, own[j].node)
      BY <2>2, FiringFacts, OrderFacts
    <2> QED BY <2>1, <2>2, <2>3, EarlierFacts
  <1> QED BY <1>1, <1>2, <1>3 DEF own

\* Two lists in order that agree up to a tick number their firings alike.
LEMMA SameNumber ==
  ASSUME NEW a \in Seq(Firing), NEW b \in Seq(Firing), NEW k \in 1 .. Len(a),
         Sorted(a, Earlier), Sorted(b, Earlier),
         \A i, j \in 1 .. Len(a) : i < j => a[i].tick < a[j].tick,
         \A i, j \in 1 .. Len(b) : i < j => b[i].tick < b[j].tick,
         \A f \in Firing : f.tick <= a[k].tick => (f \in ToSet(a) <=> f \in ToSet(b))
  PROVE  k <= Len(b) /\ b[k] = a[k]
  <1> DEFINE t == a[k].tick
             A == UpTo(a, t)
             B == UpTo(b, t)
  <1>1. /\ Len(a) \in Nat /\ Len(b) \in Nat /\ t \in Int
        /\ \A i \in 1 .. Len(a) : a[i] \in Firing /\ a[i].tick \in Int
        /\ \A i \in 1 .. Len(b) : b[i] \in Firing /\ b[i].tick \in Int
        /\ \A f \in Firing : f.tick <= t => (f \in ToSet(a) <=> f \in ToSet(b))
    <2>1. \A i \in 1 .. Len(a) : a[i] \in Firing /\ a[i].tick \in Int
      BY FiringFacts
    <2>2. \A i \in 1 .. Len(b) : b[i] \in Firing /\ b[i].tick \in Int
      BY FiringFacts
    <2> QED BY <2>1, <2>2
  <1>2. a[k].tick <= t /\ a[k].tick = t
    BY <1>1
  <1> HIDE DEF t
  <1>3. \A i, j \in 1 .. Len(a) : i < j => a[i].tick <= a[j].tick
    BY <1>1
  <1>4. \A i, j \in 1 .. Len(b) : i < j => b[i].tick <= b[j].tick
    BY <1>1
  <1>5. PICK c \in 0 .. Len(a) : A = SubSeq(a, 1, c) /\ \A i \in 1 .. Len(a) : i <= c <=> a[i].tick <= t
    BY <1>1, <1>3, FiringFacts, UpToPrefix
  <1>6. PICK d \in 0 .. Len(b) : B = SubSeq(b, 1, d) /\ \A i \in 1 .. Len(b) : i <= d <=> b[i].tick <= t
    BY <1>1, <1>4, FiringFacts, UpToPrefix
  <1>7. A = B
    <2>1. A \in Seq(Firing) /\ Sorted(A, Earlier) /\ ToSet(A) = {f \in ToSet(a) : f.tick <= t}
      BY LogsTyped, SelectSorted, UpToElements DEF UpTo
    <2>2. B \in Seq(Firing) /\ Sorted(B, Earlier) /\ ToSet(B) = {f \in ToSet(b) : f.tick <= t}
      BY LogsTyped, SelectSorted, UpToElements DEF UpTo
    <2> HIDE DEF A, B
    <2>3. ToSet(a) \subseteq Firing /\ ToSet(b) \subseteq Firing
      BY ElementsOf
    <2>4. ToSet(A) = ToSet(B)
      BY <1>1, <2>1, <2>2, <2>3
    <2> QED BY <2>1, <2>2, <2>4, EarlierFacts, SortedUnique
  <1> HIDE DEF A, B
  <1>8. /\ Len(A) = c /\ \A i \in 1 .. c : A[i] = a[i]
        /\ Len(B) = d /\ \A i \in 1 .. d : B[i] = b[i]
    <2>1. /\ 1 \in 1 .. Len(a) + 1 /\ c \in 1 - 1 .. Len(a) /\ c - 1 + 1 = c
          /\ 1 \in 1 .. Len(b) + 1 /\ d \in 1 - 1 .. Len(b) /\ d - 1 + 1 = d
          /\ \A i \in Int : 1 + i - 1 = i
      BY <1>1
    <2>2. /\ Len(SubSeq(a, 1, c)) = c - 1 + 1
          /\ \A i \in 1 .. c - 1 + 1 : SubSeq(a, 1, c)[i] = a[1 + i - 1]
      BY <2>1, SubSeqFacts
    <2>3. /\ Len(SubSeq(b, 1, d)) = d - 1 + 1
          /\ \A i \in 1 .. d - 1 + 1 : SubSeq(b, 1, d)[i] = b[1 + i - 1]
      BY <2>1, SubSeqFacts
    <2> QED BY <1>5, <1>6, <2>1, <2>2, <2>3
  <1>9. k \in 1 .. c /\ k \in 1 .. d /\ d <= Len(b)
    <2>1. k \in 1 .. c
      BY <1>1, <1>2, <1>5
    <2> QED BY <1>7, <1>8, <2>1
  <1> QED BY <1>1, <1>7, <1>8, <1>9

\* A firing that has left the window is on disk, at its place.
LEMMA OnDisk ==
  ASSUME HistoryInv, mode.persistent, NEW n \in Nodes,
         NEW k \in 1 .. Len(FiringsOf(timeline, n)), k # Len(FiringsOf(timeline, n))
  PROVE  FiringAt(n, k) = Output(FiringsOf(timeline, n)[k])
  <1> DEFINE fired == FiringsOf(timeline, n)
             own == KeepFirst(FiringsOf(rows, n))
             m == Len(fired)
  <1>1. /\ timeline \in Seq(Firing) /\ Sorted(timeline, Earlier)
        /\ rows \in Seq(Firing) /\ Grows(rows) /\ rs.pending \in Seq(Firing)
        /\ tick_count \in Int /\ InTick /\ TimelineWhole /\ JournalOK
    BY RowsGrow, JournalType DEF HistoryInv, InTick
  <1>2. /\ fired \in Seq(Firing) /\ Sorted(fired, Earlier)
        /\ \A i, j \in 1 .. Len(fired) : i < j => fired[i].tick < fired[j].tick
        /\ ToSet(fired) = {f \in ToSet(timeline) : f.node = n}
    BY <1>1, FiringsRise, FiringsOfElements
  <1>3. /\ own \in Seq(Firing) /\ Sorted(own, Earlier)
        /\ \A f : f \in ToSet(own) <=> f \in ToSet(rows) /\ f.node = n
        /\ \A i, j \in 1 .. Len(own) : i < j => own[i].tick < own[j].tick
    BY <1>1, OwnFacts
  <1>4. m \in Nat /\ k \in 1 .. m /\ k < m /\ m \in 1 .. m /\ m = Len(fired)
    BY <1>2
  <1> HIDE DEF fired, own, m
  <1> DEFINE t == fired[k].tick
             c == IF pc = "tick" THEN tick_count ELSE tick_count - 1
  <1>5. t \in Int /\ c \in Int /\ t < c /\ c <= tick_count
    <2>1. fired[k] \in Firing /\ fired[m] \in Firing /\ fired[k].tick < fired[m].tick
      BY <1>2, <1>4, ElementsOf
    <2>2. fired[m] \in ToSet(timeline)
      BY <1>2, <1>4, ElementsOf
    <2>3. fired[m].tick <= c
      <3>1. PICK i \in 1 .. Len(timeline) : timeline[i] = fired[m]
        BY <1>1, <2>2, ElementsOf
      <3>2. fired[m].tick \in Int
        BY <2>1, FiringFacts
      <3> QED BY <1>1, <3>1, <3>2 DEF InTick
    <2>4. fired[k].tick \in Int /\ fired[m].tick \in Int
      BY <2>1, FiringFacts
    <2> QED BY <1>1, <2>1, <2>3, <2>4
  <1> HIDE DEF t, c
  <1>6. ASSUME NEW f \in Firing, f.tick <= t
        PROVE  f \in ToSet(fired) <=> f \in ToSet(own)
    <2>1. f.tick \in Int /\ f.tick < c /\ f.tick < tick_count
      BY <1>1, <1>5, <1>6, FiringFacts
    <2>2. ASSUME f \in ToSet(rows)
          PROVE  f \in ToSet(timeline)
      <3>1. f \in Canon
        BY <1>1, <2>2 DEF Grows
      <3> QED BY <1>1, <2>1, <3>1 DEF TimelineWhole
    <2>3. ASSUME f \in ToSet(timeline)
          PROVE  f \in ToSet(rows)
      <3>1. f \in ToSet(rows) \cup ToSet(rs.pending)
        BY <1>1, <2>3, ConcatElements DEF JournalOK, Journal
      <3>2. f \notin ToSet(rs.pending)
        <4>1. \A i \in 1 .. Len(rs.pending) : rs.pending[i].tick = c
          BY <1>1 DEF JournalOK, c
        <4> QED BY <1>1, <1>5, <2>1, <4>1, ElementsOf
      <3> QED BY <3>1, <3>2
    <2> QED BY <1>2, <1>3, <2>2, <2>3
  <1>7. k <= Len(own) /\ own[k] = fired[k]
    <2>1. k \in 1 .. Len(fired)
      BY <1>4
    <2> QED BY <1>2, <1>3, <1>6, <2>1, SameNumber DEF t
  <1> QED BY <1>7 DEF FiringAt, own, fired

\* What the backend is asked for: an old A[k], None taken for Missing.
Recalled(n, k) == IF mode.persistent THEN {FiringAt(n, k)} \ {{}} ELSE {}

\* The outputs of the firings in F.
Outputs(F) == {Output(f) : f \in F}

\* The number of the oldest firing in the window.
Oldest(n) == rs.fire_counts[n] - Len(rs.edges[n]) + 1

LEMMA InWindow ==
  ASSUME HistoryInv, NEW n \in Nodes
  PROVE  /\ rs.edges[n] \in Seq(Firing) /\ FiringsOf(timeline, n) \in Seq(Firing)
         /\ rs.fire_counts[n] = Len(FiringsOf(timeline, n))
         /\ HeldWindow(rs.edges[n], FiringsOf(timeline, n), tick_count)
         /\ Oldest(n) \in Nat /\ rs.fire_counts[n] \in Nat
         /\ Oldest(n) = rs.fire_counts[n] - Len(rs.edges[n]) + 1
         /\ \A k \in Oldest(n) .. rs.fire_counts[n] :
              k \in 1 .. Len(FiringsOf(timeline, n)) /\ Index(n, k) = {Output(FiringsOf(timeline, n)[k])}
         /\ \A k : k \notin Oldest(n) .. rs.fire_counts[n] =>
              Index(n, k) = Recalled(n, k)
  <1> DEFINE e == rs.edges[n]
             s == FiringsOf(timeline, n)
             c == rs.fire_counts[n]
             l == Len(e)
  <1>1. e \in Seq(Firing) /\ s \in Seq(Firing) /\ c = Len(s) /\ HeldWindow(e, s, tick_count)
    <2>1. rs \in LayersType /\ timeline \in Seq(Firing) /\ LayersOf(rs, timeline, tick_count)
      BY DEF HistoryInv, Types
    <2>2. e \in Seq(Firing)
      BY <2>1 DEF LayersType
    <2>3. s \in Seq(Firing)
      BY <2>1, LogsTyped
    <2> QED BY <2>1, <2>2, <2>3 DEF LayersOf
  <1> DEFINE o == Oldest(n)
  <1>2. /\ \A k : Index(n, k) = IF k \in o .. c THEN {Output(e[k - o + 1])}
                                ELSE Recalled(n, k)
        /\ o = c - l + 1
    BY DEF Index, Recalled, Oldest
  <1> HIDE DEF e, s, c, o
  <1>3. l \in Nat /\ c \in Nat /\ l <= c /\ \A i \in 1 .. l : e[i] = s[c - l + i]
    BY <1>1 DEF HeldWindow, EndOf
  <1> HIDE DEF l
  <1>4. o \in Nat /\ 1 <= o
    BY <1>2, <1>3
  <1>5. ASSUME NEW k \in o .. c
        PROVE  k \in 1 .. Len(s) /\ Index(n, k) = {Output(s[k])}
    <2>1. k \in Int /\ k - o + 1 \in 1 .. l /\ c - l + (k - o + 1) = k
      BY <1>2, <1>3, <1>4
    <2>2. e[k - o + 1] = s[k]
      BY <1>3, <2>1
    <2>3. k \in 1 .. Len(s)
      BY <1>1, <1>3, <1>4
    <2>4. Index(n, k) = {Output(e[k - o + 1])}
      BY <1>2
    <2> QED BY <2>2, <2>3, <2>4
  <1>6. \A k : k \notin o .. c => Index(n, k) = Recalled(n, k)
    BY <1>2
  <1> QED BY <1>1, <1>2, <1>3, <1>4, <1>5, <1>6 DEF e, s, c, o, l

LEMMA LatestRight ==
  ASSUME HistoryInv, NEW n \in Nodes
  PROVE  Latest(n, tick_count) = Outputs(LastOf(UpTo(FiringsOf(timeline, n), tick_count - 1)))
  <1> DEFINE e == rs.edges[n]
             s == FiringsOf(timeline, n)
             t == tick_count
  <1>1. e \in Seq(Firing) /\ s \in Seq(Firing) /\ HeldWindow(e, s, t)
    BY InWindow
  <1>2. t \in Int /\ \A i, j \in 1 .. Len(s) : i < j => s[i].tick < s[j].tick
    BY JournalType, FiringsRise DEF HistoryInv, InTick
  <1>3. Latest(n, t) = Outputs(LastOf(UpTo(e, t - 1)))
    BY DEF Latest, Outputs
  <1> HIDE DEF e, s, t
  <1> DEFINE E == UpTo(e, t - 1)
             S == UpTo(s, t - 1)
  <1>4. E \in Seq(Firing) /\ S \in Seq(Firing) /\ HeldWindow(E, S, t)
    BY <1>1, <1>2, HeldUpTo
  <1> HIDE DEF E, S
  <1>5. LastOf(E) = LastOf(S)
    BY <1>4, EndLast DEF HeldWindow
  <1> QED BY <1>3, <1>5 DEF E, S, s, t

LEMMA ReadsAreRight ==
  ASSUME HistoryInv
  PROVE  ReadsRight
  <1> SUFFICES ASSUME NEW n \in Nodes
               PROVE  /\ Latest(n, tick_count) = Outputs(LastOf(UpTo(FiringsOf(timeline, n), tick_count - 1)))
                      /\ \A k \in 1 .. Len(FiringsOf(timeline, n)) :
                           \/ Index(n, k) = {Output(FiringsOf(timeline, n)[k])}
                           \/ /\ Index(n, k) = {}
                              /\ k <= Len(FiringsOf(timeline, n)) - Len(rs.edges[n])
                              /\ \/ ~mode.persistent
                                 \/ FiringsOf(timeline, n)[k] \in mode.silent
    BY DEF ReadsRight, Outputs
  <1> DEFINE s == FiringsOf(timeline, n)
             c == rs.fire_counts[n]
             o == Oldest(n)
  <1>1. Latest(n, tick_count) = Outputs(LastOf(UpTo(s, tick_count - 1)))
    BY LatestRight
  <1>2. /\ s \in Seq(Firing) /\ c = Len(s) /\ o \in Nat /\ c \in Nat
        /\ \A k \in o .. c : Index(n, k) = {Output(s[k])}
        /\ \A k : k \notin o .. c => Index(n, k) = Recalled(n, k)
    BY InWindow
  <1> DEFINE l == Len(rs.edges[n])
  <1>3. (c > 0 => o <= c) /\ o = c - l + 1 /\ l \in Nat
    <2> DEFINE e == rs.edges[n]
    <2>1. e \in Seq(Firing) /\ HeldWindow(e, s, tick_count) /\ o = c - Len(e) + 1
      BY InWindow
    <2> HIDE DEF e, o, s, c
    <2>2. Len(e) \in Nat /\ (c > 0 => Len(e) > 0)
      BY <1>2, <2>1 DEF HeldWindow
    <2> QED BY <1>2, <2>1, <2>2 DEF e
  <1>4. \A k \in 1 .. Len(s) : mode.persistent /\ k # Len(s) => FiringAt(n, k) = Output(s[k])
    BY OnDisk
  <1> HIDE DEF s, c, o, l
  <1>5. ASSUME NEW k \in 1 .. Len(s)
        PROVE  \/ Index(n, k) = {Output(s[k])}
               \/ /\ Index(n, k) = {}
                  /\ k <= Len(s) - l
                  /\ ~mode.persistent \/ s[k] \in mode.silent
    <2>1. CASE k \in o .. c
      BY <1>2, <2>1
    <2>2. CASE k \notin o .. c
      <3>1. k # Len(s) /\ k <= Len(s) - l
        BY <1>2, <1>3, <2>2
      <3>2. Index(n, k) = Recalled(n, k)
        BY <1>2, <2>2
      <3>3. CASE ~mode.persistent
        BY <3>1, <3>2, <3>3 DEF Recalled
      <3>4. CASE mode.persistent
        <4>1. Index(n, k) = {Output(s[k])} \ {{}}
          BY <1>4, <3>1, <3>2, <3>4 DEF Recalled
        <4>2. s[k] \notin mode.silent => Output(s[k]) = {s[k]}
          BY DEF Output
        <4>3. s[k] \in mode.silent => Output(s[k]) = {}
          BY DEF Output
        <4> QED BY <3>1, <4>1, <4>2, <4>3
      <3> QED BY <3>3, <3>4
    <2> QED BY <2>1, <2>2
  <1> QED BY <1>1, <1>5 DEF s, l

\* resolve() finds what was really produced: the producer's last output before
\* the tick, and that of its k-th firing, unless it has left the window and was
\* None, or there is no backend.
THEOREM ReadsAlwaysRight == Spec => []ReadsRight
  BY RunStateHistory, ReadsAreRight, PTL

-----------------------------------------------------------------------------
(* What bodies and guards read *)

\* Within a tick: the nodes that were given something come before those still
\* to fire; what a read finds now differs from what it found at the start of
\* the tick only where it has shifted; and a body was given what is found now
\* of the nodes before its own.
GivenOK ==
  /\ pc # "tick" => given = <<>>
  /\ pc = "tick" =>
       /\ \A n \in DOMAIN given : n \in Nodes /\ \A j \in 1 .. Len(todo) : Precedes(n, todo[j])
       /\ \A p \in Nodes, policy \in Policies :
            Resolve(p, policy) # shared[p][policy] => Shifted(p, policy)
       /\ \A n \in DOMAIN given, p \in Nodes, policy \in Policies :
            /\ given[n][p][policy] # shared[p][policy] => Precedes(p, n) /\ Shifted(p, policy)
            /\ Precedes(p, n) => given[n][p][policy] = Resolve(p, policy)

DispatchInv == HistoryInv /\ GivenOK

\* The reads of a node that fired, from its window and from disk.
WindowsRight ==
  \A n \in Nodes :
    /\ FiringsOf(timeline, n) \in Seq(Firing)
    /\ rs.fire_counts[n] = Len(FiringsOf(timeline, n))
    /\ Latest(n, tick_count) = Outputs(LastOf(UpTo(FiringsOf(timeline, n), tick_count - 1)))
    /\ Oldest(n) \in Nat /\ Oldest(n) >= rs.fire_counts[n] - 1
    /\ rs.fire_counts[n] > 0 => Oldest(n) <= rs.fire_counts[n]
    /\ \A k \in Oldest(n) .. rs.fire_counts[n] : Index(n, k) = {Output(FiringsOf(timeline, n)[k])}
    /\ \A k : k \notin Oldest(n) .. rs.fire_counts[n] =>
         Index(n, k) = Recalled(n, k)
    /\ mode.persistent =>
         \A k \in 1 .. rs.fire_counts[n] : k \notin Oldest(n) .. rs.fire_counts[n] =>
           FiringAt(n, k) = Output(FiringsOf(timeline, n)[k])

LEMMA WindowsAreRight == HistoryInv => WindowsRight
  <1> SUFFICES ASSUME HistoryInv PROVE WindowsRight
    OBVIOUS
  <1> SUFFICES ASSUME NEW n \in Nodes
      PROVE /\ FiringsOf(timeline, n) \in Seq(Firing)
            /\ rs.fire_counts[n] = Len(FiringsOf(timeline, n))
            /\ Latest(n, tick_count) = Outputs(LastOf(UpTo(FiringsOf(timeline, n), tick_count - 1)))
            /\ Oldest(n) \in Nat /\ Oldest(n) >= rs.fire_counts[n] - 1
            /\ rs.fire_counts[n] > 0 => Oldest(n) <= rs.fire_counts[n]
            /\ \A k \in Oldest(n) .. rs.fire_counts[n] : Index(n, k) = {Output(FiringsOf(timeline, n)[k])}
            /\ \A k : k \notin Oldest(n) .. rs.fire_counts[n] =>
                 Index(n, k) = Recalled(n, k)
            /\ mode.persistent =>
                 \A k \in 1 .. rs.fire_counts[n] : k \notin Oldest(n) .. rs.fire_counts[n] =>
                   FiringAt(n, k) = Output(FiringsOf(timeline, n)[k])
    BY DEF WindowsRight
  <1> DEFINE s == FiringsOf(timeline, n)
             c == rs.fire_counts[n]
             o == Oldest(n)
             e == rs.edges[n]
  <1>1. /\ e \in Seq(Firing) /\ s \in Seq(Firing) /\ c = Len(s) /\ HeldWindow(e, s, tick_count)
        /\ o \in Nat /\ c \in Nat /\ o = c - Len(e) + 1
        /\ \A k \in o .. c : Index(n, k) = {Output(s[k])}
        /\ \A k : k \notin o .. c => Index(n, k) = Recalled(n, k)
    BY InWindow
  <1>2. Latest(n, tick_count) = Outputs(LastOf(UpTo(s, tick_count - 1)))
    BY LatestRight
  <1>3. mode.persistent => \A k \in 1 .. Len(s) : k # Len(s) => FiringAt(n, k) = Output(s[k])
    BY OnDisk
  <1> HIDE DEF s, c, o, e
  <1>4. o >= c - 1 /\ (c > 0 => o <= c)
    <2>1. Len(e) \in Nat /\ Len(e) <= 2 /\ (c > 0 => Len(e) > 0)
      BY <1>1 DEF HeldWindow
    <2> QED BY <1>1, <2>1
  <1>5. mode.persistent => \A k \in 1 .. c : k \notin o .. c => FiringAt(n, k) = Output(s[k])
    <2>1. ASSUME NEW k \in 1 .. c, k \notin o .. c
          PROVE  k \in 1 .. Len(s) /\ k # Len(s)
      BY <1>1, <1>4, <2>1
    <2> QED BY <1>3, <2>1
  <1> QED BY <1>1, <1>2, <1>4, <1>5 DEF s, c, o, e

\* Firing one node changes no read of another.
LEMMA FireFrame ==
  ASSUME HistoryInv, Fire, NEW p \in Nodes, p # Head(todo), NEW policy \in Policies
  PROVE  Resolve(p, policy)' = Resolve(p, policy) /\ rs'.fire_counts[p] = rs.fire_counts[p]
  <1> DEFINE f == [tick |-> tick_count, node |-> Head(todo),
                   epoch |-> IF mode.pure THEN 0 ELSE restores]
  <1>1. rs' = Record(rs, f) /\ f.node = Head(todo) /\ rs \in LayersType
    BY FireFacts DEF HistoryInv, Types
  <1>2. UNCHANGED <<mode, rows, tick_count>>
    BY DEF Fire
  <1> HIDE DEF f
  <1>3. rs'.edges[p] = rs.edges[p] /\ rs'.fire_counts[p] = rs.fire_counts[p]
    <2>1. /\ rs'.edges = [rs.edges EXCEPT ![f.node] = Window(Append(@, f))]
          /\ rs'.fire_counts = [rs.fire_counts EXCEPT ![f.node] = @ + 1]
      BY <1>1 DEF Record, LayersType
    <2>2. rs.edges \in [Nodes -> Seq(Firing)] /\ rs.fire_counts \in [Nodes -> Nat]
      BY <1>1 DEF LayersType
    <2> QED BY <1>1, <2>1, <2>2
  <1>4. Latest(p, tick_count)' = Latest(p, tick_count)
    BY <1>2, <1>3 DEF Latest, Output
  <1>5. FiringAt(p, policy)' = FiringAt(p, policy)
    BY <1>2 DEF FiringAt, Output
  <1>6. Index(p, policy)' = Index(p, policy)
    BY <1>2, <1>3, <1>5 DEF Index, Output
  <1> QED BY <1>3, <1>4, <1>6 DEF Resolve

\* Firing a node changes what is read of it at two indices.
LEMMA FireShifts ==
  ASSUME HistoryInv, Fire, NEW q, q = Head(todo), NEW policy \in Policies
  PROVE  \/ Resolve(q, policy)' = Resolve(q, policy)
         \/ /\ policy # 0
            /\ \/ policy = rs'.fire_counts[q]
               \/ /\ policy = rs'.fire_counts[q] - 2
                  /\ \/ ~mode.persistent
                     \/ FiringsOf(timeline', q)[policy] \in mode.silent
  <1> DEFINE f == [tick |-> tick_count, node |-> Head(todo),
                   epoch |-> IF mode.pure THEN 0 ELSE restores]
             s == FiringsOf(timeline, q)
             S == FiringsOf(timeline', q)
             c == rs.fire_counts[q]
             C == rs'.fire_counts[q]
             o == Oldest(q)
             O == Oldest(q)'
             t == tick_count
  <1>1. /\ f \in Firing /\ f.tick = t /\ f.node = q /\ q \in Nodes /\ t \in Int
        /\ rs' = Record(rs, f) /\ timeline' = Append(timeline, f)
        /\ rs \in LayersType /\ timeline \in Seq(Firing)
    <2>1. t \in 0 .. MaxTicks - 1 /\ MaxTicks \in Nat
      BY FireFacts, RunStateAssumption
    <2> QED BY <2>1, FireFacts DEF HistoryInv, Types
  <1>2. UNCHANGED <<mode, rows, tick_count>>
    BY DEF Fire
  <1> HIDE DEF f
  <1>3. HistoryInv'
    BY StepFire
  <1>4. WindowsRight /\ WindowsRight'
    BY <1>3, WindowsAreRight, PTL
  <1>5. /\ s \in Seq(Firing) /\ c = Len(s) /\ Latest(q, t) = Outputs(LastOf(UpTo(s, t - 1)))
        /\ o \in Nat /\ o >= c - 1 /\ (c > 0 => o <= c)
        /\ \A k \in o .. c : Index(q, k) = {Output(s[k])}
        /\ \A k : k \notin o .. c => Index(q, k) = Recalled(q, k)
        /\ mode.persistent => \A k \in 1 .. c : k \notin o .. c => FiringAt(q, k) = Output(s[k])
    BY <1>1, <1>4 DEF WindowsRight
  <1>6. /\ S \in Seq(Firing) /\ C = Len(S) /\ Latest(q, tick_count)' = Outputs(LastOf(UpTo(S, t - 1)))
        /\ O \in Nat /\ O >= C - 1
        /\ \A k \in O .. C : Index(q, k)' = {Output(S[k])}
        /\ \A k : k \notin O .. C => Index(q, k)' = Recalled(q, k)'
        /\ mode.persistent => \A k \in 1 .. C : k \notin O .. C => FiringAt(q, k)' = Output(S[k])
    <2>1. \A n : Outputs(LastOf(UpTo(FiringsOf(timeline, n), tick_count - 1)))'
                  = Outputs(LastOf(UpTo(FiringsOf(timeline', n), tick_count - 1)))
      BY <1>2 DEF Outputs, Output
    <2>2. \A n, k : Output(FiringsOf(timeline, n)[k])' = Output(FiringsOf(timeline', n)[k])
      BY <1>2 DEF Output
    <2>3. /\ Latest(q, tick_count)' = Outputs(LastOf(UpTo(FiringsOf(timeline, q), tick_count - 1)))'
          /\ C = Len(S) /\ S \in Seq(Firing)
          /\ O \in Nat /\ O >= C - 1
      BY <1>1, <1>4 DEF WindowsRight
    <2>4. \A k \in O .. C : Index(q, k)' = {Output(FiringsOf(timeline, q)[k])'}
      BY <1>1, <1>4 DEF WindowsRight
    <2>5. \A k : k \notin O .. C => Index(q, k)' = Recalled(q, k)'
      BY <1>1, <1>4 DEF WindowsRight
    <2>6. mode.persistent => \A k \in 1 .. C : k \notin O .. C =>
            FiringAt(q, k)' = Output(FiringsOf(timeline, q)[k])'
      BY <1>1, <1>2, <1>4 DEF WindowsRight
    <2> QED BY <1>2, <2>1, <2>2, <2>3, <2>4, <2>5, <2>6
  <1>7. /\ S = Append(s, f) /\ Sorted(s, Earlier) /\ Sorted(S, Earlier)
        /\ \A i \in 1 .. Len(s) : s[i].tick < t
    <2>1. S = Append(s, f)
      BY <1>1, FiringsOfAppend
    <2>2. Sorted(timeline, Earlier) /\ Sorted(timeline', Earlier) /\ timeline' \in Seq(Firing)
      BY <1>3 DEF HistoryInv, InTick, Types
    <2>3. \A i \in 1 .. Len(s) : s[i].tick < t
      BY <1>1, FirePast
    <2>4. Sorted(s, Earlier)
      BY <1>1, <2>2, FiringsRise
    <2>5. Sorted(S, Earlier)
      BY <1>1, <2>2, FiringsRise
    <2> QED BY <2>1, <2>3, <2>4, <2>5
  <1>8. FiringAt(q, policy)' = FiringAt(q, policy)
    BY <1>2 DEF FiringAt, Output
  <1>81. Recalled(q, policy)' = Recalled(q, policy)
    BY <1>2, <1>8 DEF Recalled
  <1>9. c > 0 => O <= c
    <2> DEFINE e == rs.edges[q]
               w == rs'.edges[q]
    <2>1. e \in Seq(Firing) /\ HeldWindow(e, s, t) /\ c = Len(s)
      BY <1>1, InWindow
    <2>2. w = Window(Append(e, f))
      <3>1. rs'.edges = [rs.edges EXCEPT ![f.node] = Window(Append(@, f))]
        BY <1>1 DEF Record, LayersType
      <3>2. rs.edges \in [Nodes -> Seq(Firing)]
        BY <1>1 DEF LayersType
      <3> QED BY <1>1, <3>1, <3>2
    <2>3. O = C - Len(w) + 1
      BY DEF Oldest
    <2> HIDE DEF e, w, s, c, C, O
    <2>4. Append(e, f) \in Seq(Firing) /\ Len(Append(e, f)) = Len(e) + 1 /\ Len(e) \in Nat
      BY <1>1, <2>1, AppendElements
    <2>5. Len(e) > 0 => Len(w) = 2
      <3> DEFINE E == Append(e, f)
      <3>1. E \in Seq(Firing) /\ Len(E) = Len(e) + 1 /\ Len(e) <= 2 /\ Len(e) \in Nat
        BY <2>1, <2>4 DEF HeldWindow
      <3>2. w = IF Len(E) > 2 THEN SubSeq(E, Len(E) - 1, Len(E)) ELSE E
        BY <2>2 DEF Window
      <3> HIDE DEF E
      <3> QED BY <3>1, <3>2
    <2>6. c > 0 => Len(e) > 0
      BY <2>1 DEF HeldWindow
    <2>7. Len(S) = Len(s) + 1 /\ Len(s) \in Nat
      BY <1>1, <1>5, <1>7, AppendElements
    <2>8. C = Len(S)
      BY <1>6 DEF C
    <2> HIDE DEF S, o, t
    <2>9. c > 0 => Len(w) = 2
      BY <2>5, <2>6
    <2>10. C = c + 1 /\ c \in Nat
      BY <2>1, <2>7, <2>8
    <2> QED BY <2>3, <2>9, <2>10
  <1>10. Resolve(q, policy) = IF policy = 0 THEN Latest(q, t) ELSE Index(q, policy)
    BY DEF Resolve
  <1>11. Resolve(q, policy)' = IF policy = 0 THEN Latest(q, tick_count)' ELSE Index(q, policy)'
    BY DEF Resolve
  <1>12. policy \in Nat
    BY RunStateAssumption DEF Policies
  <1> HIDE DEF s, S, c, C, o, O, t
  <1>13. /\ Len(S) = Len(s) + 1 /\ Len(s) \in Nat /\ ToSet(S) = ToSet(s) \cup {f}
         /\ \A i \in 1 .. Len(s) : S[i] = s[i]
    BY <1>1, <1>5, <1>7, AppendElements
  <1>14. CASE policy = 0
    <2>1. UpTo(s, t - 1) = s
      BY <1>1, <1>5, <1>7, UpToFacts
    <2> DEFINE U == UpTo(S, t - 1)
    <2>2. U \in Seq(Firing) /\ Sorted(U, Earlier) /\ \A g : g \in ToSet(U) <=> g \in ToSet(S) /\ g.tick < t
      BY <1>1, <1>6, <1>7, UpToFacts
    <2> HIDE DEF U
    <2>3. \A g \in ToSet(s) : g.tick < t
      BY <1>5, <1>7, ElementsOf
    <2>4. ToSet(U) = ToSet(s)
      <3>1. ~(f.tick < t)
        BY <1>1
      <3> QED BY <1>13, <2>2, <2>3, <3>1
    <2>5. U = s
      BY <1>5, <1>7, <2>2, <2>4, EarlierFacts, SortedUnique
    <2>6. Resolve(q, policy) = Outputs(LastOf(s))
      BY <1>5, <1>10, <1>14, <2>1
    <2>7. Resolve(q, policy)' = Outputs(LastOf(s))
      BY <1>6, <1>11, <1>14, <2>5 DEF U
    <2> QED BY <2>6, <2>7
  <1>15. CASE /\ policy # 0 /\ policy # C
              /\ ~(policy = C - 2 /\ (~mode.persistent \/ S[policy] \in mode.silent))
    <2>1. policy \in Nat /\ policy >= 1 /\ C = c + 1 /\ c \in Nat
      BY <1>5, <1>6, <1>12, <1>13, <1>15
    <2>2. CASE policy \notin o .. c /\ policy \notin O .. C
      <3>1. Index(q, policy) = Recalled(q, policy)
        BY <1>5, <2>2
      <3>2. Index(q, policy)' = Recalled(q, policy)'
        BY <1>6, <2>2
      <3> QED BY <1>10, <1>11, <1>15, <1>81, <3>1, <3>2
    <2>3. CASE policy = c
      <3>1. policy \in o .. c /\ policy \in O .. C /\ S[policy] = s[policy]
        BY <1>5, <1>6, <1>9, <1>13, <2>1, <2>3
      <3> QED BY <1>5, <1>6, <1>10, <1>11, <1>15, <3>1
    <2>4. CASE policy = c - 1
      <3>1. /\ mode.persistent /\ policy \in 1 .. c /\ policy \in 1 .. C
            /\ S[policy] = s[policy] /\ S[policy] \notin mode.silent
        BY <1>5, <1>13, <1>15, <2>1, <2>4
      <3>2. Output(s[policy]) = {s[policy]} /\ Output(S[policy]) = {s[policy]}
        BY <3>1 DEF Output
      <3>3. Index(q, policy) = {{s[policy]}}
        <4>1. policy \notin o .. c => Index(q, policy) = {{s[policy]}} \ {{}}
          <5>1. Recalled(q, policy) = {FiringAt(q, policy)} \ {{}}
            BY <3>1 DEF Recalled
          <5> QED BY <1>5, <3>1, <3>2, <5>1
        <4>2. policy \in o .. c => Index(q, policy) = {{s[policy]}}
          BY <1>5, <3>2
        <4> QED BY <4>1, <4>2
      <3>4. Index(q, policy)' = {{s[policy]}}
        <4>1. Recalled(q, policy)' = {FiringAt(q, policy)'} \ {{}}
          BY <1>2, <3>1 DEF Recalled
        <4>2. policy \notin O .. C => Index(q, policy)' = {{s[policy]}} \ {{}}
          BY <1>6, <3>1, <3>2, <4>1
        <4>3. policy \in O .. C => Index(q, policy)' = {{s[policy]}}
          BY <1>6, <3>2
        <4> QED BY <4>2, <4>3
      <3> QED BY <1>10, <1>11, <1>15, <3>3, <3>4
    <2>5. CASE policy > C
      <3>1. policy \notin o .. c /\ policy \notin O .. C
        BY <2>1, <2>5
      <3> QED BY <2>2, <3>1
    <2>6. CASE policy <= c - 2
      <3>1. policy \notin o .. c /\ policy \notin O .. C
        BY <1>5, <1>6, <2>1, <2>6
      <3> QED BY <2>2, <3>1
    <2>7. policy > C \/ policy = c \/ policy = c - 1 \/ policy <= c - 2
      BY <1>15, <2>1
    <2> QED BY <2>3, <2>4, <2>5, <2>6, <2>7
  <1> QED BY <1>14, <1>15 DEF C, S

\* A firing that has not happened is not on disk either, once this tick's are.
LEMMA FlushFuture ==
  ASSUME HistoryInv, mode.persistent, pc = "tick", NEW n \in Nodes,
         NEW k \in Nat, k > Len(FiringsOf(timeline, n)),
         \E f \in ToSet(rs.pending) : f.node = n /\ f \notin ToSet(rows)
  PROVE  /\ ~(k <= Len(KeepFirst(FiringsOf(rows, n))))
         /\ ~(k <= Len(KeepFirst(FiringsOf(Journal, n))))
  <1> DEFINE s == FiringsOf(timeline, n)
             a == KeepFirst(FiringsOf(rows, n))
             b == KeepFirst(FiringsOf(Journal, n))
             t == tick_count
  <1>1. /\ timeline \in Seq(Firing) /\ Sorted(timeline, Earlier)
        /\ rows \in Seq(Firing) /\ Grows(rows) /\ rs.pending \in Seq(Firing)
        /\ Journal \in Seq(Firing) /\ Grows(Journal)
        /\ ToSet(Journal) = ToSet(rows) \cup ToSet(rs.pending)
        /\ ToSet(timeline) \subseteq ToSet(Journal)
        /\ ToSet(rs.pending) \subseteq ToSet(timeline)
        /\ t \in Int /\ \A f \in ToSet(rs.pending) : f.tick = t
        /\ TimelineWhole
    <2>1. rows \in Seq(Firing) /\ rs.pending \in Seq(Firing) /\ Grows(rows)
      BY RowsGrow, JournalType DEF HistoryInv
    <2>2. ToSet(Journal) = ToSet(rows) \cup ToSet(rs.pending)
      BY <2>1, ConcatElements DEF Journal
    <2>3. JournalOK
      BY DEF HistoryInv
    <2>4. \A f \in ToSet(rs.pending) : f.tick = t
      <3>1. \A i \in 1 .. Len(rs.pending) : rs.pending[i].tick = t
        BY <2>3 DEF JournalOK
      <3>2. \A f \in ToSet(rs.pending) : \E i \in 1 .. Len(rs.pending) : rs.pending[i] = f
        BY <2>1, ElementsOf
      <3> QED BY <3>1, <3>2
    <2> QED BY <2>1, <2>2, <2>4, JournalType DEF HistoryInv, InTick, JournalOK
  <1>2. PICK f \in ToSet(rs.pending) : f.node = n /\ f \notin ToSet(rows)
    OBVIOUS
  <1>3. /\ s \in Seq(Firing) /\ Sorted(s, Earlier)
        /\ ToSet(s) = {g \in ToSet(timeline) : g.node = n}
    BY <1>1, FiringsRise, FiringsOfElements
  <1>4. /\ a \in Seq(Firing) /\ Sorted(a, Earlier)
        /\ \A g : g \in ToSet(a) <=> g \in ToSet(rows) /\ g.node = n
        /\ \A i, j \in 1 .. Len(a) : i < j => a[i].tick < a[j].tick
    BY <1>1, OwnFacts
  <1>5. /\ b \in Seq(Firing) /\ Sorted(b, Earlier)
        /\ \A g : g \in ToSet(b) <=> g \in ToSet(Journal) /\ g.node = n
        /\ \A i, j \in 1 .. Len(b) : i < j => b[i].tick < b[j].tick
    BY <1>1, OwnFacts
  <1>6. k \in Nat /\ k > Len(s)
    OBVIOUS
  <1> HIDE DEF s, a, b, t
  <1>7. f \in Canon /\ f \in Firing /\ f.tick = t
    <2>1. f \in ToSet(Journal)
      BY <1>1, <1>2
    <2> QED BY <1>1, <1>2, <2>1 DEF Grows, Canon
  <1>8. ASSUME NEW g \in ToSet(rows), g.node = n
        PROVE  g.tick < t /\ g \in ToSet(timeline)
    <2>1. g \in Canon /\ g \in Firing
      BY <1>1 DEF Grows, Canon
    <2>2. g # f
      BY <1>2
    <2>3. g.tick # t
      BY <1>2, <1>7, <1>8, <2>1, <2>2, FiringFacts DEF Canon
    <2>4. ~(t < g.tick)
      <3> SUFFICES ASSUME t < g.tick PROVE FALSE
        OBVIOUS
      <3>1. <<f, g>> \in Earlier
        BY <1>7, <2>1, EarlierFacts
      <3>2. PICK i \in 1 .. Len(rows) : rows[i] = g
        BY <1>1, ElementsOf
      <3>3. PICK j \in 1 .. i - 1 : rows[j] = f
        BY <1>1, <1>7, <3>1, <3>2 DEF Grows
      <3>4. j \in 1 .. Len(rows)
        BY <1>1, <3>2
      <3> QED BY <1>1, <1>2, <3>3, <3>4, ElementsOf
    <2>5. g.tick < t
      BY <1>1, <2>1, <2>3, <2>4, FiringFacts
    <2>6. g \in ToSet(timeline)
      BY <1>1, <2>1, <2>5 DEF TimelineWhole, t
    <2> QED BY <2>5, <2>6
  <1>9. b = s
    <2>1. \A g : g \in ToSet(b) <=> g \in ToSet(s)
      BY <1>1, <1>3, <1>5, <1>8
    <2>2. ToSet(b) = ToSet(s)
      BY <2>1
    <2> QED BY <1>3, <1>5, <2>2, EarlierFacts, SortedUnique
  <1>10. ASSUME k <= Len(a)
         PROVE  FALSE
    <2>1. k \in 1 .. Len(a) /\ k \in Nat /\ Len(s) \in Nat
      BY <1>3, <1>4, <1>6, <1>10
    <2>2. a[k] \in ToSet(a) /\ a[k] \in Firing
      BY <1>4, <2>1, ElementsOf
    <2>3. a[k].tick < t /\ a[k].tick \in Int
      BY <1>4, <1>8, <2>2, FiringFacts
    <2>4. ASSUME NEW g \in Firing, g.tick <= a[k].tick
          PROVE  g \in ToSet(a) <=> g \in ToSet(b)
      <3>1. g.tick # t
        BY <1>1, <2>3, <2>4, FiringFacts
      <3> QED BY <1>1, <1>4, <1>5, <3>1
    <2>5. k <= Len(b)
      BY <1>4, <1>5, <2>1, <2>4, SameNumber
    <2> QED BY <1>6, <1>9, <2>1, <2>5
  <1>11. ~(k <= Len(b))
    BY <1>3, <1>6, <1>9
  <1> QED BY <1>10, <1>11 DEF a, b

\* An audit() in a tick changes no read.
LEMMA FlushFrame ==
  ASSUME HistoryInv, AuditFlushes, pc = "tick", NEW n \in Nodes, NEW policy \in Policies
  PROVE  Resolve(n, policy)' = Resolve(n, policy) /\ rs'.fire_counts[n] = rs.fire_counts[n]
  <1>1. /\ mode.persistent /\ rows' = Journal /\ rs' = [rs EXCEPT !.pending = <<>>]
        /\ UNCHANGED <<mode, snapshots, checkpoints, tick_count, pc, todo, plan, restores, timeline>>
    BY DEF AuditFlushes, Journal
  <1>2. rs'.edges = rs.edges /\ rs'.fire_counts = rs.fire_counts
    BY <1>1 DEF HistoryInv, Types, LayersType
  <1>3. Latest(n, tick_count)' = Latest(n, tick_count)
    BY <1>1, <1>2 DEF Latest, Output
  <1> DEFINE s == FiringsOf(timeline, n)
  <1>4. WindowsRight /\ s \in Seq(Firing) /\ rs.fire_counts[n] = Len(s)
    BY WindowsAreRight DEF WindowsRight
  <1>5. WindowsRight'
    <2>1. HistoryInv'
      BY <1>1, Flushed DEF AuditFlushes
    <2> QED BY <2>1, WindowsAreRight, PTL
  <1>6. ASSUME policy # 0
        PROVE  Index(n, policy)' = Index(n, policy)
    <2>1. policy \in Nat /\ policy >= 1 /\ Len(s) \in Nat
      BY <1>4, <1>6, RunStateAssumption DEF Policies
    <2>2. CASE policy <= Len(s)
      <3>1. policy \in 1 .. Len(s)
        BY <2>1, <2>2
      <3>2. Oldest(n)' = Oldest(n)
        BY <1>2 DEF Oldest
      <3>3. CASE policy \in Oldest(n) .. rs.fire_counts[n]
        BY <1>1, <1>2, <3>3 DEF Index, Oldest, Output
      <3>4. CASE policy \notin Oldest(n) .. rs.fire_counts[n]
        <4>1. FiringAt(n, policy) = Output(s[policy])
          BY <1>1, <1>4, <3>1, <3>4 DEF WindowsRight
        <4>2. FiringAt(n, policy)' = Output(s[policy])
          BY <1>1, <1>2, <1>4, <1>5, <3>1, <3>2, <3>4 DEF WindowsRight, Output
        <4>3. Index(n, policy) = Recalled(n, policy) /\ Index(n, policy)' = Recalled(n, policy)'
          BY <1>2, <3>4 DEF Index, Recalled, Oldest
        <4> QED BY <1>1, <4>1, <4>2, <4>3 DEF Recalled
      <3> QED BY <3>3, <3>4
    <2>3. CASE policy > Len(s)
      <3> DEFINE a == KeepFirst(FiringsOf(rows, n))
                 b == KeepFirst(FiringsOf(Journal, n))
      <3>1. FiringAt(n, policy) = IF policy <= Len(a) THEN Output(a[policy]) ELSE {}
        BY DEF FiringAt
      <3>2. FiringAt(n, policy)' = IF policy <= Len(b) THEN Output(b[policy]) ELSE {}
        BY <1>1 DEF FiringAt, Output
      <3>3. FiringAt(n, policy)' = FiringAt(n, policy)
        <4>1. CASE \E f \in ToSet(rs.pending) : f.node = n /\ f \notin ToSet(rows)
          <5>1. ~(policy <= Len(a)) /\ ~(policy <= Len(b))
            BY <1>1, <2>1, <2>3, <4>1, FlushFuture
          <5> QED BY <3>1, <3>2, <5>1
        <4>2. CASE ~\E f \in ToSet(rs.pending) : f.node = n /\ f \notin ToSet(rows)
          <5>1. /\ rows \in Seq(Firing) /\ Grows(rows) /\ rs.pending \in Seq(Firing)
                /\ Journal \in Seq(Firing) /\ Grows(Journal)
            BY <1>1, RowsGrow, JournalType DEF HistoryInv, JournalOK
          <5>2. ToSet(Journal) = ToSet(rows) \cup ToSet(rs.pending)
            BY <5>1, ConcatElements DEF Journal
          <5>3. /\ a \in Seq(Firing) /\ Sorted(a, Earlier)
                /\ \A g : g \in ToSet(a) <=> g \in ToSet(rows) /\ g.node = n
            BY <5>1, OwnFacts
          <5>4. /\ b \in Seq(Firing) /\ Sorted(b, Earlier)
                /\ \A g : g \in ToSet(b) <=> g \in ToSet(Journal) /\ g.node = n
            BY <5>1, OwnFacts
          <5> HIDE DEF a, b
          <5>5. \A g : g \in ToSet(a) <=> g \in ToSet(b)
            BY <4>2, <5>2, <5>3, <5>4
          <5>6. ToSet(a) = ToSet(b)
            BY <5>5
          <5>7. a = b
            BY <5>3, <5>4, <5>6, EarlierFacts, SortedUnique
          <5> QED BY <3>1, <3>2, <5>7
        <4> QED BY <4>1, <4>2
      <3> QED BY <1>1, <1>2, <3>3 DEF Index, Output
    <2> QED BY <2>1, <2>2, <2>3
  <1> QED BY <1>2, <1>3, <1>6 DEF Resolve

LEMMA DispatchInitial == DispatchInit => DispatchInv
  <1> SUFFICES ASSUME DispatchInit PROVE DispatchInv
    OBVIOUS
  <1>1. HistoryInv /\ pc = "user" /\ given = <<>>
    BY InitHistory DEF DispatchInit, Init
  <1> QED BY <1>1 DEF DispatchInv, GivenOK

LEMMA GivenStart ==
  ASSUME DispatchInv, StartTick
  PROVE  GivenOK'
  <1>1. /\ given = <<>> /\ given' = given /\ shared' = Resolved /\ pc' = "tick"
        /\ UNCHANGED <<mode, rs, rows, tick_count>>
    BY DEF DispatchInv, GivenOK, StartTick, BeginTick
  <1>2. ASSUME NEW p \in Nodes, NEW policy \in Policies
        PROVE  Resolve(p, policy)' = shared'[p][policy]
    <2>1. Resolve(p, policy)' = Resolve(p, policy)
      BY <1>1 DEF Resolve, Latest, Index, FiringAt, Output
    <2>2. shared'[p][policy] = Resolve(p, policy)
      BY <1>1 DEF Resolved
    <2> QED BY <2>1, <2>2
  <1>3. DOMAIN given' = {}
    BY <1>1
  <1> QED BY <1>1, <1>2, <1>3 DEF GivenOK

LEMMA GivenFire ==
  ASSUME DispatchInv, FireBody
  PROVE  GivenOK'
  <1>1. /\ Fire /\ HistoryInv /\ GivenOK /\ pc = "tick" /\ pc' = "tick" /\ shared' = shared
        /\ todo' = Tail(todo)
        /\ given' = [n \in DOMAIN given \cup {Head(todo)} |->
                       IF n = Head(todo) THEN Resolved ELSE given[n]]
    BY DEF DispatchInv, FireBody, Fire
  <1>2. PICK q \in Nodes : q = Head(todo)
    BY <1>1, FireFacts
  <1>3. /\ q = todo[1] /\ 1 \in 1 .. Len(todo)
        /\ \A i \in 1 .. Len(todo') : todo'[i] = todo[i + 1] /\ i + 1 \in 1 .. Len(todo)
                                      /\ Precedes(q, todo'[i])
    <2>1. /\ q = todo[1] /\ Len(todo) \in Nat \ {0} /\ Len(todo') = Len(todo) - 1
          /\ \A i \in 1 .. Len(todo) - 1 : todo'[i] = todo[i + 1]
          /\ \A i \in 2 .. Len(todo) : Precedes(q, todo[i])
      BY <1>1, <1>2, FireFacts
    <2>2. \A i \in 1 .. Len(todo') : i \in 1 .. Len(todo) - 1 /\ i + 1 \in 2 .. Len(todo)
                                     /\ i + 1 \in 1 .. Len(todo)
      BY <2>1
    <2>3. 1 \in 1 .. Len(todo)
      BY <2>1
    <2> QED BY <2>1, <2>2, <2>3
  <1>4. \A n \in DOMAIN given : n \in Nodes /\ Precedes(n, q) /\ n # q
    BY <1>1, <1>3, OrderFacts DEF GivenOK
  <1>5. q \notin DOMAIN given /\ DOMAIN given' = DOMAIN given \cup {q}
        /\ given'[q] = Resolved /\ \A n \in DOMAIN given : given'[n] = given[n]
    BY <1>1, <1>2, <1>4
  <1>6. ASSUME NEW p \in Nodes, p # q, NEW policy \in Policies
        PROVE  /\ Resolve(p, policy)' = Resolve(p, policy)
               /\ Shifted(p, policy)' <=> Shifted(p, policy)
    <2>1. Resolve(p, policy)' = Resolve(p, policy) /\ rs'.fire_counts[p] = rs.fire_counts[p]
      BY <1>1, <1>2, <1>6, FireFrame
    <2>2. mode' = mode
      BY <1>1 DEF Fire
    <2>3. FiringsOf(timeline', p) = FiringsOf(timeline, p)
      <3> DEFINE f == [tick |-> tick_count, node |-> Head(todo),
                       epoch |-> IF mode.pure THEN 0 ELSE restores]
      <3>1. /\ timeline' = Append(timeline, f) /\ f \in Firing /\ f.node = Head(todo)
            /\ timeline \in Seq(Firing)
        BY <1>1, FireFacts DEF HistoryInv, Types
      <3> HIDE DEF f
      <3> QED BY <1>2, <1>6, <3>1, FiringsOfAppend
    <2> QED BY <1>5, <1>6, <2>1, <2>2, <2>3 DEF Shifted
  <1>7. ASSUME NEW policy \in Policies
        PROVE  /\ ~Shifted(q, policy) /\ Resolve(q, policy) = shared[q][policy]
               /\ Resolve(q, policy)' # shared[q][policy] => Shifted(q, policy)'
    <2>1. ~Shifted(q, policy)
      BY <1>5 DEF Shifted
    <2>2. Resolve(q, policy) = shared[q][policy]
      BY <1>1, <2>1 DEF GivenOK
    <2>3. ASSUME Resolve(q, policy)' # Resolve(q, policy)
          PROVE  Shifted(q, policy)'
      <3>1. /\ policy # 0
            /\ \/ policy = rs'.fire_counts[q]
               \/ /\ policy = rs'.fire_counts[q] - 2
                  /\ \/ ~mode.persistent
                     \/ FiringsOf(timeline', q)[policy] \in mode.silent
        BY <1>1, <1>2, <2>3, FireShifts
      <3>2. mode' = mode
        BY <1>1 DEF Fire
      <3> QED BY <1>5, <3>1, <3>2 DEF Shifted
    <2> QED BY <2>1, <2>2, <2>3
  <1>8. ASSUME NEW n \in DOMAIN given'
        PROVE  n \in Nodes /\ \A j \in 1 .. Len(todo') : Precedes(n, todo'[j])
    <2>1. CASE n = q
      BY <1>3, <2>1
    <2>2. CASE n \in DOMAIN given
      BY <1>1, <1>3, <2>2 DEF GivenOK
    <2> QED BY <1>5, <2>1, <2>2
  <1>9. ASSUME NEW p \in Nodes, NEW policy \in Policies,
               Resolve(p, policy)' # shared'[p][policy]
        PROVE  Shifted(p, policy)'
    <2>1. CASE p = q
      BY <1>1, <1>7, <1>9, <2>1
    <2>2. CASE p # q
      BY <1>1, <1>6, <1>9, <2>2 DEF GivenOK
    <2> QED BY <2>1, <2>2
  <1>10. ASSUME NEW n \in DOMAIN given', NEW p \in Nodes, NEW policy \in Policies
         PROVE  /\ given'[n][p][policy] # shared'[p][policy] => Precedes(p, n) /\ Shifted(p, policy)'
                /\ Precedes(p, n) => given'[n][p][policy] = Resolve(p, policy)'
    <2>1. CASE n = q
      <3>1. given'[n][p][policy] = Resolve(p, policy)
        BY <1>5, <2>1 DEF Resolved
      <3>2. ~Precedes(q, q)
        BY OrderFacts
      <3>3. CASE p = q
        BY <1>1, <1>7, <2>1, <3>1, <3>2, <3>3
      <3>4. CASE p # q
        <4>1. Resolve(p, policy) # shared[p][policy] => Shifted(p, policy)
          BY <1>1 DEF GivenOK
        <4>2. Shifted(p, policy) => Precedes(p, q)
          BY <1>4 DEF Shifted
        <4> QED BY <1>1, <1>6, <2>1, <3>1, <3>4, <4>1, <4>2
      <3> QED BY <3>3, <3>4
    <2>2. CASE n \in DOMAIN given
      <3>1. /\ given'[n][p][policy] = given[n][p][policy] /\ Precedes(n, q) /\ n \in Nodes
            /\ given[n][p][policy] # shared[p][policy] => Precedes(p, n) /\ Shifted(p, policy)
            /\ Precedes(p, n) => given[n][p][policy] = Resolve(p, policy)
        BY <1>1, <1>4, <1>5, <2>2 DEF GivenOK
      <3>2. CASE p = q
        <4>1. ~Precedes(p, n)
          BY <3>1, <3>2, OrderFacts
        <4> QED BY <1>1, <1>7, <3>1, <3>2, <4>1
      <3>3. CASE p # q
        BY <1>1, <1>6, <3>1, <3>3
      <3> QED BY <3>2, <3>3
    <2> QED BY <1>5, <2>1, <2>2
  <1>11. \A p, n : Precedes(p, n)' <=> Precedes(p, n)
    BY DEF Precedes
  <1> QED BY <1>1, <1>8, <1>9, <1>10 DEF GivenOK

LEMMA GivenAside ==
  ASSUME DispatchInv, Aside
  PROVE  GivenOK'
  <1>1. /\ GivenOK /\ HistoryInv /\ UNCHANGED <<given, shared>>
        /\ UNCHANGED <<mode, pc, todo, tick_count>>
    BY DEF DispatchInv, Aside, AuditFlushes, Checkpoint
  <1>2. ASSUME pc = "tick", NEW p \in Nodes, NEW policy \in Policies
        PROVE  Resolve(p, policy)' = Resolve(p, policy) /\ rs'.fire_counts[p] = rs.fire_counts[p]
    <2>1. CASE AuditFlushes
      BY <1>1, <1>2, <2>1, FlushFrame
    <2>2. ASSUME NEW l \in Labels, Checkpoint(l)
          PROVE  Resolve(p, policy)' = Resolve(p, policy) /\ rs'.fire_counts[p] = rs.fire_counts[p]
      <3>1. UNCHANGED <<mode, rs, rows, tick_count>>
        BY <2>2 DEF Checkpoint
      <3> QED BY <3>1 DEF Resolve, Latest, Index, FiringAt, Output
    <2> QED BY <2>1, <2>2 DEF Aside
  <1>3. ASSUME pc = "tick", NEW p \in Nodes, NEW policy \in Policies
        PROVE  Shifted(p, policy)' <=> Shifted(p, policy)
    <2>1. timeline' = timeline
      BY DEF DispatchInv, Aside, AuditFlushes, Checkpoint
    <2> QED BY <1>1, <1>2, <1>3, <2>1 DEF Shifted
  <1> QED BY <1>1, <1>2, <1>3 DEF GivenOK

LEMMA GivenBetween ==
  ASSUME DispatchInv, Between
  PROVE  GivenOK'
  <1>1. given' = <<>>
    BY DEF Between
  <1>2. pc' # "tick"
    BY DEF Between, Settle, Flush, SaveSnapshot, CrashAndResume, CrashAndStartOver, Fork,
           Rollback, Restore
  <1> QED BY <1>1, <1>2 DEF GivenOK

LEMMA DispatchStep ==
  ASSUME DispatchInv, [DispatchNext]_dvars
  PROVE  DispatchInv'
  <1>1. [Next]_vars
    BY DEF DispatchNext, dvars, StartTick, FireBody, Aside, Between, Next
  <1>2. HistoryInv'
    BY <1>1, HistoryStep DEF DispatchInv
  <1>3. CASE UNCHANGED dvars
    <2>1. UNCHANGED vars /\ UNCHANGED <<given, shared>>
      BY <1>3 DEF dvars
    <2>2. /\ UNCHANGED <<mode, rs, rows, pc, todo, tick_count>>
          /\ \A p, policy : Resolve(p, policy)' = Resolve(p, policy)
          /\ \A p, policy : Shifted(p, policy)' <=> Shifted(p, policy)
          /\ \A p, n : Precedes(p, n)' <=> Precedes(p, n)
      BY <2>1 DEF vars, Resolve, Latest, Index, FiringAt, Output, Shifted, Precedes
    <2>3. GivenOK'
      BY <2>1, <2>2 DEF DispatchInv, GivenOK
    <2> QED BY <1>2, <2>3 DEF DispatchInv
  <1> QED BY <1>2, <1>3, GivenStart, GivenFire, GivenAside, GivenBetween DEF DispatchNext, DispatchInv

\* The invariant of the run with what is read of it.
THEOREM DispatchAlways == DispatchSpec => []DispatchInv
  BY DispatchInitial, DispatchStep, PTL DEF DispatchSpec

\* Both engines give a body the same reads, but for A[k] of a peer declared
\* before it, at one of two indices.
THEOREM EnginesAlwaysAgree == DispatchSpec => []EnginesAgree
  <1>1. DispatchInv => EnginesAgree
    <2> SUFFICES ASSUME DispatchInv PROVE EnginesAgree
      OBVIOUS
    <2>1. CASE pc = "tick"
      BY <2>1 DEF DispatchInv, GivenOK, EnginesAgree
    <2>2. CASE pc # "tick"
      <3>1. DOMAIN given = {}
        BY <2>2 DEF DispatchInv, GivenOK
      <3> QED BY <3>1 DEF EnginesAgree
    <2> QED BY <2>1, <2>2
  <1> QED BY <1>1, DispatchAlways, PTL

\* A guard resolves the values its node's body consumed, but for A[k] of a node
\* recorded since, at one of two indices.
THEOREM GuardsAlwaysSeeBody == DispatchSpec => []GuardSeesBody
  <1>1. DispatchInv => GuardSeesBody
    <2> SUFFICES ASSUME DispatchInv, pc = "tick", todo = <<>>, NEW n \in DOMAIN given,
                        NEW p \in Nodes, NEW policy \in Policies,
                        GuardView[p][policy] # given[n][p][policy]
                 PROVE  ~Precedes(p, n) /\ Shifted(p, policy)
      BY DEF GuardSeesBody
    <2>1. GuardView[p][policy] = Resolve(p, policy)
      BY DEF GuardView, Resolved
    <2> QED BY <2>1 DEF DispatchInv, GivenOK
  <1> QED BY <1>1, DispatchAlways, PTL

=============================================================================
