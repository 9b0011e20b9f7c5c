--------------------------- MODULE Backends_proofs ---------------------------
(***************************************************************************)
(* Proofs about the backends, for any setup, any plan and any number of    *)
(* faults and rollbacks.                                                   *)
(*                                                                         *)
(* The inductive invariant relates, session by session, what is on disk,   *)
(* what the connection has executed, what the calls have returned for and  *)
(* what a fault has spoiled.                                               *)
(***************************************************************************)
EXTENDS Backends, FiringLog_proofs, FiniteSetTheorems

-----------------------------------------------------------------------------
(* The inductive invariant *)

HasRows(s) == <<"rows", 0>> \in harmed[s]

\* The keys of the lines that nothing can spoil any more.
ClosedKeys(d) ==
  {Key(d.log[i]) : i \in {i \in 1 .. Len(d.log) : d.log[i] # Garbage /\ (d.open => i # Len(d.log))}}

\* What is in d can be read from e.
Within(d, e) ==
  /\ ClosedKeys(d) \subseteq ClosedKeys(e)
  /\ \A t \in 1 .. MaxTicks : Loads(d, t) => Loads(e, t)

\* The call w has been executed on d.
Holds(d, w) ==
  CASE w.op = "rows"     -> {Key(f) : f \in ToSet(w.rows)} \subseteq ClosedKeys(d)
    [] w.op = "snapshot" -> Loads(d, w.tick)
    [] w.op = "label"    -> d.labels[w.label] = w.tick

\* The call a runner is in.
InCall(s) ==
  /\ pc[s] # "idle" => s \in setup.active
  /\ pc[s] = "rows" => /\ tick[s] - 1 \in DOMAIN setup.plan
                       /\ \E r \in 0 .. MaxFaults + MaxRollbacks :
                            todo[s] = [op |-> "rows", rows |-> FiringsOfTick(setup.plan, tick[s] - 1, r)]
  /\ pc[s] = "snapshot" => tick[s] # 0 /\ todo[s] = SnapshotOf(s)
  /\ pc[s] = "label" => \E l \in Labels : todo[s] = [op |-> "label", label |-> l, tick |-> tick[s]]
  /\ pc[s] \in {"idle", "down"} => todo[s] = Nothing

\* Who is inside the lock has executed its call.
LockOK ==
  /\ lock = {} \/ \E s \in Sessions : lock = {s}
  /\ \A s \in lock : todo[s] # Nothing /\ Holds(staged[s], todo[s])
  /\ setup.kind = "json" => lock = {} /\ staged = disk
  /\ setup.kind = "sqlite" => \A s \in Sessions : ~disk[s].open /\ ~staged[s].open

\* The snapshots up to tick t, and the firings before it, are on disk, unless a
\* fault hit their save.
Covered(s, t) == \A u \in 1 .. t : Loads(disk[s], u) \/ <<"snapshot", u>> \in harmed[s]

RowsDone(s, t) ==
  HasRows(s) \/ \A u \in DOMAIN setup.plan : \A n \in setup.plan[u] :
                  u < t => [tick |-> u, node |-> n] \in ClosedKeys(disk[s])

\* What is stored of a tick, or about to be, comes after what is before it.
Grounded(s, d) ==
  /\ \A t \in 1 .. MaxTicks : Loads(d, t) => Covered(s, t - 1) /\ RowsDone(s, t)
  /\ \A l \in Labels : d.labels[l] # None => Covered(s, d.labels[l]) /\ RowsDone(s, d.labels[l])

\* How far the session has come.
Position(s) ==
  /\ Covered(s, IF pc[s] \in {"idle", "label"} THEN tick[s] ELSE tick[s] - 1)
  /\ pc[s] # "down" => RowsDone(s, IF pc[s] = "rows" THEN tick[s] - 1 ELSE tick[s])

\* A line that is open may yet spoil a firing.
Spoiling(d) == IF d.open THEN 1 ELSE 0

Survives(s) ==
  LET lost == acked[s].firings \ ClosedKeys(disk[s])
  IN /\ setup.kind = "sqlite" => lost = {}
     /\ Cardinality(lost) + Spoiling(disk[s]) <= faults
     /\ \A f \in lost : f.node = FiringsOfTick(setup.plan, f.tick, 0)[1].node
     /\ ~HasRows(s) => lost = {}

\* As long as no batch was spoiled, the log is the run's history with replays:
\* before a firing come those of its node in the ticks before it.
History(log) ==
  \A i \in 1 .. Len(log) :
    /\ log[i] \in Firing
    /\ log[i].tick \in DOMAIN setup.plan
    /\ log[i].node \in setup.plan[log[i].tick]
    /\ \A u \in DOMAIN setup.plan :
         u < log[i].tick /\ log[i].node \in setup.plan[u] =>
           \E j \in 1 .. i - 1 : log[j].tick = u /\ log[j].node = log[i].node

Canonical(s) ==
  ~HasRows(s) =>
    /\ ~disk[s].open /\ ~staged[s].open
    /\ History(disk[s].log)
    /\ staged[s].log = IF s \in lock /\ pc[s] = "rows" THEN disk[s].log \o todo[s].rows ELSE disk[s].log

\* As long as nothing was spoiled, the transaction is the call under way.
Pending(s) ==
  harmed[s] = {} => staged[s] = IF s \in lock THEN Applied(disk[s], todo[s]) ELSE disk[s]

StoreOK(s) ==
  /\ disk[s].open => disk[s].log # <<>>
  /\ staged[s].open => staged[s].log # <<>>
  /\ Within(disk[s], staged[s])
  /\ Grounded(s, disk[s])
  /\ Grounded(s, staged[s])
  /\ Survives(s)
  /\ Canonical(s)
  /\ Pending(s)
  /\ faults = 0 => harmed[s] = {}

SessionOK(s) == InCall(s) /\ Position(s) /\ StoreOK(s)

BackendsInv ==
  /\ BackendsTypeOK
  /\ LockOK
  /\ \A s \in Sessions : SessionOK(s)

-----------------------------------------------------------------------------
(* What is stored *)

Lines == Seq(Firing \cup {Garbage})

\* What a write w may make of d, whole or cut short.
Changed(d, e, w) ==
  /\ e \in Stored
  /\ e.open => e.log # <<>>
  /\ ClosedKeys(d) \subseteq ClosedKeys(e)
  /\ \A t \in 1 .. MaxTicks : (Loads(e, t) <=> Loads(d, t)) \/ (w.op = "snapshot" /\ w.tick = t)
  /\ \A l \in Labels : \/ e.labels[l] \in {d.labels[l], None}
                       \/ w.op = "label" /\ w.label = l /\ e.labels[l] = w.tick
  /\ w.op # "label" => e.labels = d.labels
  /\ w.op # "rows" => e.log = d.log /\ e.open = d.open

Sound(d) == d \in Stored /\ (d.open => d.log # <<>>)

LEMMA FiringTypes ==
  /\ Garbage \notin Firing
  /\ \A f \in Firing : f.tick \in 0 .. MaxTicks - 1 /\ f.node \in Nodes
                       /\ Key(f) \in [tick : 0 .. MaxTicks - 1, node : Nodes]
  BY DEF Garbage, None, Firing, Key

LEMMA StoredParts ==
  ASSUME NEW d \in Stored
  PROVE  /\ d.log \in Lines /\ d.open \in BOOLEAN
         /\ d.snaps \in [1 .. MaxTicks -> {"absent", "torn", "whole"}]
         /\ d.labels \in [Labels -> -1 .. MaxTicks]
         /\ Len(d.log) \in Nat /\ DOMAIN d.log = 1 .. Len(d.log)
         /\ \A i \in 1 .. Len(d.log) : d.log[i] \in Firing \cup {Garbage}
  BY DEF Stored, Lines

LEMMA EmptyFacts ==
  /\ Sound(Empty) /\ ~Empty.open /\ Empty.log = <<>>
  /\ \A t \in 1 .. MaxTicks : ~Loads(Empty, t)
  /\ \A l \in Labels : Empty.labels[l] = None
  /\ ClosedKeys(Empty) = {}
  <1>1. Empty \in Stored
    BY BackendsAssumption DEF Empty, Stored, None
  <1> QED BY <1>1 DEF Empty, Sound, Loads, ClosedKeys

Joined(u, a, g, b) ==
  /\ u = a \o g \o b
  /\ Len(u) = Len(a) + Len(g) + Len(b)
  /\ \A i \in 1 .. Len(a) : u[i] = a[i]
  /\ \A i \in 1 .. Len(b) : u[Len(a) + Len(g) + i] = b[i]

LEMMA ConcatThree ==
  ASSUME NEW S, NEW a \in Seq(S), NEW g \in Seq(S), NEW b \in Seq(S)
  PROVE  \E u \in Seq(S) : Joined(u, a, g, b)
  <1> DEFINE ag == a \o g
             u == ag \o b
  <1>1. /\ ag \in Seq(S) /\ Len(ag) = Len(a) + Len(g)
        /\ Len(a) \in Nat /\ Len(b) \in Nat /\ Len(g) \in Nat
        /\ \A i \in 1 .. Len(a) : ag[i] = a[i]
    OBVIOUS
  <1> HIDE DEF ag
  <1>0. ag \in Seq(S)
    BY <1>1
  <1>2. /\ u \in Seq(S) /\ Len(u) = Len(ag) + Len(b)
        /\ \A i \in 1 .. Len(ag) : u[i] = ag[i]
        /\ \A i \in 1 .. Len(b) : u[Len(ag) + i] = b[i]
    BY <1>0, ConcatElements
  <1>3. u = a \o g \o b
    BY DEF ag
  <1> HIDE DEF u
  <1>4. \A i \in 1 .. Len(a) : u[i] = a[i]
    BY <1>1, <1>2
  <1>5. \A i \in 1 .. Len(b) : u[Len(a) + Len(g) + i] = b[i]
    BY <1>1, <1>2
  <1>6. Len(u) = Len(a) + Len(g) + Len(b)
    BY <1>1, <1>2
  <1>7. Joined(u, a, g, b)
    BY <1>3, <1>4, <1>5, <1>6, Zenon DEF Joined
  <1> QED BY <1>2, <1>7

\* Appending to a log spoils no closed line, and only the first of the lines
\* appended, if the last was open.
LEMMA AppendFacts ==
  ASSUME NEW d, Sound(d), NEW lines \in Lines, lines # <<>>, NEW open \in BOOLEAN
  PROVE  LET e == AppendLines(d, lines, open)
         IN /\ Sound(e) /\ e.open = open /\ e.snaps = d.snaps /\ e.labels = d.labels
            /\ ClosedKeys(d) \subseteq ClosedKeys(e)
            /\ ~d.open => e.log = d.log \o lines
            /\ ~open => \A i \in 1 .. Len(lines) :
                          lines[i] # Garbage /\ (i # 1 \/ ~d.open) => Key(lines[i]) \in ClosedKeys(e)
  <1> DEFINE e == AppendLines(d, lines, open)
             m == Len(d.log)
             new == IF d.open THEN SubSeq(d.log, 1, m - 1) \o <<Garbage>> \o Tail(lines) ELSE d.log \o lines
             S == Firing \cup {Garbage}
  <1>1. /\ d.log \in Seq(S) /\ m \in Nat /\ d \in Stored /\ lines \in Seq(S) /\ Garbage \in S
        /\ Len(lines) \in Nat /\ Len(lines) # 0 /\ d.open \in BOOLEAN /\ DOMAIN d.log = 1 .. m
        /\ Len(d.log) = m
    BY StoredParts DEF Sound, Lines
  <1>2. d.open => m >= 1
    BY <1>1 DEF Sound
  <1>3. e = [d EXCEPT !.log = new, !.open = open]
    BY DEF AppendLines, Front
  <1> HIDE DEF m, S
  <1>4. /\ new \in Seq(S)
        /\ Len(new) = IF d.open THEN m - 1 + Len(lines) ELSE m + Len(lines)
        /\ \A i \in 1 .. m : i # m \/ ~d.open => new[i] = d.log[i]
        /\ \A i \in 1 .. Len(lines) : i # 1 \/ ~d.open =>
             new[IF d.open THEN m - 1 + i ELSE m + i] = lines[i]
    <2>1. CASE ~d.open
      <3>1. new = d.log \o lines
        BY <2>1
      <3>2. /\ new \in Seq(S) /\ Len(new) = m + Len(lines)
            /\ \A i \in 1 .. m : new[i] = d.log[i]
            /\ \A i \in 1 .. Len(lines) : new[m + i] = lines[i]
        BY <1>1, <2>1 DEF m
      <3> QED BY <2>1, <3>2
    <2>2. CASE d.open
      <3> DEFINE a == SubSeq(d.log, 1, m - 1)
                 b == Tail(lines)
                 g == <<Garbage>>
      <3>1. a \in Seq(S) /\ Len(a) = m - 1 /\ \A i \in 1 .. m - 1 : a[i] = d.log[i]
        <4>1. 1 \in 1 .. m + 1 /\ m - 1 \in 0 .. m /\ (m - 1) - 1 + 1 = m - 1 /\ 1 - 1 = 0
          BY <1>1, <1>2, <2>2
        <4>2. \A i \in 1 .. m - 1 : 1 + i - 1 = i
          OBVIOUS
        <4> QED BY <1>1, <4>1, <4>2, SubSeqFacts
      <3>2. b \in Seq(S) /\ Len(b) = Len(lines) - 1 /\ \A i \in 1 .. Len(lines) - 1 : b[i] = lines[i + 1]
        BY <1>1
      <3>0. g \in Seq(S) /\ Len(g) = 1
        BY <1>1
      <3> HIDE DEF a, b, g
      <3>3. PICK abc \in Seq(S) : Joined(abc, a, g, b)
        BY <3>0, <3>1, <3>2, ConcatThree
      <3>4. new = abc
        <4>1. abc = a \o g \o b
          BY <3>3 DEF Joined
        <4>2. new = SubSeq(d.log, 1, m - 1) \o <<Garbage>> \o Tail(lines)
          BY <2>2
        <4> HIDE DEF new
        <4> QED BY <4>1, <4>2 DEF a, b, g
      <3> HIDE DEF new
      <3>5. Len(abc) = m - 1 + Len(lines)
        BY <1>1, <3>0, <3>1, <3>2, <3>3 DEF Joined
      <3>6. \A i \in 1 .. m : i # m => abc[i] = d.log[i]
        BY <1>1, <3>1, <3>3 DEF Joined
      <3>7. \A i \in 1 .. Len(lines) : i # 1 => abc[m - 1 + i] = lines[i]
        <4> SUFFICES ASSUME NEW i \in 1 .. Len(lines), i # 1 PROVE abc[m - 1 + i] = lines[i]
          OBVIOUS
        <4>1. /\ i - 1 \in 1 .. Len(b) /\ i - 1 \in 1 .. Len(lines) - 1
              /\ Len(a) + Len(g) + (i - 1) = m - 1 + i /\ (i - 1) + 1 = i
          BY <1>1, <3>0, <3>1, <3>2
        <4> QED BY <3>2, <3>3, <4>1 DEF Joined
      <3> QED BY <2>2, <3>3, <3>4, <3>5, <3>6, <3>7
    <2> QED BY <2>1, <2>2
  <1> HIDE DEF new
  <1>5. /\ e.log = new /\ e.open = open /\ e.snaps = d.snaps /\ e.labels = d.labels
    BY <1>1, <1>3 DEF Stored
  <1>6. e \in Stored
    BY <1>1, <1>3, <1>4 DEF Stored, S
  <1>7. new # <<>>
    BY <1>1, <1>2, <1>4
  <1> HIDE DEF e
  <1>8. ASSUME NEW i \in 1 .. m, d.log[i] # Garbage, d.open => i # m
        PROVE  Key(d.log[i]) \in ClosedKeys(e)
    <2>1. new[i] = d.log[i] /\ i \in 1 .. Len(new) /\ i # Len(new)
      BY <1>1, <1>2, <1>4, <1>8
    <2> QED BY <1>5, <1>8, <2>1 DEF ClosedKeys
  <1>9. ASSUME ~open, NEW i \in 1 .. Len(lines), lines[i] # Garbage, i # 1 \/ ~d.open
        PROVE  Key(lines[i]) \in ClosedKeys(e)
    <2>1. \E j \in 1 .. Len(new) : new[j] = lines[i]
      <3>1. CASE d.open
        BY <1>1, <1>2, <1>4, <1>9, <3>1
      <3>2. CASE ~d.open
        BY <1>1, <1>2, <1>4, <1>9, <3>2
      <3> QED BY <3>1, <3>2
    <2> QED BY <1>5, <1>9, <2>1 DEF ClosedKeys
  <1>10. ~d.open => new = d.log \o lines
    BY DEF new
  <1>11. ClosedKeys(d) \subseteq ClosedKeys(e)
    BY <1>8 DEF ClosedKeys, m
  <1>12. Sound(e)
    BY <1>5, <1>6, <1>7 DEF Sound
  <1> QED BY <1>5, <1>9, <1>10, <1>11, <1>12 DEF e

LEMMA WriteFacts ==
  ASSUME NEW w \in Write
  PROVE  /\ w.op \in {"rows", "snapshot", "label"}
         /\ w.op = "rows" => w.rows \in Seq(Firing) /\ (w # Nothing => w.rows # <<>>)
         /\ w.op = "snapshot" => w.tick \in 1 .. MaxTicks
         /\ w.op = "label" => w.label \in Labels /\ w.tick \in 0 .. MaxTicks
  BY DEF Write, Nothing

\* Part of a batch.
LEMMA SomeRows ==
  ASSUME NEW rows \in Seq(Firing), NEW k \in 0 .. Len(rows)
  PROVE  /\ SubSeq(rows, 1, k) \in Seq(Firing) /\ Len(SubSeq(rows, 1, k)) = k
         /\ \A i \in 1 .. k : SubSeq(rows, 1, k)[i] = rows[i]
         /\ SubSeq(rows, 1, k) \in Lines
         /\ Append(SubSeq(rows, 1, k), Garbage) \in Lines /\ Append(SubSeq(rows, 1, k), Garbage) # <<>>
  <1>1. Len(rows) \in Nat /\ 1 \in 1 .. Len(rows) + 1 /\ k \in 1 - 1 .. Len(rows) /\ k - 1 + 1 = k
    OBVIOUS
  <1>2. \A i \in 1 .. k : 1 + i - 1 = i
    OBVIOUS
  <1> DEFINE q == SubSeq(rows, 1, k)
  <1>3. /\ q \in Seq(Firing) /\ Len(q) = k
        /\ \A i \in 1 .. k : q[i] = rows[i]
    BY <1>1, <1>2, SubSeqFacts
  <1> HIDE DEF q
  <1>4. q \in Lines
    BY <1>3 DEF Lines
  <1>5. Append(q, Garbage) \in Lines /\ Append(q, Garbage) # <<>>
    BY <1>4 DEF Lines
  <1> QED BY <1>3, <1>4, <1>5 DEF q

LEMMA AppendedParts ==
  ASSUME NEW d, Sound(d), NEW w \in Write, w.op = "rows", NEW lines \in Lines, NEW open \in BOOLEAN
  PROVE  LET e == AppendLines(d, lines, open)
         IN /\ Changed(d, e, w) /\ e.snaps = d.snaps /\ e.labels = d.labels
            /\ ~d.open => e.log = d.log \o lines
            /\ e.open => d.open \/ open
  <1> DEFINE e == AppendLines(d, lines, open)
  <1>1. CASE lines = <<>>
    <2>1. e = d
      BY <1>1 DEF AppendLines
    <2>2. d.log \o <<>> = d.log
      BY StoredParts DEF Sound, Lines
    <2> HIDE DEF e
    <2> QED BY <1>1, <2>1, <2>2 DEF Changed, Sound, e
  <1>2. CASE lines # <<>>
    <2>1. /\ Sound(e) /\ e.open = open /\ e.snaps = d.snaps /\ e.labels = d.labels
          /\ ClosedKeys(d) \subseteq ClosedKeys(e)
          /\ ~d.open => e.log = d.log \o lines
      BY <1>2, AppendFacts
    <2> HIDE DEF e
    <2>2. Changed(d, e, w)
      BY <2>1 DEF Changed, Sound, Loads
    <2> QED BY <2>1, <2>2 DEF e
  <1> QED BY <1>1, <1>2

LEMMA Untouched ==
  ASSUME NEW d, Sound(d), NEW w
  PROVE  Changed(d, d, w) /\ Within(d, d)
  BY DEF Changed, Within, Sound

\* Another write than a batch, whole or cut short.
LEMMA OtherParts ==
  ASSUME NEW d, Sound(d), NEW w \in Write, w.op # "rows"
  PROVE  /\ Changed(d, Applied(d, w), w) /\ Within(d, Applied(d, w)) /\ Holds(Applied(d, w), w)
         /\ \A e \in Torn(d, w) : Changed(d, e, w)
  <1> USE DEF Sound
  <1>1. CASE w.op = "snapshot"
    <2> DEFINE e == [d EXCEPT !.snaps[w.tick] = "whole"]
               f == [d EXCEPT !.snaps[w.tick] = "torn"]
    <2>1. Applied(d, w) = e /\ Torn(d, w) = {f}
      BY <1>1 DEF Applied, Torn
    <2>2. w.tick \in 1 .. MaxTicks
      BY <1>1, WriteFacts
    <2>3. /\ e \in Stored /\ e.log = d.log /\ e.open = d.open /\ e.labels = d.labels
          /\ e.snaps = [d.snaps EXCEPT ![w.tick] = "whole"]
      BY <2>2 DEF Stored
    <2>4. /\ f \in Stored /\ f.log = d.log /\ f.open = d.open /\ f.labels = d.labels
          /\ f.snaps = [d.snaps EXCEPT ![w.tick] = "torn"]
      BY <2>2 DEF Stored
    <2> HIDE DEF e, f
    <2>5. /\ \A t \in 1 .. MaxTicks : t # w.tick => (Loads(e, t) <=> Loads(d, t)) /\ (Loads(f, t) <=> Loads(d, t))
          /\ Loads(e, w.tick)
      BY <2>2, <2>3, <2>4, StoredParts DEF Loads
    <2>6. ClosedKeys(e) = ClosedKeys(d) /\ ClosedKeys(f) = ClosedKeys(d)
      BY <2>3, <2>4 DEF ClosedKeys
    <2>7. Changed(d, e, w) /\ Changed(d, f, w)
      BY <1>1, <2>3, <2>4, <2>5, <2>6 DEF Changed
    <2>8. Within(d, e) /\ Holds(e, w)
      BY <1>1, <2>3, <2>5, <2>6 DEF Within, Holds
    <2> QED BY <2>1, <2>7, <2>8
  <1>2. CASE w.op = "label"
    <2> DEFINE e == [d EXCEPT !.labels[w.label] = w.tick]
               f == [d EXCEPT !.labels = [l \in Labels |-> None]]
    <2>1. Applied(d, w) = e /\ Torn(d, w) = {f}
      BY <1>2 DEF Applied, Torn
    <2>2. w.label \in Labels /\ w.tick \in 0 .. MaxTicks /\ w.tick \in -1 .. MaxTicks /\ w.tick # None
      BY <1>2, WriteFacts DEF None
    <2>3. /\ e \in Stored /\ e.log = d.log /\ e.open = d.open /\ e.snaps = d.snaps
          /\ e.labels = [d.labels EXCEPT ![w.label] = w.tick]
      BY <2>2 DEF Stored
    <2>4. /\ f \in Stored /\ f.log = d.log /\ f.open = d.open /\ f.snaps = d.snaps
          /\ f.labels = [l \in Labels |-> None]
      <3>1. [l \in Labels |-> None] \in [Labels -> -1 .. MaxTicks]
        BY BackendsAssumption DEF None
      <3> QED BY <3>1 DEF Stored
    <2> HIDE DEF e, f
    <2>5. /\ \A l \in Labels : l # w.label => e.labels[l] = d.labels[l]
          /\ e.labels[w.label] = w.tick
          /\ \A l \in Labels : f.labels[l] = None
      BY <2>2, <2>3, <2>4, StoredParts
    <2>6. ClosedKeys(e) = ClosedKeys(d) /\ ClosedKeys(f) = ClosedKeys(d)
      BY <2>3, <2>4 DEF ClosedKeys
    <2>7. Changed(d, e, w) /\ Changed(d, f, w)
      BY <1>2, <2>3, <2>4, <2>5, <2>6 DEF Changed, Loads
    <2>8. Within(d, e) /\ Holds(e, w)
      BY <1>2, <2>2, <2>3, <2>5, <2>6 DEF Within, Holds, Loads
    <2> QED BY <2>1, <2>7, <2>8
  <1> QED BY <1>1, <1>2, WriteFacts

\* What is stored of an interrupted write.
LEMMA PartsFacts ==
  ASSUME NEW d, Sound(d), NEW w \in Write, NEW e \in Parts(d, w)
  PROVE  /\ Changed(d, e, w) /\ Within(d, e)
         /\ e.open => d.open
         /\ w.op = "rows" /\ ~d.open => \E k \in 0 .. Len(w.rows) : e.log = d.log \o SubSeq(w.rows, 1, k)
  <1>1. CASE w.op = "rows"
    <2>1. PICK k \in 0 .. Len(w.rows) : e = AppendLines(d, SubSeq(w.rows, 1, k), FALSE)
      BY <1>1 DEF Parts
    <2>2. SubSeq(w.rows, 1, k) \in Lines
      BY <1>1, SomeRows, WriteFacts
    <2>3. /\ Changed(d, e, w) /\ e.snaps = d.snaps /\ e.labels = d.labels
          /\ ~d.open => e.log = d.log \o SubSeq(w.rows, 1, k)
          /\ e.open => d.open
      BY <1>1, <2>1, <2>2, AppendedParts
    <2>4. Within(d, e)
      BY <2>3 DEF Within, Changed, Loads
    <2> QED BY <2>3, <2>4
  <1>2. CASE w.op # "rows"
    <2>1. e \in {d, Applied(d, w)}
      BY <1>2 DEF Parts
    <2>2. Changed(d, e, w) /\ Within(d, e)
      BY <1>2, <2>1, OtherParts, Untouched
    <2> QED BY <1>2, <2>2 DEF Changed
  <1> QED BY <1>1, <1>2

\* A call may have stored nothing yet.
LEMMA NothingStored ==
  ASSUME NEW d, NEW w \in Write
  PROVE  /\ d \in Parts(d, w)
         /\ w = Nothing => Parts(d, w) = {d} /\ Torn(d, w) = {}
  <1>1. AppendLines(d, <<>>, FALSE) = d
    BY DEF AppendLines
  <1>2. CASE w.op = "rows"
    <2>1. w.rows \in Seq(Firing) /\ Len(w.rows) \in Nat
      BY <1>2, WriteFacts
    <2>2. Len(SubSeq(w.rows, 1, 0)) = 0 /\ SubSeq(w.rows, 1, 0) \in Seq(Firing)
      BY <2>1, SomeRows
    <2> DEFINE q == SubSeq(w.rows, 1, 0)
    <2>3. q = <<>>
      <3>1. q \in Seq(Firing) /\ Len(q) = 0
        BY <2>2
      <3> HIDE DEF q
      <3> QED BY <3>1
    <2>4. d \in Parts(d, w)
      <3>1. 0 \in 0 .. Len(w.rows)
        BY <2>1
      <3>2. AppendLines(d, SubSeq(w.rows, 1, 0), FALSE) \in Parts(d, w)
        BY <1>2, <3>1 DEF Parts
      <3> QED BY <1>1, <2>3, <3>2
    <2>5. ASSUME w = Nothing PROVE Parts(d, w) = {d} /\ Torn(d, w) = {}
      <3>1. Len(w.rows) = 0
        BY <2>5, EmptyElements DEF Nothing
      <3>2. 0 .. Len(w.rows) = {0} /\ 1 .. Len(w.rows) = {}
        BY <3>1
      <3>3. Parts(d, w) = {AppendLines(d, SubSeq(w.rows, 1, 0), FALSE)}
        BY <1>2, <3>2 DEF Parts
      <3>4. Torn(d, w) = {}
        BY <1>2, <3>2 DEF Torn
      <3> QED BY <1>1, <2>3, <3>3, <3>4
    <2> QED BY <2>4, <2>5
  <1>3. CASE w.op # "rows"
    BY <1>3 DEF Parts, Nothing
  <1> QED BY <1>2, <1>3

LEMMA TornParts ==
  ASSUME NEW d, Sound(d), NEW w \in Write, NEW e \in Torn(d, w)
  PROVE  Changed(d, e, w)
  <1>1. CASE w.op = "rows"
    <2>1. PICK k \in 1 .. Len(w.rows) :
            \/ e = AppendLines(d, SubSeq(w.rows, 1, k), TRUE)
            \/ e = AppendLines(d, Append(SubSeq(w.rows, 1, k - 1), Garbage), TRUE)
      BY <1>1 DEF Torn
    <2>2. k \in 0 .. Len(w.rows) /\ k - 1 \in 0 .. Len(w.rows)
      BY <1>1, WriteFacts
    <2>3. SubSeq(w.rows, 1, k) \in Lines /\ Append(SubSeq(w.rows, 1, k - 1), Garbage) \in Lines
      BY <1>1, <2>2, SomeRows, WriteFacts
    <2> QED BY <1>1, <2>1, <2>3, AppendedParts
  <1> QED BY <1>1, OtherParts

\* What is stored of a write that is done.
LEMMA AppliedFacts ==
  ASSUME NEW d, Sound(d), NEW w \in Write, w # Nothing
  PROVE  /\ Changed(d, Applied(d, w), w) /\ Within(d, Applied(d, w))
         /\ ~d.open => Holds(Applied(d, w), w)
         /\ w.op = "rows" =>
              /\ ~Applied(d, w).open
              /\ \A i \in 1 .. Len(w.rows) : i # 1 => Key(w.rows[i]) \in ClosedKeys(Applied(d, w))
              /\ ~d.open => Applied(d, w).log = d.log \o w.rows
         /\ w.op # "rows" => Holds(Applied(d, w), w)
  <1>1. CASE w.op = "rows"
    <2> DEFINE e == Applied(d, w)
    <2>1. w.rows \in Seq(Firing) /\ w.rows # <<>>
      BY <1>1, WriteFacts
    <2>2. w.rows \in Lines /\ Len(w.rows) \in Nat /\ \A i \in 1 .. Len(w.rows) : w.rows[i] \in Firing
      BY <2>1 DEF Lines
    <2>3. e = AppendLines(d, w.rows, FALSE)
      BY <1>1 DEF Applied
    <2> HIDE DEF e
    <2>4. /\ ~e.open /\ e.snaps = d.snaps /\ e.labels = d.labels /\ Changed(d, e, w)
          /\ ~d.open => e.log = d.log \o w.rows
          /\ \A i \in 1 .. Len(w.rows) :
               w.rows[i] # Garbage /\ (i # 1 \/ ~d.open) => Key(w.rows[i]) \in ClosedKeys(e)
      <3> DEFINE rows == w.rows
      <3>1. rows \in Lines /\ rows # <<>> /\ e = AppendLines(d, rows, FALSE)
        BY <2>1, <2>2, <2>3
      <3> HIDE DEF rows
      <3>2. /\ ~e.open /\ e.snaps = d.snaps /\ e.labels = d.labels
            /\ ~d.open => e.log = d.log \o rows
            /\ \A i \in 1 .. Len(rows) :
                 rows[i] # Garbage /\ (i # 1 \/ ~d.open) => Key(rows[i]) \in ClosedKeys(e)
        BY <3>1, AppendFacts
      <3>3. Changed(d, e, w)
        BY <1>1, <3>1, AppendedParts
      <3> QED BY <3>2, <3>3 DEF rows
    <2>5. \A i \in 1 .. Len(w.rows) : i # 1 \/ ~d.open => Key(w.rows[i]) \in ClosedKeys(e)
      BY <2>2, <2>4, FiringTypes
    <2>6. ~d.open => Holds(e, w)
      <3> SUFFICES ASSUME ~d.open, NEW f \in ToSet(w.rows) PROVE Key(f) \in ClosedKeys(e)
        BY <1>1 DEF Holds
      <3>1. PICK i \in 1 .. Len(w.rows) : w.rows[i] = f
        BY <2>1, ElementsOf
      <3> QED BY <2>5, <3>1
    <2>7. Within(d, e)
      BY <2>4 DEF Within, Changed, Loads
    <2> QED BY <1>1, <2>4, <2>5, <2>6, <2>7 DEF e
  <1>2. CASE w.op # "rows"
    BY <1>2, OtherParts
  <1> QED BY <1>1, <1>2

-----------------------------------------------------------------------------
(* The firings of a tick *)

LEMMA PlanFacts ==
  ASSUME BackendsTypeOK
  PROVE  \A t \in DOMAIN setup.plan : t \in 0 .. MaxTicks - 1 /\ setup.plan[t] \subseteq Nodes
  <1>1. IsSetup(setup)
    BY BackendsAssumption DEF BackendsTypeOK
  <1>2. PICK k \in 0 .. MaxTicks : setup.plan \in [0 .. k - 1 -> SUBSET Nodes]
    BY <1>1 DEF IsSetup
  <1>3. \A t \in 0 .. k - 1 : t \in 0 .. MaxTicks - 1
    BY BackendsAssumption
  <1> QED BY <1>2, <1>3

\* The nodes that fire in tick t, in declaration order.
Fired(t) == Select(Order, {i \in DOMAIN Order : t \in DOMAIN setup.plan /\ Order[i] \in setup.plan[t]})

LEMMA FiredFacts ==
  ASSUME BackendsTypeOK, NEW t \in DOMAIN setup.plan
  PROVE  Fired(t) \in Seq(Nodes) /\ ToSet(Fired(t)) = setup.plan[t]
  <1> DEFINE I == {i \in DOMAIN Order : t \in DOMAIN setup.plan /\ Order[i] \in setup.plan[t]}
             n == Len(Order)
  <1>1. Order \in Seq(Nodes) /\ DOMAIN Order = 1 .. n
    BY BackendsAssumption
  <1>2. Fired(t) \in Seq(Nodes) /\ ToSet(Fired(t)) = {Order[i] : i \in I \cap (1 .. n)}
    BY <1>1, SelectChosen, SelectElements DEF Fired
  <1>3. \A x : x \in Nodes <=> \E i \in 1 .. n : Order[i] = x
    BY <1>1, ElementsOf DEF Nodes
  <1>4. setup.plan[t] \subseteq Nodes
    BY PlanFacts
  <1>5. \A i \in I : Order[i] \in setup.plan[t]
    OBVIOUS
  <1>6. ASSUME NEW x \in setup.plan[t]
        PROVE  \E i \in I \cap (1 .. n) : Order[i] = x
    BY <1>1, <1>3, <1>4
  <1> HIDE DEF I, n
  <1> QED BY <1>2, <1>5, <1>6

LEMMA TickRows ==
  ASSUME BackendsTypeOK, NEW t \in DOMAIN setup.plan, NEW r \in 0 .. MaxFaults + MaxRollbacks
  PROVE  LET q == FiringsOfTick(setup.plan, t, r)
         IN /\ q \in Seq(Firing) /\ Len(q) = Len(Fired(t))
            /\ \A i \in 1 .. Len(q) : q[i].tick = t /\ q[i].node = Fired(t)[i] /\ q[i].node \in setup.plan[t]
            /\ \A n \in setup.plan[t] : \E i \in 1 .. Len(q) : q[i].node = n
            /\ \A n \in setup.plan[t] : \E f \in ToSet(q) : Key(f) = [tick |-> t, node |-> n]
            /\ q = <<>> <=> setup.plan[t] = {}
  <1> DEFINE w == Fired(t)
             q == FiringsOfTick(setup.plan, t, r)
             l == Len(w)
  <1>1. w \in Seq(Nodes) /\ DOMAIN w = 1 .. l /\ l \in Nat /\ \A i \in 1 .. l : w[i] \in Nodes
    BY FiredFacts
  <1>2. q = [i \in 1 .. l |-> [tick |-> t, node |-> w[i], run |-> r]]
    BY <1>1 DEF FiringsOfTick, Fired
  <1>3. t \in 0 .. MaxTicks - 1
    BY PlanFacts
  <1>4. \A i \in 1 .. l : w[i] \in setup.plan[t]
    BY <1>1, FiredFacts, ElementsOf
  <1>5. \A n \in setup.plan[t] : \E i \in 1 .. l : w[i] = n
    BY <1>1, FiredFacts, ElementsOf
  <1> HIDE DEF w, q, l
  <1>6. \A i \in 1 .. l : [tick |-> t, node |-> w[i], run |-> r] \in Firing
    BY <1>1, <1>3 DEF Firing
  <1>7. q \in Seq(Firing) /\ Len(q) = l
    BY <1>1, <1>2, <1>6
  <1>8. \A i \in 1 .. l : q[i].tick = t /\ q[i].node = w[i]
    BY <1>2
  <1>9. \A n \in setup.plan[t] : \E f \in ToSet(q) : Key(f) = [tick |-> t, node |-> n]
    <2> SUFFICES ASSUME NEW n \in setup.plan[t] PROVE \E f \in ToSet(q) : Key(f) = [tick |-> t, node |-> n]
      OBVIOUS
    <2>1. PICK i \in 1 .. l : w[i] = n
      BY <1>5
    <2>2. q[i] \in ToSet(q)
      BY <1>7, ElementsOf
    <2> QED BY <1>8, <2>1, <2>2 DEF Key
  <1>10. q = <<>> <=> l = 0
    BY <1>7
  <1>11. l = 0 <=> setup.plan[t] = {}
    BY <1>1, <1>4, <1>5
  <1>12. l = Len(w)
    BY DEF l
  <1> QED BY <1>4, <1>5, <1>7, <1>8, <1>9, <1>10, <1>11, <1>12 DEF w, q

\* The first node of a tick does not depend on how often it is replayed.
LEMMA FirstOfTick ==
  ASSUME BackendsTypeOK, NEW t \in DOMAIN setup.plan, setup.plan[t] # {},
         NEW r \in 0 .. MaxFaults + MaxRollbacks
  PROVE  FiringsOfTick(setup.plan, t, r)[1].node = FiringsOfTick(setup.plan, t, 0)[1].node
  <1>1. 0 \in 0 .. MaxFaults + MaxRollbacks
    BY BackendsAssumption
  <1>2. FiringsOfTick(setup.plan, t, r) # <<>> /\ FiringsOfTick(setup.plan, t, 0) # <<>>
    BY <1>1, TickRows
  <1>3. 1 \in 1 .. Len(Fired(t))
    <2>1. FiringsOfTick(setup.plan, t, r) \in Seq(Firing) /\ Len(FiringsOfTick(setup.plan, t, r)) = Len(Fired(t))
      BY TickRows
    <2> QED BY <1>2, <2>1
  <1>4. \A x \in 0 .. MaxFaults + MaxRollbacks : FiringsOfTick(setup.plan, t, x)[1].node = Fired(t)[1]
    BY <1>3, TickRows
  <1> QED BY <1>1, <1>4

-----------------------------------------------------------------------------
(* Steps *)

\* Nothing is lost of what is stored for s but what a fault has spoiled.
Grew(s) ==
  /\ setup' = setup
  /\ harmed[s] \subseteq harmed'[s]
  /\ ClosedKeys(disk[s]) \subseteq ClosedKeys(disk'[s])
  /\ \A t \in 1 .. MaxTicks :
       Loads(disk[s], t) => Loads(disk'[s], t) \/ <<"snapshot", t>> \in harmed'[s]

LEMMA Primed ==
  ASSUME NEW s
  PROVE  /\ ClosedKeys(disk[s])' = ClosedKeys(disk'[s])
         /\ ClosedKeys(staged[s])' = ClosedKeys(staged'[s])
         /\ Within(disk[s], staged[s])' <=> Within(disk'[s], staged'[s])
         /\ Holds(staged[s], todo[s])' <=> Holds(staged'[s], todo'[s])
         /\ Applied(disk[s], todo[s])' = Applied(disk'[s], todo'[s])
  BY DEF ClosedKeys, Within, Holds, Applied, Loads, Garbage, Key, None, AppendLines, Front

LEMMA Later ==
  ASSUME NEW s, Grew(s), NEW t
  PROVE  /\ t \in 0 .. MaxTicks /\ Covered(s, t) => Covered(s, t)'
         /\ RowsDone(s, t) => RowsDone(s, t)'
  <1>1. ASSUME t \in 0 .. MaxTicks, Covered(s, t)
        PROVE  Covered(s, t)'
    <2>1. \A u \in 1 .. t : u \in 1 .. MaxTicks
      BY <1>1, BackendsAssumption
    <2> QED BY <1>1, <2>1 DEF Covered, Grew, Loads
  <1>2. RowsDone(s, t) => RowsDone(s, t)'
    BY Primed DEF RowsDone, Grew, HasRows
  <1> QED BY <1>1, <1>2

LEMMA PlanKept ==
  ASSUME setup' = setup, NEW t, NEW r
  PROVE  FiringsOfTick(setup.plan, t, r)' = FiringsOfTick(setup.plan, t, r)
  BY DEF FiringsOfTick, Select

LEMMA LostFinite ==
  ASSUME BackendsTypeOK, NEW s \in Sessions, NEW X
  PROVE  IsFiniteSet(acked[s].firings \ X) /\ Cardinality(acked[s].firings \ X) \in Nat
  <1> DEFINE n == Len(Order)
             K == (0 .. MaxTicks - 1) \X (1 .. n)
             key == [p \in K |-> [tick |-> p[1], node |-> Order[p[2]]]]
  <1>1. Order \in Seq(Nodes) /\ n \in Nat /\ MaxTicks \in Nat
    BY BackendsAssumption
  <1>2. IsFiniteSet(K)
    <2>1. IsFiniteSet(0 .. MaxTicks - 1) /\ IsFiniteSet(1 .. n)
      BY <1>1, FS_Interval
    <2> QED BY <2>1, FS_Product
  <1>3. IsFiniteSet({key[p] : p \in K})
    <2> DEFINE T == {key[p] : p \in K}
    <2>1. key \in [K -> T] /\ \A x \in T : \E p \in K : key[p] = x
      OBVIOUS
    <2> HIDE DEF key, T, K
    <2>2. key \in Surjection(K, T)
      BY <2>1 DEF Surjection
    <2>3. IsFiniteSet(T)
      BY <1>2, <2>2, FS_Surjection
    <2> QED BY <2>3 DEF T
  <1>4. acked[s].firings \subseteq {key[p] : p \in K}
    <2> SUFFICES ASSUME NEW f \in acked[s].firings PROVE f \in {key[p] : p \in K}
      OBVIOUS
    <2>1. f.tick \in 0 .. MaxTicks - 1 /\ f.node \in Nodes /\ f = [tick |-> f.tick, node |-> f.node]
      BY DEF BackendsTypeOK
    <2>2. PICK i \in 1 .. n : Order[i] = f.node
      BY <1>1, <2>1, ElementsOf DEF Nodes
    <2>3. <<f.tick, i>> \in K /\ f = key[<<f.tick, i>>]
      BY <2>1, <2>2
    <2> QED BY <2>3
  <1>5. IsFiniteSet(acked[s].firings \ X)
    BY <1>3, <1>4, FS_Subset
  <1> QED BY <1>5, FS_CardinalityType

\* The step leaves what is stored for s alone.
Same(s) ==
  /\ setup' = setup
  /\ disk'[s] = disk[s]
  /\ staged'[s] = staged[s]
  /\ harmed'[s] = harmed[s]
  /\ acked'[s].firings = acked[s].firings
  /\ faults <= faults'

LEMMA Quiet ==
  ASSUME NEW s \in Sessions, BackendsTypeOK, BackendsTypeOK', StoreOK(s), Same(s),
         \/ s \notin lock /\ s \notin lock'
         \/ (s \in lock <=> s \in lock') /\ pc'[s] = pc[s] /\ todo'[s] = todo[s]
  PROVE  StoreOK(s)' /\ Grew(s)
  <1>1. Grew(s)
    BY DEF Grew, Same
  <1>2. Grounded(s, disk[s])' /\ Grounded(s, staged[s])'
    <2>1. \A t \in 1 .. MaxTicks : t - 1 \in 0 .. MaxTicks
      BY BackendsAssumption
    <2>2. \A l \in Labels : /\ disk[s].labels[l] # None => disk[s].labels[l] \in 0 .. MaxTicks
                            /\ staged[s].labels[l] # None => staged[s].labels[l] \in 0 .. MaxTicks
      BY BackendsAssumption DEF BackendsTypeOK, Stored, None
    <2>3. /\ \A t \in 1 .. MaxTicks :
               /\ Loads(disk[s], t)' <=> Loads(disk[s], t)
               /\ Loads(staged[s], t)' <=> Loads(staged[s], t)
          /\ disk'[s].labels = disk[s].labels /\ staged'[s].labels = staged[s].labels
          /\ None' = None
      BY DEF Same, Loads, None
    <2> QED BY <1>1, <2>1, <2>2, <2>3, Later DEF Grounded, StoreOK
  <1>3. Survives(s)'
    <2>1. ClosedKeys(disk[s])' = ClosedKeys(disk[s]) /\ Spoiling(disk[s])' = Spoiling(disk[s])
      BY Primed DEF Same, Spoiling
    <2>2. HasRows(s)' <=> HasRows(s)
      BY DEF HasRows, Same
    <2>3. Cardinality(acked[s].firings \ ClosedKeys(disk[s])) + Spoiling(disk[s]) <= faults'
      <3>1. Cardinality(acked[s].firings \ ClosedKeys(disk[s])) \in Nat
        BY LostFinite
      <3>2. Spoiling(disk[s]) \in {0, 1} /\ faults \in Int /\ faults' \in Int
        BY BackendsAssumption DEF Spoiling, BackendsTypeOK
      <3>3. Cardinality(acked[s].firings \ ClosedKeys(disk[s])) + Spoiling(disk[s]) <= faults
        BY DEF StoreOK, Survives
      <3> QED BY <3>1, <3>2, <3>3 DEF Same
    <2> QED BY <2>1, <2>2, <2>3, PlanKept DEF Survives, StoreOK, Same, None
  <1>4. Canonical(s)'
    <2> SUFFICES ASSUME ~HasRows(s)' PROVE /\ ~disk'[s].open /\ ~staged'[s].open
                                          /\ History(disk[s].log)'
                                          /\ (staged[s].log = IF s \in lock /\ pc[s] = "rows"
                                                              THEN disk[s].log \o todo[s].rows ELSE disk[s].log)'
      BY DEF Canonical
    <2>1. ~HasRows(s)
      BY DEF HasRows, Same
    <2>2. History(disk[s].log)' <=> History(disk[s].log)
      BY DEF History, Same, Firing, Nodes
    <2> QED BY <2>1, <2>2 DEF StoreOK, Canonical, Same
  <1>5. Pending(s)'
    BY Primed DEF Pending, StoreOK, Same
  <1> QED BY <1>1, <1>2, <1>3, <1>4, <1>5, Primed DEF StoreOK, Same, BackendsTypeOK

-----------------------------------------------------------------------------
(* The call a runner is in *)

\* What is in todo follows from pc.
LEMMA CallOf ==
  ASSUME BackendsTypeOK, NEW s \in Sessions, InCall(s)
  PROVE  /\ todo[s] \in Write
         /\ todo[s].op = (IF pc[s] \in {"snapshot", "label"} THEN pc[s] ELSE "rows")
         /\ pc[s] \in {"rows", "snapshot"} => tick[s] \in 1 .. MaxTicks
         /\ pc[s] = "snapshot" => todo[s].tick = tick[s]
         /\ pc[s] = "label" => todo[s].tick = tick[s] /\ todo[s].label \in Labels
         /\ todo[s] # Nothing => pc[s] \in {"rows", "snapshot", "label"}
         /\ pc[s] \in {"snapshot", "label"} => todo[s] # Nothing
         /\ pc[s] = "rows" => /\ tick[s] - 1 \in DOMAIN setup.plan
                              /\ todo[s] = Nothing <=> setup.plan[tick[s] - 1] = {}
  <1>1. pc[s] \in {"idle", "rows", "snapshot", "label", "down"} /\ todo[s] \in Write /\ tick[s] \in 0 .. MaxTicks
    BY DEF BackendsTypeOK
  <1>2. CASE pc[s] = "rows"
    <2>1. PICK r \in 0 .. MaxFaults + MaxRollbacks :
            todo[s] = [op |-> "rows", rows |-> FiringsOfTick(setup.plan, tick[s] - 1, r)]
      BY <1>2 DEF InCall
    <2>2. tick[s] - 1 \in DOMAIN setup.plan
      BY <1>2 DEF InCall
    <2>3. FiringsOfTick(setup.plan, tick[s] - 1, r) = <<>> <=> setup.plan[tick[s] - 1] = {}
      BY <2>2, TickRows
    <2>4. tick[s] \in 1 .. MaxTicks
      BY <1>1, <2>2, PlanFacts, BackendsAssumption
    <2>5. todo[s] = Nothing <=> FiringsOfTick(setup.plan, tick[s] - 1, r) = <<>>
      BY <2>1 DEF Nothing
    <2> QED BY <1>1, <1>2, <2>1, <2>2, <2>3, <2>4, <2>5
  <1>3. CASE pc[s] = "snapshot"
    BY <1>1, <1>3, BackendsAssumption DEF InCall, SnapshotOf, Nothing
  <1>4. CASE pc[s] = "label"
    <2>1. PICK l \in Labels : todo[s] = [op |-> "label", label |-> l, tick |-> tick[s]]
      BY <1>4 DEF InCall
    <2>2. /\ todo[s].op = "label" /\ todo[s].label = l /\ todo[s].tick = tick[s]
          /\ todo[s] # Nothing
      BY <2>1 DEF Nothing
    <2> QED BY <1>1, <1>4, <2>2
  <1>5. CASE pc[s] \in {"idle", "down"}
    BY <1>1, <1>5 DEF InCall, Nothing
  <1> QED BY <1>1, <1>2, <1>3, <1>4, <1>5

LEMMA SoundStores ==
  ASSUME BackendsTypeOK, NEW s \in Sessions, StoreOK(s)
  PROVE  Sound(disk[s]) /\ Sound(staged[s]) /\ disk[s] \in Stored /\ staged[s] \in Stored
  BY DEF BackendsTypeOK, StoreOK, Sound

LEMMA BatchType ==
  ASSUME BackendsTypeOK, NEW s \in Sessions, tick[s] \in DOMAIN setup.plan
  PROVE  /\ faults + rollbacks \in 0 .. MaxFaults + MaxRollbacks
         /\ Batch(s) \in Write
  <1>1. faults + rollbacks \in 0 .. MaxFaults + MaxRollbacks
    BY BackendsAssumption DEF BackendsTypeOK
  <1>2. FiringsOfTick(setup.plan, tick[s], faults + rollbacks) \in Seq(Firing)
    BY <1>1, TickRows
  <1> QED BY <1>1, <1>2 DEF Batch, Write

LEMMA MaxTick ==
  ASSUME NEW T \in SUBSET (1 .. MaxTicks), T # {}
  PROVE  Max(T) \in T /\ \A t \in T : t <= Max(T)
  <1> DEFINE U == {u \in Nat : \E t \in T : u = MaxTicks - t}
  <1>1. MaxTicks \in Nat
    BY BackendsAssumption
  <1>2. U \in SUBSET Nat /\ U # {}
    <2>1. PICK t \in T : TRUE
      OBVIOUS
    <2>2. MaxTicks - t \in U
      BY <1>1
    <2> QED BY <2>2
  <1>3. PICK u \in U : \A v \in U : u <= v
    BY <1>2, NatMin
  <1>4. PICK t \in T : u = MaxTicks - t
    OBVIOUS
  <1>5. \A x \in T : t >= x
    <2> SUFFICES ASSUME NEW x \in T PROVE t >= x
      OBVIOUS
    <2>1. MaxTicks - x \in U
      BY <1>1
    <2> QED BY <1>1, <1>3, <1>4, <2>1
  <1>6. \E x \in T : \A y \in T : x >= y
    BY <1>5
  <1>7. Max(T) = CHOOSE x \in T : \A y \in T : x >= y
    BY DEF Max
  <1>8. Max(T) \in T /\ \A y \in T : Max(T) >= y
    BY <1>6, <1>7
  <1> QED BY <1>1, <1>8

\* latest_tick is the last of the snapshots there are.
LEMMA LatestIs ==
  ASSUME NEW d
  PROVE  \/ ListSnapshots(d) = {} /\ LatestTick(d) = None
         \/ /\ LatestTick(d) \in ListSnapshots(d) /\ LatestTick(d) \in 1 .. MaxTicks
            /\ LatestTick(d) # None
            /\ \A t \in ListSnapshots(d) : t <= LatestTick(d)
  <1>1. ListSnapshots(d) \in SUBSET (1 .. MaxTicks)
    BY DEF ListSnapshots
  <1> DEFINE T == ListSnapshots(d)
  <1>2. CASE T # {}
    <2>1. Max(T) \in T /\ \A t \in T : t <= Max(T)
      <3> HIDE DEF T
      <3> QED BY <1>1, <1>2, MaxTick DEF T
    <2>2. LatestTick(d) = Max(T)
      BY <1>2 DEF LatestTick
    <2> QED BY <1>1, <2>1, <2>2 DEF None
  <1> QED BY <1>2 DEF LatestTick

\* A session is resumed from a snapshot that loads, or from the beginning; from
\* the latest, if that loads.
LEMMA RestorableTicks ==
  ASSUME NEW s, NEW t \in Restorable(s)
  PROVE  /\ t = 0 \/ (t \in 1 .. MaxTicks /\ Loads(disk[s], t))
         /\ t \in 0 .. MaxTicks
         /\ \/ ListSnapshots(disk[s]) = {}
            \/ t = LatestTick(disk[s])
            \/ /\ LatestTick(disk[s]) \in ListSnapshots(disk[s])
               /\ ~Loads(disk[s], LatestTick(disk[s]))
  <1> DEFINE last == LatestTick(disk[s])
  <1>1. \/ ListSnapshots(disk[s]) = {} /\ last = None
        \/ last \in ListSnapshots(disk[s]) /\ last \in 1 .. MaxTicks /\ last # None
    BY LatestIs
  <1>2. WholeSnapshots(disk[s]) \subseteq 1 .. MaxTicks /\ \A u \in WholeSnapshots(disk[s]) : Loads(disk[s], u)
    BY DEF WholeSnapshots, ListSnapshots
  <1>3. MaxTicks \in Nat
    BY BackendsAssumption
  <1> HIDE DEF last
  <1>4. CASE last = None
    BY <1>1, <1>3, <1>4 DEF Restorable, last
  <1>5. CASE last # None /\ Loads(disk[s], last)
    <2>1. t = last
      BY <1>5 DEF Restorable, last
    <2> QED BY <1>1, <1>3, <1>5, <2>1 DEF last
  <1>6. CASE last # None /\ ~Loads(disk[s], last)
    <2>1. t \in WholeSnapshots(disk[s]) \cup {0}
      BY <1>6 DEF Restorable, last
    <2> QED BY <1>1, <1>2, <1>3, <1>6, <2>1 DEF last
  <1> QED BY <1>4, <1>5, <1>6

-----------------------------------------------------------------------------
(* Types *)

LEMMA ProceedTypes ==
  ASSUME BackendsTypeOK, NEW s \in Sessions, InCall(s), Proceed(s)
  PROVE  /\ pc' \in [Sessions -> {"idle", "rows", "snapshot", "label", "down"}]
         /\ todo' \in [Sessions -> Write]
  <1>1. pc[s] = "rows" => SnapshotOf(s) \in Write
    BY CallOf DEF SnapshotOf, Write
  <1>2. Nothing \in Write
    BY EmptyElements DEF Nothing, Write
  <1> QED BY <1>1, <1>2 DEF Proceed, BackendsTypeOK

LEMMA ReturnTypes ==
  ASSUME BackendsTypeOK, NEW s \in Sessions, InCall(s), Return(s)
  PROVE  acked' \in [Sessions -> [firings : SUBSET [tick : 0 .. MaxTicks - 1, node : Nodes],
                                  labels : [Labels -> SUBSET (-1 .. MaxTicks)]]]
  <1>1. pc[s] = "rows" => {Key(f) : f \in ToSet(todo[s].rows)} \subseteq [tick : 0 .. MaxTicks - 1, node : Nodes]
    <2> SUFFICES ASSUME pc[s] = "rows", NEW f \in ToSet(todo[s].rows)
                 PROVE  Key(f) \in [tick : 0 .. MaxTicks - 1, node : Nodes]
      OBVIOUS
    <2>1. todo[s].rows \in Seq(Firing)
      BY CallOf, WriteFacts
    <2>2. f \in Firing
      BY <2>1, ElementsOf
    <2> QED BY <2>2, FiringTypes
  <1>2. pc[s] = "label" => todo[s].label \in Labels /\ todo[s].tick \in -1 .. MaxTicks
    BY CallOf DEF BackendsTypeOK
  <1>3. /\ acked[s].firings \in SUBSET [tick : 0 .. MaxTicks - 1, node : Nodes]
        /\ acked[s].labels \in [Labels -> SUBSET (-1 .. MaxTicks)]
    BY DEF BackendsTypeOK
  <1> DEFINE F == IF pc[s] = "rows" THEN acked[s].firings \cup {Key(f) : f \in ToSet(todo[s].rows)}
                                    ELSE acked[s].firings
             L == IF pc[s] = "label" THEN [acked[s].labels EXCEPT ![todo[s].label] = {todo[s].tick}]
                                     ELSE acked[s].labels
  <1>4. F \in SUBSET [tick : 0 .. MaxTicks - 1, node : Nodes] /\ L \in [Labels -> SUBSET (-1 .. MaxTicks)]
    BY <1>1, <1>2, <1>3
  <1>5. acked' = [acked EXCEPT ![s].firings = F, ![s].labels = L]
    BY DEF Return
  <1> HIDE DEF F, L
  <1> QED BY <1>4, <1>5 DEF BackendsTypeOK

\* What the call of s makes of what is stored.
LEMMA WrittenTypes ==
  ASSUME BackendsTypeOK, NEW s \in Sessions, SessionOK(s)
  PROVE  /\ todo[s] # Nothing => /\ Applied(disk[s], todo[s]) \in Stored
                                 /\ Applied(staged[s], todo[s]) \in Stored
         /\ Parts(disk[s], todo[s]) \cup Torn(disk[s], todo[s]) \subseteq Stored
         /\ Executed(s) \subseteq Stored
  <1>1. Sound(disk[s]) /\ Sound(staged[s]) /\ todo[s] \in Write /\ staged[s] \in Stored
    BY SoundStores, CallOf DEF SessionOK
  <1>2. todo[s] # Nothing => /\ Applied(disk[s], todo[s]) \in Stored
                             /\ Applied(staged[s], todo[s]) \in Stored
    BY <1>1, AppliedFacts DEF Changed
  <1>3. Parts(disk[s], todo[s]) \subseteq Stored /\ Parts(staged[s], todo[s]) \subseteq Stored
    BY <1>1, PartsFacts DEF Changed
  <1>4. Torn(disk[s], todo[s]) \subseteq Stored
    BY <1>1, TornParts DEF Changed
  <1> QED BY <1>1, <1>2, <1>3, <1>4 DEF Executed

LEMMA TargetType ==
  ASSUME BackendsTypeOK, NEW s \in Sessions, InCall(s), pc[s] \in {"rows", "snapshot", "label"}
  PROVE  Target(s) \in Targets
  BY CallOf DEF Target, Targets

LEMMA StepTypes ==
  ASSUME BackendsInv, Next
  PROVE  BackendsTypeOK'
  <1>0. BackendsTypeOK /\ \A s \in Sessions : SessionOK(s) /\ InCall(s)
    BY DEF BackendsInv, SessionOK
  <1> USE BackendsAssumption DEF BackendsTypeOK
  <1>1. ASSUME NEW s \in Sessions, RunTick(s) PROVE BackendsTypeOK'
    <2>1. tick[s] + 1 \in 0 .. MaxTicks
      BY <1>0, <1>1, PlanFacts DEF RunTick
    <2>2. Batch(s) \in Write
      BY <1>0, <1>1, BatchType DEF RunTick
    <2> QED BY <1>0, <1>1, <2>1, <2>2 DEF RunTick
  <1>2. ASSUME NEW s \in Sessions, SkipEmptyBatch(s) PROVE BackendsTypeOK'
    BY <1>0, <1>2, ProceedTypes DEF SkipEmptyBatch
  <1>3. ASSUME NEW s \in Sessions, NEW l \in Labels, Checkpoint(s, l) PROVE BackendsTypeOK'
    <2>1. [op |-> "label", label |-> l, tick |-> tick[s]] \in Write
      BY <1>0 DEF Write
    <2>2. acked' \in [Sessions -> [firings : SUBSET [tick : 0 .. MaxTicks - 1, node : Nodes],
                                   labels : [Labels -> SUBSET (-1 .. MaxTicks)]]]
      <3> DEFINE L == [acked[s].labels EXCEPT ![l] = @ \cup {tick[s]}]
      <3>1. acked[s].labels \in [Labels -> SUBSET (-1 .. MaxTicks)] /\ tick[s] \in -1 .. MaxTicks
        BY <1>0
      <3>2. L \in [Labels -> SUBSET (-1 .. MaxTicks)]
        BY <3>1
      <3>3. acked' = [acked EXCEPT ![s].labels = L]
        BY <1>3 DEF Checkpoint
      <3> HIDE DEF L
      <3> QED BY <1>0, <3>2, <3>3
    <2> QED BY <1>0, <1>3, <2>1, <2>2 DEF Checkpoint
  <1>4. ASSUME NEW s \in Sessions, NEW l \in Labels, Rollback(s, l) PROVE BackendsTypeOK'
    <2>1. staged[s].labels[l] \in 0 .. MaxTicks
      BY <1>0, <1>4 DEF Rollback, Stored, None
    <2> QED BY <1>0, <1>4, <2>1 DEF Rollback
  <1>5. ASSUME NEW s \in Sessions, JsonSave(s) PROVE BackendsTypeOK'
    <2>1. Applied(disk[s], todo[s]) \in Stored
      BY <1>0, <1>5, WrittenTypes DEF JsonSave
    <2>2. Proceed(s) /\ Return(s)
      BY <1>5 DEF JsonSave, Return
    <2> QED BY <1>0, <1>5, <2>1, <2>2, ProceedTypes, ReturnTypes DEF JsonSave
  <1>6. ASSUME NEW s \in Sessions, JsonFails(s) PROVE BackendsTypeOK'
    <2>1. Parts(disk[s], todo[s]) \cup Torn(disk[s], todo[s]) \subseteq Stored
      BY <1>0, WrittenTypes
    <2>2. Target(s) \in Targets
      BY <1>0, <1>6, CallOf, TargetType DEF JsonFails
    <2> QED BY <1>0, <1>6, <2>1, <2>2, ProceedTypes DEF JsonFails
  <1>7. ASSUME NEW s \in Sessions, Execute(s) PROVE BackendsTypeOK'
    <2>1. Applied(staged[s], todo[s]) \in Stored
      BY <1>0, <1>7, WrittenTypes DEF Execute
    <2> QED BY <1>0, <1>7, <2>1 DEF Execute
  <1>8. ASSUME NEW s \in Sessions, Commit(s) PROVE BackendsTypeOK'
    <2>1. Proceed(s) /\ Return(s)
      BY <1>8 DEF Commit, Return
    <2> QED BY <1>0, <1>8, <2>1, ProceedTypes, ReturnTypes DEF Commit
  <1>9. ASSUME NEW s \in Sessions, SqliteFails(s) PROVE BackendsTypeOK'
    <2>1. Executed(s) \subseteq Stored
      BY <1>0, WrittenTypes
    <2>2. Target(s) \in Targets
      BY <1>0, <1>9, CallOf, TargetType DEF SqliteFails
    <2>3. staged' \in [Sessions -> Stored]
      BY <1>0, <1>9, <2>1 DEF SqliteFails
    <2>4. faults' \in 0 .. MaxFaults
      BY <1>0, <1>9 DEF SqliteFails
    <2>5. harmed' \in [Sessions -> SUBSET Targets]
      BY <1>0, <1>9, <2>2 DEF SqliteFails
    <2>6. /\ pc' \in [Sessions -> {"idle", "rows", "snapshot", "label", "down"}]
          /\ todo' \in [Sessions -> Write]
      BY <1>0, <1>9, ProceedTypes DEF SqliteFails
    <2>7. UNCHANGED <<setup, disk, tick, rollbacks, acked>> /\ lock' = {}
      BY <1>9 DEF SqliteFails
    <2> QED BY <1>0, <2>3, <2>4, <2>5, <2>6, <2>7
  <1>10. ASSUME NEW s \in Sessions, Resume(s) PROVE BackendsTypeOK'
    <2>1. PICK t \in Restorable(s) : tick' = [tick EXCEPT ![s] = t]
      BY <1>10 DEF Resume
    <2>2. t \in 0 .. MaxTicks
      BY RestorableTicks
    <2> QED BY <1>0, <1>10, <2>1, <2>2 DEF Resume
  <1>11. ASSUME Crash PROVE BackendsTypeOK'
    <2>1. PICK left \in [Sessions -> UNION {Remains(s) : s \in Sessions}] :
            /\ \A s \in Sessions : left[s] \in Remains(s)
            /\ disk' = left
            /\ harmed' = [s \in Sessions |->
                            harmed[s] \cup IF HalfDone(s, left[s]) THEN {Target(s)} ELSE {}]
      BY <1>11 DEF Crash
    <2>2. \A s \in Sessions : Remains(s) \subseteq Stored
      BY <1>0, WrittenTypes, SoundStores DEF Remains
    <2>3. disk' \in [Sessions -> Stored]
      BY <2>1, <2>2
    <2>4. \A s \in Sessions : HalfDone(s, left[s]) => Target(s) \in Targets
      <3> SUFFICES ASSUME NEW s \in Sessions PROVE HalfDone(s, left[s]) => Target(s) \in Targets
        OBVIOUS
      <3>1. HalfDone(s, left[s]) => todo[s] # Nothing
        <4>1. /\ disk[s] \in Parts(disk[s], todo[s])
              /\ todo[s] = Nothing => Parts(disk[s], todo[s]) = {disk[s]} /\ Torn(disk[s], todo[s]) = {}
          BY <1>0, NothingStored
        <4>2. left[s] \in Remains(s)
          BY <2>1
        <4> QED BY <4>1, <4>2 DEF HalfDone, Remains
      <3> QED BY <1>0, <3>1, CallOf, TargetType
    <2>5. harmed' \in [Sessions -> SUBSET Targets]
      BY <1>0, <2>1, <2>4
    <2>6. Nothing \in Write
      BY EmptyElements DEF Nothing, Write
    <2>7. faults' \in 0 .. MaxFaults
      BY <1>0, <1>11 DEF Crash
    <2>8. /\ staged' = disk' /\ lock' = {} /\ UNCHANGED <<setup, tick, rollbacks, acked>>
          /\ pc' = [s \in Sessions |-> IF s \in setup.active THEN "down" ELSE "idle"]
          /\ todo' = [s \in Sessions |-> Nothing]
      BY <1>11 DEF Crash
    <2> QED BY <1>0, <2>3, <2>5, <2>6, <2>7, <2>8
  <1> QED BY <1>1, <1>2, <1>3, <1>4, <1>5, <1>6, <1>7, <1>8, <1>9, <1>10, <1>11 DEF Next

-----------------------------------------------------------------------------
(* What a step does to what is stored for a session *)

\* A write under way has been preceded by those it must follow.
LEMMA GroundedChange ==
  ASSUME BackendsTypeOK, NEW s \in Sessions, InCall(s), Position(s),
         NEW d \in Stored, Grounded(s, d), NEW e \in Stored, Changed(d, e, todo[s])
  PROVE  Grounded(s, e)
  <1>1. ASSUME NEW t \in 1 .. MaxTicks, Loads(e, t)
        PROVE  Covered(s, t - 1) /\ RowsDone(s, t)
    <2>1. CASE Loads(d, t)
      BY <2>1 DEF Grounded
    <2>2. CASE ~Loads(d, t)
      <3>1. todo[s].op = "snapshot" /\ todo[s].tick = t
        BY <1>1, <2>2 DEF Changed
      <3>2. pc[s] = "snapshot" /\ tick[s] = t
        BY <3>1, CallOf
      <3> QED BY <3>2 DEF Position
    <2> QED BY <2>1, <2>2
  <1>2. ASSUME NEW l \in Labels, e.labels[l] # None
        PROVE  Covered(s, e.labels[l]) /\ RowsDone(s, e.labels[l])
    <2>1. CASE e.labels[l] = d.labels[l]
      BY <1>2, <2>1 DEF Grounded
    <2>2. CASE e.labels[l] # d.labels[l]
      <3>1. todo[s].op = "label" /\ e.labels[l] = todo[s].tick
        BY <1>2, <2>2 DEF Changed
      <3>2. pc[s] = "label" /\ e.labels[l] = tick[s]
        BY <3>1, CallOf
      <3> QED BY <3>2 DEF Position
    <2> QED BY <2>1, <2>2
  <1> QED BY <1>1, <1>2 DEF Grounded

\* Grounded, after the step.
GroundedThen(s, e) ==
  /\ \A t \in 1 .. MaxTicks : Loads(e, t) => Covered(s, t - 1)' /\ RowsDone(s, t)'
  /\ \A l \in Labels : \A t \in 0 .. MaxTicks : e.labels[l] = t => Covered(s, t)' /\ RowsDone(s, t)'

LEMMA GroundedLater ==
  ASSUME NEW s, Grew(s), NEW e \in Stored, Grounded(s, e)
  PROVE  GroundedThen(s, e)
  <1>1. \A t \in 1 .. MaxTicks : t - 1 \in 0 .. MaxTicks
    BY BackendsAssumption
  <1>2. \A t \in 0 .. MaxTicks : t # None
    BY DEF None
  <1> QED BY <1>1, <1>2, Later DEF Grounded, GroundedThen

LEMMA GroundedPrimed ==
  ASSUME NEW s
  PROVE  /\ disk'[s] \in Stored /\ GroundedThen(s, disk'[s]) => Grounded(s, disk[s])'
         /\ staged'[s] \in Stored /\ GroundedThen(s, staged'[s]) => Grounded(s, staged[s])'
  <1>1. \A d \in Stored : \A l \in Labels : d.labels[l] # None => d.labels[l] \in 0 .. MaxTicks
    BY BackendsAssumption DEF Stored, None
  <1> QED BY <1>1 DEF GroundedThen, Grounded, Loads, None

LEMMA StoreNext ==
  ASSUME BackendsTypeOK, BackendsTypeOK', NEW s \in Sessions, Grew(s),
         Sound(disk'[s]), Sound(staged'[s]), Within(disk'[s], staged'[s]),
         Grounded(s, disk'[s]), Grounded(s, staged'[s]),
         Survives(s)', Canonical(s)', Pending(s)', faults' = 0 => harmed'[s] = {}
  PROVE  StoreOK(s)'
  <1>1. disk'[s] \in Stored /\ staged'[s] \in Stored
    BY DEF Sound
  <1>2. GroundedThen(s, disk'[s]) /\ GroundedThen(s, staged'[s])
    BY <1>1, GroundedLater
  <1>3. Grounded(s, disk[s])' /\ Grounded(s, staged[s])'
    BY <1>1, <1>2, GroundedPrimed
  <1> QED BY <1>3, Primed DEF StoreOK, Sound

\* How many acknowledged firings are lost.
LEMMA SurvivesNext ==
  ASSUME BackendsTypeOK, BackendsTypeOK', NEW s \in Sessions, Survives(s), Grew(s),
         NEW L, acked'[s].firings \subseteq acked[s].firings \cup ClosedKeys(disk'[s]) \cup L,
         \/ L = {} /\ Spoiling(disk'[s]) - Spoiling(disk[s]) <= faults' - faults
         \/ /\ \E k : L = {k} /\ k.node = FiringsOfTick(setup.plan, k.tick, 0)[1].node
            /\ setup.kind = "json" /\ HasRows(s)
            /\ disk[s].open /\ ~disk'[s].open /\ faults' = faults
  PROVE  Survives(s)'
  <1> DEFINE lost == acked[s].firings \ ClosedKeys(disk[s])
             then == acked'[s].firings \ ClosedKeys(disk'[s])
  <1>1. then \subseteq lost \cup L
    BY DEF Grew
  <1>2. IsFiniteSet(lost) /\ Cardinality(lost) \in Nat
    BY LostFinite
  <1>3. /\ setup.kind = "sqlite" => lost = {}
        /\ Cardinality(lost) + Spoiling(disk[s]) <= faults
        /\ \A f \in lost : f.node = FiringsOfTick(setup.plan, f.tick, 0)[1].node
        /\ ~HasRows(s) => lost = {}
    BY DEF Survives
  <1>4. faults \in Nat /\ faults' \in Nat /\ Spoiling(disk[s]) \in {0, 1} /\ Spoiling(disk'[s]) \in {0, 1}
    BY BackendsAssumption DEF BackendsTypeOK, Spoiling
  <1>5. (setup.kind = "sqlite" => setup'.kind = "sqlite" /\ setup = setup') /\ setup' = setup
    BY DEF Grew
  <1>6. ~HasRows(s)' => ~HasRows(s)
    BY DEF HasRows, Grew
  <1> HIDE DEF lost, then
  <1>7. /\ setup.kind = "sqlite" => then = {}
        /\ Cardinality(then) + Spoiling(disk'[s]) <= faults'
        /\ \A f \in then : f.node = FiringsOfTick(setup.plan, f.tick, 0)[1].node
        /\ ~HasRows(s)' => then = {}
    <2>1. CASE L = {} /\ Spoiling(disk'[s]) - Spoiling(disk[s]) <= faults' - faults
      <3>1. then \subseteq lost
        BY <1>1, <2>1
      <3>2. Cardinality(then) \in Nat /\ Cardinality(then) <= Cardinality(lost)
        BY <1>2, <3>1, FS_Subset, FS_CardinalityType
      <3>3. Cardinality(then) + Spoiling(disk'[s]) <= faults'
        BY <1>2, <1>3, <1>4, <2>1, <3>2
      <3> QED BY <1>3, <1>6, <3>1, <3>3
    <2>2. CASE /\ \E k : L = {k} /\ k.node = FiringsOfTick(setup.plan, k.tick, 0)[1].node
               /\ setup.kind = "json" /\ HasRows(s)
               /\ disk[s].open /\ ~disk'[s].open /\ faults' = faults
      <3>1. PICK k : L = {k} /\ k.node = FiringsOfTick(setup.plan, k.tick, 0)[1].node
        BY <2>2
      <3>2. then \subseteq lost \cup {k}
        BY <1>1, <3>1
      <3>3. IsFiniteSet(lost \cup {k}) /\ Cardinality(lost \cup {k}) <= Cardinality(lost) + 1
        <4>1. /\ IsFiniteSet(lost \cup {k})
              /\ \/ Cardinality(lost \cup {k}) = Cardinality(lost)
                 \/ Cardinality(lost \cup {k}) = Cardinality(lost) + 1
          BY <1>2, FS_AddElement, Zenon
        <4> QED BY <1>2, <4>1
      <3>4. Cardinality(then) \in Nat /\ Cardinality(then) <= Cardinality(lost \cup {k})
        BY <3>2, <3>3, FS_Subset, FS_CardinalityType
      <3>5. Cardinality(lost \cup {k}) \in Nat
        BY <3>3, FS_CardinalityType
      <3>6. Spoiling(disk[s]) = 1 /\ Spoiling(disk'[s]) = 0
        BY <2>2 DEF Spoiling
      <3>7. Cardinality(then) + Spoiling(disk'[s]) <= faults'
        BY <1>2, <1>3, <1>4, <2>2, <3>3, <3>4, <3>5, <3>6
      <3>8. setup.kind # "sqlite" /\ HasRows(s)'
        BY <1>6, <2>2
      <3> QED BY <1>3, <3>1, <3>2, <3>7, <3>8
    <2> QED BY <2>1, <2>2
  <1>8. ClosedKeys(disk[s])' = ClosedKeys(disk'[s]) /\ Spoiling(disk[s])' = Spoiling(disk'[s])
    BY Primed DEF Spoiling
  <1> QED BY <1>5, <1>7, <1>8, PlanKept DEF Survives, then

LEMMA HistorySame ==
  ASSUME setup' = setup, NEW s
  PROVE  History(disk[s].log)' <=> History(disk'[s].log)
  BY DEF History, Firing, Nodes

\* A batch, or its first rows, continues the history.
LEMMA HistoryGrows ==
  ASSUME BackendsTypeOK, NEW s \in Sessions, StoreOK(s), InCall(s), Position(s), ~HasRows(s), pc[s] = "rows",
         NEW k \in 0 .. Len(todo[s].rows)
  PROVE  History(disk[s].log \o SubSeq(todo[s].rows, 1, k))
  <1> DEFINE log == disk[s].log
             rows == todo[s].rows
             t == tick[s] - 1
             q == SubSeq(rows, 1, k)
             u == log \o q
             S == Firing \cup {Garbage}
  <1>0. PICK r \in 0 .. MaxFaults + MaxRollbacks :
          todo[s] = [op |-> "rows", rows |-> FiringsOfTick(setup.plan, tick[s] - 1, r)]
    BY DEF InCall
  <1>1. rows = FiringsOfTick(setup.plan, t, r)
    BY <1>0
  <1>2. t \in DOMAIN setup.plan /\ t \in Int
    BY CallOf, PlanFacts
  <1>3. /\ rows \in Seq(Firing) /\ Len(rows) \in Nat
        /\ \A i \in 1 .. Len(rows) : rows[i].tick = t /\ rows[i].node \in setup.plan[t]
    BY <1>1, <1>2, TickRows
  <1>4. log \in Seq(S) /\ Len(log) \in Nat /\ History(log) /\ ~disk[s].open
    BY StoredParts, SoundStores DEF StoreOK, Canonical, Lines
  <1>5. RowsDone(s, t)
    BY DEF Position
  <1>6. /\ q \in Seq(Firing) /\ q \in Lines /\ Len(q) = k
        /\ \A i \in 1 .. k : q[i] = rows[i]
    BY <1>3, SomeRows
  <1> HIDE DEF log, rows, t, q
  <1>6a. q \in Seq(S) /\ log \in Seq(S)
    BY <1>4, <1>6 DEF Lines
  <1> HIDE DEF S
  <1>6b. /\ Len(u) = Len(log) + Len(q)
         /\ \A i \in 1 .. Len(log) : u[i] = log[i]
         /\ \A i \in 1 .. Len(q) : u[Len(log) + i] = q[i]
    BY <1>6a, ConcatElements
  <1>7. /\ Len(u) = Len(log) + k
        /\ \A i \in 1 .. Len(log) : u[i] = log[i]
        /\ \A i \in 1 .. k : u[Len(log) + i] = q[i]
    BY <1>6, <1>6b
  <1> HIDE DEF u
  <1>8. k \in Nat /\ k <= Len(rows)
    BY <1>3 DEF rows
  <1>9. ASSUME NEW i \in 1 .. Len(log)
        PROVE  /\ u[i] \in Firing
               /\ u[i].tick \in DOMAIN setup.plan
               /\ u[i].node \in setup.plan[u[i].tick]
               /\ \A x \in DOMAIN setup.plan :
                    x < u[i].tick /\ u[i].node \in setup.plan[x] =>
                      \E j \in 1 .. i - 1 : u[j].tick = x /\ u[j].node = u[i].node
    <2>1. u[i] = log[i] /\ \A j \in 1 .. i - 1 : u[j] = log[j]
      BY <1>4, <1>7
    <2> QED BY <1>4, <2>1 DEF History
  <1>10. ASSUME NEW i \in Len(log) + 1 .. Len(u)
         PROVE  /\ u[i] \in Firing
                /\ u[i].tick \in DOMAIN setup.plan
                /\ u[i].node \in setup.plan[u[i].tick]
                /\ \A x \in DOMAIN setup.plan :
                     x < u[i].tick /\ u[i].node \in setup.plan[x] =>
                       \E j \in 1 .. i - 1 : u[j].tick = x /\ u[j].node = u[i].node
    <2> DEFINE m == i - Len(log)
    <2>1. m \in 1 .. k /\ Len(log) + m = i /\ m \in 1 .. Len(rows)
      BY <1>4, <1>7, <1>8
    <2> HIDE DEF m
    <2>2. u[i] = rows[m] /\ rows[m] \in Firing
      BY <1>3, <1>6, <1>7, <2>1
    <2>3. u[i].tick = t /\ u[i].node \in setup.plan[t]
      BY <1>3, <2>1, <2>2
    <2>4. ASSUME NEW x \in DOMAIN setup.plan, x < t, u[i].node \in setup.plan[x]
          PROVE  \E j \in 1 .. i - 1 : u[j].tick = x /\ u[j].node = u[i].node
      <3>1. [tick |-> x, node |-> u[i].node] \in ClosedKeys(disk[s])
        BY <1>5, <2>4 DEF RowsDone
      <3>2. PICK j \in 1 .. Len(log) : Key(log[j]) = [tick |-> x, node |-> u[i].node]
        BY <3>1 DEF ClosedKeys, log
      <3>3. j \in 1 .. i - 1 /\ u[j] = log[j]
        BY <1>4, <1>7, <3>2
      <3> QED BY <3>2, <3>3 DEF Key
    <2> QED BY <1>2, <2>2, <2>3, <2>4
  <1>11. \A i \in 1 .. Len(u) : i \in 1 .. Len(log) \/ i \in Len(log) + 1 .. Len(u)
    BY <1>4, <1>7, <1>8
  <1>12. History(u)
    BY <1>9, <1>10, <1>11 DEF History
  <1> QED BY <1>12 DEF u, log, q, rows

LEMMA WithinTransitive ==
  ASSUME NEW d, NEW e, NEW f, Within(d, e), Within(e, f)
  PROVE  Within(d, f)
  BY DEF Within

\* A session that does nothing in the step.
LEMMA Bystander ==
  ASSUME NEW s \in Sessions, BackendsTypeOK, Grew(s), InCall(s), Position(s),
         pc'[s] = pc[s], todo'[s] = todo[s], tick'[s] = tick[s]
  PROVE  InCall(s)' /\ Position(s)'
  <1>1. setup' = setup
    BY DEF Grew
  <1>2. InCall(s)'
    BY <1>1, PlanKept DEF InCall, SnapshotOf, Nothing
  <1>3. tick[s] \in 0 .. MaxTicks
    BY DEF BackendsTypeOK
  <1>4. pc[s] \notin {"idle", "label"} => tick[s] - 1 \in 0 .. MaxTicks \/ tick[s] = 0
    BY <1>3, BackendsAssumption
  <1>5. \A t : t \in 0 .. MaxTicks /\ Covered(s, t) => Covered(s, t)'
    BY Later
  <1>6. \A t : RowsDone(s, t) => RowsDone(s, t)'
    BY Later
  <1>7. \A t : t = -1 => Covered(s, t)'
    BY DEF Covered
  <1>8. Position(s)'
    BY <1>3, <1>4, <1>5, <1>6, <1>7 DEF Position
  <1> QED BY <1>2, <1>8

\* The rows of a tick are all on disk.
LEMMA RowsSaved ==
  ASSUME NEW s \in Sessions, BackendsTypeOK, Grew(s), InCall(s), pc[s] = "rows",
         RowsDone(s, tick[s] - 1),
         HasRows(s)' \/ {Key(f) : f \in ToSet(todo[s].rows)} \subseteq ClosedKeys(disk'[s])
  PROVE  \A t : t = tick[s] => RowsDone(s, t)'
  <1> SUFFICES ASSUME NEW t, t = tick[s], ~HasRows(s)' PROVE RowsDone(s, t)'
    BY DEF RowsDone
  <1>0. setup' = setup /\ tick[s] \in 0 .. MaxTicks
    BY DEF Grew, BackendsTypeOK
  <1>1. PICK r \in 0 .. MaxFaults + MaxRollbacks :
          todo[s] = [op |-> "rows", rows |-> FiringsOfTick(setup.plan, t - 1, r)]
    BY DEF InCall
  <1>2. ~HasRows(s)
    BY DEF HasRows, Grew
  <1>3. ASSUME NEW u \in DOMAIN setup.plan, NEW n \in setup.plan[u], u < t
        PROVE  [tick |-> u, node |-> n] \in ClosedKeys(disk'[s])
    <2>1. CASE u < t - 1
      BY <1>2, <1>3, <2>1 DEF RowsDone, Grew
    <2>2. CASE u = t - 1
      <3>1. \E f \in ToSet(todo[s].rows) : Key(f) = [tick |-> u, node |-> n]
        BY <1>1, <2>2, TickRows
      <3> QED BY <3>1
    <2> QED BY <1>0, <1>3, <2>1, <2>2, PlanFacts
  <1> QED BY <1>0, <1>3, Primed DEF RowsDone

\* The call of s is over.
LEMMA Proceeded ==
  ASSUME NEW s \in Sessions, BackendsTypeOK, Grew(s), InCall(s), Position(s), Proceed(s), tick' = tick,
         pc[s] \in {"rows", "snapshot", "label"},
         pc[s] = "rows" => HasRows(s)' \/ {Key(f) : f \in ToSet(todo[s].rows)} \subseteq ClosedKeys(disk'[s]),
         pc[s] = "snapshot" => Loads(disk'[s], tick[s]) \/ <<"snapshot", tick[s]>> \in harmed'[s]
  PROVE  InCall(s)' /\ Position(s)'
  <1>1. setup' = setup
    BY DEF Grew
  <1>2. /\ pc'[s] = (IF pc[s] = "rows" THEN "snapshot" ELSE "idle")
        /\ todo'[s] = IF pc[s] = "rows" THEN SnapshotOf(s) ELSE Nothing
    BY DEF Proceed, BackendsTypeOK
  <1>3. tick[s] \in 0 .. MaxTicks /\ (pc[s] \in {"rows", "snapshot"} => tick[s] \in 1 .. MaxTicks)
    BY CallOf DEF BackendsTypeOK
  <1>4. InCall(s)'
    <2>1. s \in setup.active
      BY DEF InCall
    <2> QED BY <1>1, <1>2, <1>3, <2>1 DEF InCall, SnapshotOf, Nothing
  <1>5. \A t : t \in 0 .. MaxTicks /\ Covered(s, t) => Covered(s, t)'
    BY Later
  <1>6. \A t : RowsDone(s, t) => RowsDone(s, t)'
    BY Later
  <1>7. CASE pc[s] = "rows"
    <2>1. Covered(s, tick[s] - 1) /\ RowsDone(s, tick[s] - 1)
      BY <1>7 DEF Position
    <2>2. \A t : t = tick[s] - 1 => Covered(s, t)'
      BY <1>3, <1>5, <1>7, <2>1, BackendsAssumption
    <2>3. \A t : t = tick[s] => RowsDone(s, t)'
      BY <1>7, <2>1, RowsSaved
    <2> QED BY <1>2, <1>4, <1>7, <2>2, <2>3 DEF Position
  <1>8. CASE pc[s] = "snapshot"
    <2>1. Covered(s, tick[s] - 1) /\ RowsDone(s, tick[s])
      BY <1>8 DEF Position
    <2>2. \A t : t = tick[s] - 1 => Covered(s, t)'
      BY <1>3, <1>5, <1>8, <2>1, BackendsAssumption
    <2>3. \A t : t = tick[s] => Covered(s, t)'
      <3>1. \A u \in 1 .. tick[s] : u \in 1 .. tick[s] - 1 \/ u = tick[s]
        BY <1>3
      <3>2. \A t, u : t = tick[s] - 1 /\ u \in 1 .. t => Loads(disk'[s], u) \/ <<"snapshot", u>> \in harmed'[s]
        BY <2>2 DEF Covered, Loads
      <3>3. \A u \in 1 .. tick[s] : Loads(disk'[s], u) \/ <<"snapshot", u>> \in harmed'[s]
        BY <1>8, <3>1, <3>2
      <3> QED BY <3>3 DEF Covered, Loads
    <2>4. \A t : t = tick[s] => RowsDone(s, t)'
      BY <1>6, <2>1
    <2> QED BY <1>2, <1>4, <1>8, <2>3, <2>4 DEF Position
  <1>9. CASE pc[s] = "label"
    <2>1. Covered(s, tick[s]) /\ RowsDone(s, tick[s])
      BY <1>9 DEF Position
    <2>2. \A t : t = tick[s] => Covered(s, t)' /\ RowsDone(s, t)'
      BY <1>3, <1>5, <1>6, <2>1
    <2> QED BY <1>2, <1>4, <1>9, <2>2 DEF Position
  <1> QED BY <1>7, <1>8, <1>9

LEMMA WholeSequence ==
  ASSUME NEW S, NEW q \in Seq(S)
  PROVE  SubSeq(q, 1, Len(q)) = q
  OBVIOUS

\* The first row of a batch.
LEMMA FirstRow ==
  ASSUME BackendsTypeOK, NEW s \in Sessions, InCall(s), pc[s] = "rows", todo[s] # Nothing
  PROVE  LET k == Key(todo[s].rows[1]) IN k.node = FiringsOfTick(setup.plan, k.tick, 0)[1].node
  <1> DEFINE t == tick[s] - 1
  <1>1. PICK r \in 0 .. MaxFaults + MaxRollbacks :
          todo[s] = [op |-> "rows", rows |-> FiringsOfTick(setup.plan, t, r)]
    BY DEF InCall
  <1>2. t \in DOMAIN setup.plan /\ setup.plan[t] # {}
    BY CallOf
  <1> HIDE DEF t
  <1> DEFINE q == FiringsOfTick(setup.plan, t, r)
  <1>3. q[1].node = FiringsOfTick(setup.plan, t, 0)[1].node
    BY <1>2, FirstOfTick
  <1>4. q \in Seq(Firing) /\ q # <<>> /\ \A i \in 1 .. Len(q) : q[i].tick = t
    BY <1>2, TickRows
  <1> HIDE DEF q
  <1>5. 1 \in 1 .. Len(q)
    BY <1>4
  <1>6. todo[s].rows = q
    BY <1>1 DEF q
  <1> QED BY <1>3, <1>4, <1>5, <1>6 DEF Key

\* A call that has returned, and what it wrote is on disk.
LEMMA Saved ==
  ASSUME NEW s \in Sessions, BackendsTypeOK, BackendsTypeOK', SessionOK(s),
         todo[s] # Nothing, Return(s), s \notin lock',
         UNCHANGED <<setup, tick, harmed, faults>>,
         disk'[s] = staged'[s], Sound(disk'[s]), Within(disk[s], disk'[s]), Grounded(s, disk'[s]),
         disk[s].open => setup.kind = "json",
         ~disk[s].open => Holds(disk'[s], todo[s]),
         pc[s] # "rows" => /\ Holds(disk'[s], todo[s])
                           /\ disk'[s].open = disk[s].open
                           /\ ~HasRows(s) => disk'[s].log = disk[s].log,
         pc[s] = "rows" => /\ ~disk'[s].open
                           /\ \A i \in 1 .. Len(todo[s].rows) :
                                i # 1 => Key(todo[s].rows[i]) \in ClosedKeys(disk'[s])
                           /\ ~HasRows(s) => disk'[s].log = disk[s].log \o todo[s].rows
  PROVE  SessionOK(s)'
  <1>1. InCall(s) /\ Position(s) /\ StoreOK(s)
    BY DEF SessionOK
  <1>2. Grew(s)
    BY DEF Grew, Within
  <1>3. pc[s] \in {"rows", "snapshot", "label"} /\ Proceed(s)
    BY <1>1, CallOf DEF Return
  <1>4. pc[s] = "rows" => /\ todo[s].op = "rows"
                          /\ todo[s].rows \in Seq(Firing) /\ todo[s].rows # <<>> /\ Len(todo[s].rows) \in Nat
    <2>1. pc[s] = "rows" => todo[s].op = "rows"
      BY <1>1, CallOf
    <2> QED BY <1>1, <2>1, CallOf, WriteFacts, ElementsOf
  <1>5. ASSUME ~disk[s].open, pc[s] = "rows"
        PROVE  {Key(f) : f \in ToSet(todo[s].rows)} \subseteq ClosedKeys(disk'[s])
    BY <1>4, <1>5 DEF Holds
  <1>6. ~HasRows(s) => ~disk[s].open
    BY <1>1 DEF StoreOK, Canonical
  <1>7. HasRows(s)' <=> HasRows(s)
    BY DEF HasRows
  <1>8. InCall(s)' /\ Position(s)'
    <2>1. pc[s] = "rows" => HasRows(s)' \/ {Key(f) : f \in ToSet(todo[s].rows)} \subseteq ClosedKeys(disk'[s])
      BY <1>5, <1>6, <1>7
    <2>2. pc[s] = "snapshot" => Loads(disk'[s], tick[s])
      BY <1>1, CallOf DEF Holds
    <2> QED BY <1>1, <1>2, <1>3, <2>1, <2>2, Proceeded
  <1>9. acked'[s].firings = IF pc[s] = "rows"
                            THEN acked[s].firings \cup {Key(f) : f \in ToSet(todo[s].rows)}
                            ELSE acked[s].firings
    BY DEF Return, BackendsTypeOK
  <1>10. Survives(s)'
    <2>2. ASSUME pc[s] = "rows" => {Key(f) : f \in ToSet(todo[s].rows)} \subseteq ClosedKeys(disk'[s]),
                 pc[s] = "rows" \/ disk'[s].open = disk[s].open
          PROVE  Survives(s)'
      <3>1. acked'[s].firings \subseteq acked[s].firings \cup ClosedKeys(disk'[s]) \cup {}
        BY <1>9, <2>2
      <3>2. Spoiling(disk'[s]) - Spoiling(disk[s]) <= faults' - faults
        <4>1. \/ Spoiling(disk'[s]) = 0
              \/ Spoiling(disk'[s]) = Spoiling(disk[s])
          BY <2>2 DEF Spoiling
        <4>2. Spoiling(disk[s]) \in {0, 1} /\ faults \in Int
          BY DEF Spoiling, BackendsTypeOK
        <4> QED BY <4>1, <4>2
      <3> QED BY <1>1, <1>2, <3>1, <3>2, SurvivesNext DEF StoreOK
    <2>3. CASE ~disk[s].open \/ pc[s] # "rows"
      BY <1>5, <2>2, <2>3
    <2>4. CASE disk[s].open /\ pc[s] = "rows"
      <3> DEFINE rows == todo[s].rows
                 k == Key(rows[1])
      <3>7. {Key(f) : f \in ToSet(rows)} \subseteq ClosedKeys(disk'[s]) \cup {k}
        <4> SUFFICES ASSUME NEW f \in ToSet(rows) PROVE Key(f) \in ClosedKeys(disk'[s]) \cup {k}
          OBVIOUS
        <4>1. PICK i \in 1 .. Len(rows) : rows[i] = f
          BY <1>4, <2>4, ElementsOf
        <4> QED BY <2>4, <4>1
      <3>8. k.node = FiringsOfTick(setup.plan, k.tick, 0)[1].node
        BY <1>1, <2>4, FirstRow
      <3> HIDE DEF rows, k
      <3>9. acked'[s].firings \subseteq acked[s].firings \cup ClosedKeys(disk'[s]) \cup {k}
        BY <1>9, <2>4, <3>7 DEF rows
      <3>10. HasRows(s) /\ setup.kind = "json" /\ ~disk'[s].open
        BY <1>6, <2>4
      <3>11. \E x : {k} = {x} /\ x.node = FiringsOfTick(setup.plan, x.tick, 0)[1].node
        BY <3>8
      <3> QED BY <1>1, <1>2, <2>4, <3>9, <3>10, <3>11, SurvivesNext DEF StoreOK
    <2> QED BY <2>3, <2>4
  <1>11. Canonical(s)'
    <2> SUFFICES ASSUME ~HasRows(s) PROVE ~disk'[s].open /\ History(disk'[s].log)
      BY <1>7, HistorySame DEF Canonical
    <2>1. ~disk[s].open /\ History(disk[s].log)
      BY <1>1 DEF StoreOK, Canonical
    <2>2. CASE pc[s] = "rows"
      <3>1. Len(todo[s].rows) \in 0 .. Len(todo[s].rows) /\ SubSeq(todo[s].rows, 1, Len(todo[s].rows)) = todo[s].rows
        BY <1>4, <2>2, WholeSequence
      <3>2. History(disk[s].log \o todo[s].rows)
        BY <1>1, <2>2, <3>1, HistoryGrows
      <3> QED BY <2>2, <3>2
    <2>3. CASE pc[s] # "rows"
      BY <2>1, <2>3
    <2> QED BY <2>2, <2>3
  <1>12. Pending(s)'
    BY DEF Pending
  <1>13. faults' = 0 => harmed'[s] = {}
    BY <1>1 DEF StoreOK
  <1>14. Within(disk'[s], staged'[s]) /\ Grounded(s, staged'[s])
    BY Untouched
  <1>15. StoreOK(s)'
    BY <1>2, <1>10, <1>11, <1>12, <1>13, <1>14, StoreNext
  <1> QED BY <1>8, <1>15 DEF SessionOK

\* Another thread has committed.
LEMMA Committed ==
  ASSUME NEW s \in Sessions, BackendsTypeOK, BackendsTypeOK', SessionOK(s),
         setup.kind = "sqlite", ~disk[s].open, ~staged[s].open, s \notin lock, s \notin lock',
         UNCHANGED <<setup, tick, harmed, faults>>,
         disk'[s] = staged[s], staged'[s] = staged[s],
         pc'[s] = pc[s], todo'[s] = todo[s], acked'[s] = acked[s]
  PROVE  SessionOK(s)'
  <1>1. InCall(s) /\ Position(s) /\ StoreOK(s) /\ Within(disk[s], staged[s]) /\ Sound(staged[s])
    BY SoundStores DEF SessionOK, StoreOK
  <1>2. Grew(s)
    BY <1>1 DEF Grew, Within
  <1>3. InCall(s)' /\ Position(s)'
    BY <1>1, <1>2, Bystander
  <1>4. Survives(s)'
    <2>1. acked'[s].firings \subseteq acked[s].firings \cup ClosedKeys(disk'[s]) \cup {}
      OBVIOUS
    <2>2. Spoiling(disk'[s]) - Spoiling(disk[s]) <= faults' - faults
      BY DEF Spoiling, BackendsTypeOK
    <2> QED BY <1>1, <1>2, <2>1, <2>2, SurvivesNext DEF StoreOK
  <1>5. Canonical(s)'
    <2> SUFFICES ASSUME ~HasRows(s)' PROVE History(disk'[s].log)
      BY HistorySame DEF Canonical
    <2>1. ~HasRows(s)
      BY DEF HasRows
    <2> QED BY <1>1, <2>1 DEF StoreOK, Canonical
  <1>6. Pending(s)' /\ Within(disk'[s], staged'[s]) /\ Grounded(s, disk'[s]) /\ Grounded(s, staged'[s])
    BY <1>1, Untouched DEF Pending, StoreOK
  <1>7. faults' = 0 => harmed'[s] = {}
    BY <1>1 DEF StoreOK
  <1>8. StoreOK(s)'
    BY <1>1, <1>2, <1>4, <1>5, <1>6, <1>7, StoreNext
  <1> QED BY <1>3, <1>8 DEF SessionOK

\* A write to files has been interrupted.
LEMMA Interrupted ==
  ASSUME NEW s \in Sessions, BackendsTypeOK, BackendsTypeOK', SessionOK(s),
         setup' = setup, setup.kind = "json", s \notin lock', acked'[s] = acked[s], faults' = faults + 1,
         disk'[s] \in Parts(disk[s], todo[s]) \cup Torn(disk[s], todo[s]), staged'[s] = disk'[s],
         harmed[s] \subseteq harmed'[s], HalfDone(s, disk'[s]) => Target(s) \in harmed'[s]
  PROVE  Grew(s) /\ StoreOK(s)'
  <1> DEFINE d == disk[s]
             e == disk'[s]
             w == todo[s]
  <1>1. InCall(s) /\ Position(s) /\ StoreOK(s) /\ Sound(d) /\ w \in Write
    BY SoundStores, CallOf DEF SessionOK
  <1>2. Changed(d, e, w)
    BY <1>1, PartsFacts, TornParts
  <1>3. e \in Parts(d, w) => Within(d, e)
    BY <1>1, PartsFacts
  <1>4. e \notin Parts(d, w) => Target(s) \in harmed'[s]
    BY DEF HalfDone
  <1>5. ASSUME NEW t \in 1 .. MaxTicks, Loads(d, t), ~Loads(e, t)
        PROVE  <<"snapshot", t>> \in harmed'[s]
    <2>1. w.op = "snapshot" /\ w.tick = t
      BY <1>2, <1>5 DEF Changed
    <2>2. pc[s] = "snapshot" /\ tick[s] = t
      BY <1>1, <2>1, CallOf
    <2>3. e \notin Parts(d, w)
      BY <1>3, <1>5 DEF Within
    <2> QED BY <1>4, <2>2, <2>3 DEF Target
  <1>6. Grew(s)
    BY <1>2, <1>5 DEF Grew, Changed
  <1>7. Sound(e) /\ Within(e, e) /\ d \in Stored
    BY <1>1, <1>2, Untouched DEF Changed, Sound
  <1>8. Grounded(s, e)
    BY <1>1, <1>2, <1>7, GroundedChange DEF StoreOK, Sound
  <1>9. Survives(s)'
    <2>1. acked'[s].firings \subseteq acked[s].firings \cup ClosedKeys(disk'[s]) \cup {}
      OBVIOUS
    <2>2. Spoiling(disk'[s]) - Spoiling(disk[s]) <= faults' - faults
      BY DEF Spoiling, BackendsTypeOK
    <2> QED BY <1>1, <1>6, <2>1, <2>2, SurvivesNext DEF StoreOK
  <1>10. Canonical(s)'
    <2> SUFFICES ASSUME ~HasRows(s)' PROVE ~e.open /\ History(e.log)
      BY HistorySame DEF Canonical
    <2>1. ~HasRows(s)
      BY <1>6 DEF HasRows, Grew
    <2>2. ~d.open /\ History(d.log)
      BY <1>1, <2>1 DEF StoreOK, Canonical
    <2>3. CASE pc[s] = "rows"
      <3>1. e \in Parts(d, w)
        BY <1>4, <2>3 DEF Target, HasRows
      <3>2. w.op = "rows"
        BY <1>1, <2>3, CallOf
      <3>3. ~e.open /\ \E k \in 0 .. Len(w.rows) : e.log = d.log \o SubSeq(w.rows, 1, k)
        BY <1>1, <2>2, <3>1, <3>2, PartsFacts
      <3> QED BY <1>1, <2>1, <2>3, <3>3, HistoryGrows
    <2>4. CASE pc[s] \in {"snapshot", "label"}
      <3>1. w.op # "rows"
        BY <1>1, <2>4, CallOf
      <3> QED BY <1>2, <2>2, <3>1 DEF Changed
    <2>5. CASE pc[s] \notin {"rows", "snapshot", "label"}
      <3>1. w = Nothing
        BY <1>1, <2>5, CallOf
      <3>2. e = d
        BY <1>1, <3>1, NothingStored
      <3> QED BY <2>2, <3>2
    <2> QED BY <2>3, <2>4, <2>5
  <1>11. Pending(s)' /\ faults' # 0
    BY DEF Pending, BackendsTypeOK
  <1>12. StoreOK(s)'
    <2> HIDE DEF d, e, w
    <2>1. Sound(disk'[s]) /\ Sound(staged'[s]) /\ Within(disk'[s], staged'[s])
          /\ Grounded(s, disk'[s]) /\ Grounded(s, staged'[s])
      BY <1>7, <1>8 DEF e
    <2> QED BY <1>6, <1>9, <1>10, <1>11, <2>1, StoreNext
  <1> QED BY <1>6, <1>12

\* A call on the connection has failed, or the connection is gone.
LEMMA Released ==
  ASSUME NEW s \in Sessions, BackendsTypeOK, BackendsTypeOK', SessionOK(s),
         setup' = setup, ~disk[s].open, ~staged[s].open, s \notin lock', acked'[s] = acked[s],
         faults' = faults + 1, disk'[s] = disk[s], harmed[s] \subseteq harmed'[s],
         \/ staged'[s] = disk[s]
         \/ staged'[s] \in Executed(s) /\ Target(s) \in harmed'[s]
  PROVE  Grew(s) /\ StoreOK(s)'
  <1> DEFINE d == staged[s]
             e == staged'[s]
             w == todo[s]
  <1>1. /\ InCall(s) /\ Position(s) /\ StoreOK(s) /\ Sound(d) /\ w \in Write
        /\ Sound(disk[s]) /\ disk[s] \in Stored /\ d \in Stored
    BY SoundStores, CallOf DEF SessionOK
  <1>2. Grew(s)
    BY DEF Grew
  <1>3. ASSUME e # disk[s]
        PROVE  Changed(d, e, w) /\ Within(d, e)
    BY <1>1, <1>3, PartsFacts, Untouched DEF Executed
  <1>4. Sound(e) /\ Within(disk'[s], e) /\ Grounded(s, e)
    <2>1. CASE e = disk[s]
      BY <1>1, <2>1, Untouched DEF StoreOK
    <2>2. CASE e # disk[s]
      <3>1. Changed(d, e, w) /\ Within(d, e) /\ Within(disk[s], d)
        BY <1>1, <1>3, <2>2 DEF StoreOK
      <3>2. Sound(e) /\ e \in Stored
        BY <3>1 DEF Changed, Sound
      <3>3. Within(disk[s], e)
        BY <3>1, WithinTransitive
      <3>4. Grounded(s, e)
        BY <1>1, <3>1, <3>2, GroundedChange DEF StoreOK
      <3> QED BY <3>2, <3>3, <3>4
    <2> QED BY <2>1, <2>2
  <1>5. Survives(s)'
    <2>1. acked'[s].firings \subseteq acked[s].firings \cup ClosedKeys(disk'[s]) \cup {}
      OBVIOUS
    <2>2. Spoiling(disk'[s]) - Spoiling(disk[s]) <= faults' - faults
      BY DEF Spoiling, BackendsTypeOK
    <2> QED BY <1>1, <1>2, <2>1, <2>2, SurvivesNext DEF StoreOK
  <1>6. Canonical(s)'
    <2> SUFFICES ASSUME ~HasRows(s)' PROVE History(disk[s].log) /\ ~e.open /\ e.log = disk[s].log
      BY HistorySame DEF Canonical
    <2>1. ~HasRows(s)
      BY <1>2 DEF HasRows, Grew
    <2>2. History(disk[s].log) /\ d.log = IF s \in lock /\ pc[s] = "rows" THEN disk[s].log \o todo[s].rows ELSE disk[s].log
      BY <1>1, <2>1 DEF StoreOK, Canonical
    <2>3. CASE e = disk[s]
      BY <2>2, <2>3
    <2>4. CASE e # disk[s]
      <3>1. pc[s] # "rows"
        BY <2>4 DEF Target, HasRows
      <3>2. d.log = disk[s].log
        BY <2>2, <3>1
      <3>3. CASE pc[s] \in {"snapshot", "label"}
        <4>1. w.op # "rows"
          BY <1>1, <3>3, CallOf
        <4> QED BY <1>3, <2>2, <2>4, <3>2, <4>1 DEF Changed
      <3>4. CASE pc[s] \notin {"rows", "snapshot", "label"}
        <4>1. w = Nothing
          BY <1>1, <3>4, CallOf
        <4>2. e = d
          BY <1>1, <2>4, <4>1, NothingStored DEF Executed
        <4> QED BY <2>2, <3>2, <4>2
      <3> QED BY <3>1, <3>3, <3>4
    <2> QED BY <2>3, <2>4
  <1>7. Pending(s)' /\ faults' # 0
    BY DEF Pending, BackendsTypeOK
  <1>8. StoreOK(s)'
    <2> HIDE DEF d, e, w
    <2>1. Sound(disk'[s]) /\ Sound(staged'[s]) /\ Within(disk'[s], staged'[s])
          /\ Grounded(s, disk'[s]) /\ Grounded(s, staged'[s])
      BY <1>1, <1>4 DEF StoreOK, e
    <2> QED BY <1>2, <1>5, <1>6, <1>7, <2>1, StoreNext
  <1> QED BY <1>2, <1>8

\* A thread has executed its statements.
LEMMA Executing ==
  ASSUME NEW s \in Sessions, BackendsTypeOK, BackendsTypeOK', SessionOK(s),
         todo[s] # Nothing, s \notin lock, s \in lock', disk' = disk,
         staged'[s] = Applied(staged[s], todo[s]),
         UNCHANGED <<setup, pc, todo, tick, acked, harmed, faults>>
  PROVE  SessionOK(s)'
  <1> DEFINE d == staged[s]
             e == staged'[s]
             w == todo[s]
  <1>1. /\ InCall(s) /\ Position(s) /\ StoreOK(s) /\ Sound(d) /\ w \in Write
        /\ Sound(disk[s]) /\ disk[s] \in Stored /\ d \in Stored
    BY SoundStores, CallOf DEF SessionOK
  <1>2. Grew(s)
    BY DEF Grew
  <1>3. InCall(s)' /\ Position(s)'
    BY <1>1, <1>2, Bystander
  <1>4. Changed(d, e, w) /\ Within(d, e) /\ (w.op = "rows" => ~e.open /\ (~d.open => e.log = d.log \o w.rows))
    <2>1. e = Applied(d, w) /\ w # Nothing
      OBVIOUS
    <2> HIDE DEF d, e, w
    <2>2. /\ Changed(d, Applied(d, w), w) /\ Within(d, Applied(d, w))
          /\ w.op = "rows" => /\ ~Applied(d, w).open
                              /\ ~d.open => Applied(d, w).log = d.log \o w.rows
      BY <1>1, <2>1, AppliedFacts
    <2> QED BY <2>1, <2>2
  <1>5. Sound(e) /\ e \in Stored /\ Within(disk[s], d)
    BY <1>1, <1>4 DEF Changed, Sound, StoreOK
  <1>6. Within(disk[s], e)
    BY <1>4, <1>5, WithinTransitive
  <1>7. Grounded(s, e)
    BY <1>1, <1>4, <1>5, GroundedChange DEF StoreOK
  <1>8. Survives(s)'
    <2>1. acked'[s].firings \subseteq acked[s].firings \cup ClosedKeys(disk'[s]) \cup {}
      OBVIOUS
    <2>2. Spoiling(disk'[s]) - Spoiling(disk[s]) <= faults' - faults
      BY DEF Spoiling, BackendsTypeOK
    <2> QED BY <1>1, <1>2, <2>1, <2>2, SurvivesNext DEF StoreOK
  <1>9. Canonical(s)'
    <2> SUFFICES ASSUME ~HasRows(s)
                 PROVE  /\ History(disk[s].log) /\ ~disk[s].open /\ ~e.open
                        /\ e.log = IF pc[s] = "rows" THEN disk[s].log \o w.rows ELSE disk[s].log
      BY HistorySame DEF Canonical, HasRows
    <2>1. History(disk[s].log) /\ ~disk[s].open /\ ~d.open /\ d.log = disk[s].log
      BY <1>1 DEF StoreOK, Canonical
    <2>2. pc[s] \in {"rows", "snapshot", "label"} /\ (w.op = "rows" <=> pc[s] = "rows")
      BY <1>1, CallOf
    <2>3. CASE pc[s] = "rows"
      BY <1>4, <2>1, <2>2, <2>3
    <2>4. CASE pc[s] # "rows"
      BY <1>4, <2>1, <2>2, <2>4 DEF Changed
    <2> QED BY <2>1, <2>3, <2>4
  <1>10. Pending(s)'
    BY <1>1, Primed DEF StoreOK, Pending
  <1>11. faults' = 0 => harmed'[s] = {}
    BY <1>1 DEF StoreOK
  <1>12. StoreOK(s)'
    <2> HIDE DEF d, e, w
    <2>1. Sound(disk'[s]) /\ Sound(staged'[s]) /\ Within(disk'[s], staged'[s])
          /\ Grounded(s, disk'[s]) /\ Grounded(s, staged'[s])
      BY <1>1, <1>5, <1>6, <1>7 DEF StoreOK, e
    <2> QED BY <1>2, <1>8, <1>9, <1>10, <1>11, <2>1, StoreNext
  <1> QED BY <1>3, <1>12 DEF SessionOK

-----------------------------------------------------------------------------
(* The invariant is inductive *)

LEMMA InitInv ==
  ASSUME Init
  PROVE  BackendsInv
  <1>1. /\ setup \in Setups /\ disk = [s \in Sessions |-> Empty] /\ staged = disk /\ lock = {}
        /\ pc = [s \in Sessions |-> "idle"] /\ todo = [s \in Sessions |-> Nothing]
        /\ tick = [s \in Sessions |-> 0] /\ rollbacks = 0
        /\ acked = [s \in Sessions |-> [firings |-> {}, labels |-> [l \in Labels |-> {None}]]]
        /\ harmed = [s \in Sessions |-> {}] /\ faults = 0
    BY DEF Init
  <1>2. Nothing \in Write
    BY EmptyElements DEF Nothing, Write
  <1>3. Empty \in Stored
    BY EmptyFacts DEF Sound
  <1>4. BackendsTypeOK
    <2>1. setup \in Setups /\ rollbacks \in 0 .. MaxRollbacks /\ faults \in 0 .. MaxFaults
      BY <1>1, BackendsAssumption
    <2>2. tick \in [Sessions -> 0 .. MaxTicks]
      BY <1>1, BackendsAssumption
    <2>3. /\ acked \in [Sessions -> [firings : SUBSET [tick : 0 .. MaxTicks - 1, node : Nodes],
                                     labels : [Labels -> SUBSET (-1 .. MaxTicks)]]]
          /\ harmed \in [Sessions -> SUBSET Targets]
          /\ pc \in [Sessions -> {"idle", "rows", "snapshot", "label", "down"}]
      BY <1>1, BackendsAssumption DEF None
    <2>4. disk \in [Sessions -> Stored] /\ staged \in [Sessions -> Stored] /\ todo \in [Sessions -> Write]
      BY <1>1, <1>2, <1>3
    <2>5. lock \in SUBSET Sessions
      BY <1>1
    <2> QED BY <2>1, <2>2, <2>3, <2>4, <2>5 DEF BackendsTypeOK
  <1>5. LockOK
    BY <1>1, EmptyFacts DEF LockOK
  <1>6. ASSUME NEW s \in Sessions
        PROVE  SessionOK(s)
    <2>1. /\ disk[s] = Empty /\ staged[s] = Empty /\ pc[s] = "idle" /\ todo[s] = Nothing /\ tick[s] = 0
          /\ acked[s].firings = {} /\ harmed[s] = {}
      BY <1>1
    <2>2. InCall(s)
      BY <2>1 DEF InCall
    <2>3. Covered(s, 0) /\ RowsDone(s, 0)
      BY <1>4, PlanFacts DEF Covered, RowsDone
    <2>4. Position(s)
      BY <2>1, <2>3 DEF Position
    <2>5. Survives(s)
      <3>1. acked[s].firings \ ClosedKeys(disk[s]) = {}
        BY <2>1
      <3>2. Cardinality(acked[s].firings \ ClosedKeys(disk[s])) + Spoiling(disk[s]) <= faults
        <4>1. Cardinality(acked[s].firings \ ClosedKeys(disk[s])) = 0
          BY <3>1, FS_EmptySet
        <4>2. Spoiling(disk[s]) = 0
          BY <2>1, EmptyFacts DEF Spoiling
        <4> QED BY <1>1, <4>1, <4>2
      <3> QED BY <3>1, <3>2 DEF Survives
    <2>6. Canonical(s) /\ Pending(s)
      BY <1>1, <2>1, EmptyFacts, EmptyElements DEF Canonical, Pending, History
    <2>7. StoreOK(s)
      BY <1>1, <2>1, <2>5, <2>6, EmptyFacts, Untouched DEF StoreOK, Grounded
    <2> QED BY <2>2, <2>4, <2>7 DEF SessionOK
  <1> QED BY <1>4, <1>5, <1>6 DEF BackendsInv

\* A step that touches nothing that is stored.
LEMMA QuietStep ==
  ASSUME BackendsInv, BackendsTypeOK', NEW s \in Sessions,
         UNCHANGED <<setup, disk, staged, lock, harmed, faults>>,
         \A q \in Sessions : acked'[q].firings = acked[q].firings,
         \A q \in Sessions \ {s} : pc'[q] = pc[q] /\ todo'[q] = todo[q] /\ tick'[q] = tick[q],
         todo[s] = Nothing, InCall(s)', Grew(s) => Position(s)'
  PROVE  BackendsInv'
  <1>1. BackendsTypeOK /\ LockOK /\ \A q \in Sessions : SessionOK(q)
    BY DEF BackendsInv
  <1>2. s \notin lock
    BY <1>1 DEF LockOK
  <1>3. ASSUME NEW q \in Sessions PROVE SessionOK(q)'
    <2>1. InCall(q) /\ Position(q) /\ StoreOK(q)
      BY <1>1 DEF SessionOK
    <2>2. Same(q)
      BY <1>1 DEF Same, BackendsTypeOK
    <2>3. StoreOK(q)' /\ Grew(q)
      BY <1>1, <1>2, <2>1, <2>2, Quiet
    <2>4. CASE q = s
      BY <2>3, <2>4 DEF SessionOK
    <2>5. CASE q # s
      BY <1>1, <2>1, <2>3, <2>5, Bystander DEF SessionOK
    <2> QED BY <2>4, <2>5
  <1>4. LockOK'
    <2>1. \A x \in lock : x # s /\ x \in Sessions
      BY <1>1, <1>2 DEF BackendsTypeOK
    <2>2. \A x \in lock' : todo'[x] # Nothing /\ Holds(staged'[x], todo'[x])
      BY <1>1, <2>1 DEF LockOK
    <2> QED BY <1>1, <2>2, Primed DEF LockOK, Nothing
  <1> QED BY <1>3, <1>4 DEF BackendsInv

LEMMA IdleOutside ==
  ASSUME BackendsInv, NEW s \in Sessions, pc[s] \in {"idle", "down"}
  PROVE  todo[s] = Nothing
  BY DEF BackendsInv, SessionOK, InCall

LEMMA RunTickInv ==
  ASSUME BackendsInv, BackendsTypeOK', NEW s \in Sessions, RunTick(s)
  PROVE  BackendsInv'
  <1>1. BackendsTypeOK /\ InCall(s) /\ Position(s)
    BY DEF BackendsInv, SessionOK
  <1>2. /\ s \in setup.active /\ pc[s] = "idle" /\ tick[s] \in DOMAIN setup.plan
        /\ tick'[s] = tick[s] + 1 /\ todo'[s] = Batch(s) /\ pc'[s] = "rows"
        /\ UNCHANGED <<setup, disk, staged, lock, rollbacks, acked, harmed, faults>>
        /\ \A q \in Sessions \ {s} : pc'[q] = pc[q] /\ todo'[q] = todo[q] /\ tick'[q] = tick[q]
    BY <1>1 DEF RunTick, BackendsTypeOK
  <1>3. tick[s] \in 0 .. MaxTicks /\ tick'[s] - 1 = tick[s]
    BY <1>1, <1>2 DEF BackendsTypeOK
  <1>4. InCall(s)'
    <2>1. faults + rollbacks \in 0 .. MaxFaults + MaxRollbacks
      BY <1>1, <1>2, BatchType
    <2>2. todo'[s] = [op |-> "rows", rows |-> FiringsOfTick(setup.plan, tick[s], faults + rollbacks)]
      BY <1>2 DEF Batch
    <2> QED BY <1>2, <1>3, <2>1, <2>2, PlanKept DEF InCall
  <1>5. ASSUME Grew(s) PROVE Position(s)'
    <2>1. Covered(s, tick[s]) /\ RowsDone(s, tick[s])
      BY <1>1, <1>2 DEF Position
    <2>2. \A t : t = tick[s] => Covered(s, t)' /\ RowsDone(s, t)'
      BY <1>3, <1>5, <2>1, Later
    <2> QED BY <1>2, <1>3, <2>2 DEF Position
  <1> QED BY <1>2, <1>4, <1>5, IdleOutside, QuietStep

LEMMA SkipInv ==
  ASSUME BackendsInv, BackendsTypeOK', NEW s \in Sessions, SkipEmptyBatch(s)
  PROVE  BackendsInv'
  <1>1. BackendsTypeOK /\ InCall(s) /\ Position(s)
    BY DEF BackendsInv, SessionOK
  <1>2. /\ pc[s] = "rows" /\ setup.plan[tick[s] - 1] = {} /\ Proceed(s) /\ tick' = tick
        /\ UNCHANGED <<setup, disk, staged, lock, acked, harmed, faults>>
        /\ \A q \in Sessions \ {s} : pc'[q] = pc[q] /\ todo'[q] = todo[q] /\ tick'[q] = tick[q]
    BY <1>1 DEF SkipEmptyBatch, Proceed, BackendsTypeOK
  <1>3. todo[s] = Nothing
    BY <1>1, <1>2, CallOf
  <1>4. {Key(f) : f \in ToSet(todo[s].rows)} = {}
    BY <1>3, EmptyElements DEF Nothing
  <1>5. Grew(s)
    BY <1>2 DEF Grew
  <1>6. InCall(s)' /\ Position(s)'
    BY <1>1, <1>2, <1>4, <1>5, Proceeded
  <1> QED BY <1>2, <1>3, <1>6, QuietStep

LEMMA CheckpointInv ==
  ASSUME BackendsInv, BackendsTypeOK', NEW s \in Sessions, NEW l \in Labels, Checkpoint(s, l)
  PROVE  BackendsInv'
  <1>1. BackendsTypeOK /\ InCall(s) /\ Position(s)
    BY DEF BackendsInv, SessionOK
  <1>2. /\ s \in setup.active /\ pc[s] = "idle" /\ tick' = tick /\ pc'[s] = "label"
        /\ todo'[s] = [op |-> "label", label |-> l, tick |-> tick[s]]
        /\ UNCHANGED <<setup, disk, staged, lock, harmed, faults>>
        /\ \A q \in Sessions : acked'[q].firings = acked[q].firings
        /\ \A q \in Sessions \ {s} : pc'[q] = pc[q] /\ todo'[q] = todo[q] /\ tick'[q] = tick[q]
    BY <1>1 DEF Checkpoint, BackendsTypeOK
  <1>3. InCall(s)'
    BY <1>2 DEF InCall
  <1>4. tick[s] \in 0 .. MaxTicks
    BY <1>1 DEF BackendsTypeOK
  <1>5. ASSUME Grew(s) PROVE Position(s)'
    <2>1. Covered(s, tick[s]) /\ RowsDone(s, tick[s])
      BY <1>1, <1>2 DEF Position
    <2>2. \A t : t = tick[s] => Covered(s, t)' /\ RowsDone(s, t)'
      BY <1>4, <1>5, <2>1, Later
    <2> QED BY <1>2, <2>2 DEF Position
  <1> QED BY <1>2, <1>3, <1>5, IdleOutside, QuietStep

LEMMA RollbackInv ==
  ASSUME BackendsInv, BackendsTypeOK', NEW s \in Sessions, NEW l \in Labels, Rollback(s, l)
  PROVE  BackendsInv'
  <1>1. BackendsTypeOK /\ InCall(s) /\ Position(s) /\ StoreOK(s)
    BY DEF BackendsInv, SessionOK
  <1>2. /\ pc[s] = "idle" /\ staged[s].labels[l] # None /\ tick'[s] = staged[s].labels[l]
        /\ pc' = pc /\ todo' = todo
        /\ UNCHANGED <<setup, disk, staged, lock, acked, harmed, faults>>
        /\ \A q \in Sessions \ {s} : pc'[q] = pc[q] /\ todo'[q] = todo[q] /\ tick'[q] = tick[q]
    BY <1>1 DEF Rollback, BackendsTypeOK
  <1>3. InCall(s)'
    <2>1. todo[s] = Nothing
      BY <1>2, IdleOutside
    <2> QED BY <1>2, <2>1 DEF InCall, Nothing
  <1>4. tick'[s] \in 0 .. MaxTicks
    BY <1>2 DEF BackendsTypeOK
  <1>5. ASSUME Grew(s) PROVE Position(s)'
    <2>1. Covered(s, staged[s].labels[l]) /\ RowsDone(s, staged[s].labels[l])
      BY <1>1, <1>2 DEF StoreOK, Grounded
    <2>2. \A t : t = staged[s].labels[l] => Covered(s, t)' /\ RowsDone(s, t)'
      BY <1>2, <1>4, <1>5, <2>1, Later
    <2> QED BY <1>2, <2>2 DEF Position
  <1> QED BY <1>2, <1>3, <1>5, IdleOutside, QuietStep

LEMMA ResumeInv ==
  ASSUME BackendsInv, BackendsTypeOK', NEW s \in Sessions, Resume(s)
  PROVE  BackendsInv'
  <1>1. BackendsTypeOK /\ InCall(s) /\ Position(s) /\ StoreOK(s)
    BY DEF BackendsInv, SessionOK
  <1>0. PICK m \in Restorable(s) : tick' = [tick EXCEPT ![s] = m]
    BY DEF Resume
  <1>2. /\ pc[s] = "down" /\ tick'[s] = m /\ pc'[s] = "idle" /\ todo' = todo
        /\ UNCHANGED <<setup, disk, staged, lock, acked, harmed, faults>>
        /\ \A q \in Sessions \ {s} : pc'[q] = pc[q] /\ todo'[q] = todo[q] /\ tick'[q] = tick[q]
    BY <1>0, <1>1 DEF Resume, BackendsTypeOK
  <1>3. InCall(s)'
    <2>1. todo[s] = Nothing
      BY <1>2, IdleOutside
    <2> QED BY <1>2, <2>1 DEF InCall, Nothing
  <1>4. tick'[s] \in 0 .. MaxTicks
    BY <1>2 DEF BackendsTypeOK
  <1>7. Covered(s, m) /\ RowsDone(s, m)
    <2>1. CASE m = 0
      BY <1>1, <2>1, PlanFacts DEF Covered, RowsDone
    <2>2. CASE m # 0
      <3>2. m \in 1 .. MaxTicks /\ Loads(disk[s], m)
        BY <2>2, RestorableTicks
      <3>3. Covered(s, m - 1) /\ RowsDone(s, m)
        BY <1>1, <3>2 DEF StoreOK, Grounded
      <3>4. \A u \in 1 .. m : u \in 1 .. m - 1 \/ u = m
        BY <3>2
      <3> QED BY <3>2, <3>3, <3>4 DEF Covered
    <2> QED BY <2>1, <2>2
  <1>8. ASSUME Grew(s) PROVE Position(s)'
    <2>2. \A t : t = m => Covered(s, t)' /\ RowsDone(s, t)'
      BY <1>2, <1>4, <1>7, <1>8, Later
    <2> QED BY <1>2, <2>2 DEF Position
  <1> QED BY <1>2, <1>3, <1>8, IdleOutside, QuietStep

\* What the files, or the tables, of s are left with by a crash.
LEMMA CrashInv ==
  ASSUME BackendsInv, BackendsTypeOK', Crash
  PROVE  BackendsInv'
  <1>1. BackendsTypeOK /\ LockOK /\ \A s \in Sessions : SessionOK(s)
    BY DEF BackendsInv
  <1>2. PICK left \in [Sessions -> UNION {Remains(s) : s \in Sessions}] :
          /\ \A s \in Sessions : left[s] \in Remains(s)
          /\ disk' = left
          /\ harmed' = [s \in Sessions |->
                          harmed[s] \cup IF HalfDone(s, left[s]) THEN {Target(s)} ELSE {}]
    BY DEF Crash
  <1>3. /\ faults' = faults + 1 /\ staged' = disk' /\ lock' = {}
        /\ pc' = [s \in Sessions |-> IF s \in setup.active THEN "down" ELSE "idle"]
        /\ todo' = [s \in Sessions |-> Nothing]
        /\ UNCHANGED <<setup, tick, rollbacks, acked>>
    BY DEF Crash
  <1>4. setup.kind \in {"json", "sqlite"}
    BY <1>1, BackendsAssumption DEF BackendsTypeOK, IsSetup
  <1>5. ASSUME NEW s \in Sessions
        PROVE  /\ disk'[s] \in Remains(s) /\ harmed[s] \subseteq harmed'[s] /\ staged'[s] = disk'[s]
               /\ HalfDone(s, disk'[s]) => Target(s) \in harmed'[s]
               /\ setup.kind = "sqlite" => disk'[s] = disk[s]
    BY <1>2, <1>3 DEF Remains
  <1>6. ASSUME NEW s \in Sessions
        PROVE  Grew(s) /\ StoreOK(s)'
    <2>1. CASE setup.kind = "json"
      <3>1. disk'[s] \in Parts(disk[s], todo[s]) \cup Torn(disk[s], todo[s])
        BY <1>5, <2>1 DEF Remains
      <3> QED BY <1>1, <1>3, <1>5, <2>1, <3>1, Interrupted
    <2>2. CASE setup.kind = "sqlite"
      <3>1. ~disk[s].open /\ ~staged[s].open
        BY <1>1, <2>2 DEF LockOK
      <3> QED BY <1>1, <1>3, <1>5, <2>2, <3>1, Released
    <2> QED BY <1>4, <2>1, <2>2
  <1>7. ASSUME NEW s \in Sessions
        PROVE  SessionOK(s)'
    <2>1. InCall(s) /\ Position(s) /\ Grew(s)
      BY <1>1, <1>6 DEF SessionOK
    <2>2. /\ pc'[s] = (IF s \in setup.active THEN "down" ELSE "idle")
          /\ todo'[s] = Nothing /\ tick'[s] = tick[s] /\ setup' = setup
      BY <1>3
    <2>3. InCall(s)'
      BY <2>2 DEF InCall, Nothing
    <2>4. tick[s] \in 0 .. MaxTicks
      BY <1>1 DEF BackendsTypeOK
    <2>5. Covered(s, tick[s] - 1)
      <3>1. Covered(s, tick[s]) \/ Covered(s, tick[s] - 1)
        BY <2>1 DEF Position
      <3>2. \A u \in 1 .. tick[s] - 1 : u \in 1 .. tick[s]
        BY <2>4
      <3> QED BY <3>1, <3>2 DEF Covered
    <2>6. \A t : t = tick[s] - 1 => Covered(s, t)'
      <3>1. CASE tick[s] = 0
        BY <3>1 DEF Covered
      <3>2. CASE tick[s] # 0
        <4>1. tick[s] - 1 \in 0 .. MaxTicks
          BY <2>4, <3>2, BackendsAssumption
        <4> QED BY <2>1, <2>5, <4>1, Later
      <3> QED BY <3>1, <3>2
    <2>7. ASSUME s \notin setup.active
          PROVE  \A t : t = tick[s] => Covered(s, t)' /\ RowsDone(s, t)'
      <3>1. pc[s] = "idle"
        BY <2>1, <2>7 DEF InCall
      <3>2. Covered(s, tick[s]) /\ RowsDone(s, tick[s])
        BY <2>1, <3>1 DEF Position
      <3> QED BY <2>1, <2>4, <3>2, Later
    <2>8. Position(s)'
      <3>1. CASE s \in setup.active
        BY <2>2, <2>6, <3>1 DEF Position
      <3>2. CASE s \notin setup.active
        BY <2>2, <2>7, <3>2 DEF Position
      <3> QED BY <3>1, <3>2
    <2> QED BY <1>6, <2>3, <2>8 DEF SessionOK
  <1>8. LockOK'
    <2>1. setup.kind = "sqlite" => \A s \in Sessions : ~disk'[s].open /\ ~staged'[s].open
      BY <1>1, <1>5 DEF LockOK
    <2> QED BY <1>3, <2>1 DEF LockOK
  <1> QED BY <1>7, <1>8 DEF BackendsInv

LEMMA JsonSaveInv ==
  ASSUME BackendsInv, BackendsTypeOK', NEW s \in Sessions, JsonSave(s)
  PROVE  BackendsInv'
  <1>1. BackendsTypeOK /\ LockOK /\ \A q \in Sessions : SessionOK(q)
    BY DEF BackendsInv
  <1> DEFINE d == disk[s]
             w == todo[s]
             e == Applied(d, w)
  <1>2. /\ setup.kind = "json" /\ w # Nothing /\ staged' = disk' /\ Return(s)
        /\ disk'[s] = e /\ \A q \in Sessions \ {s} : disk'[q] = disk[q]
        /\ UNCHANGED <<setup, lock, tick, rollbacks, harmed, faults>>
    BY <1>1 DEF JsonSave, BackendsTypeOK
  <1>3. lock = {} /\ staged = disk
    BY <1>1, <1>2 DEF LockOK
  <1>4. SessionOK(s)'
    <2>1. InCall(s) /\ Position(s) /\ StoreOK(s) /\ Sound(d) /\ w \in Write /\ Grounded(s, d) /\ d \in Stored
      BY <1>1, SoundStores, CallOf DEF SessionOK, StoreOK
    <2>2. /\ Changed(d, e, w) /\ Within(d, e)
          /\ ~d.open => Holds(e, w)
          /\ w.op = "rows" =>
               /\ ~e.open
               /\ \A i \in 1 .. Len(w.rows) : i # 1 => Key(w.rows[i]) \in ClosedKeys(e)
               /\ ~d.open => e.log = d.log \o w.rows
          /\ w.op # "rows" => Holds(e, w)
      <3> HIDE DEF d, w
      <3> QED BY <1>2, <2>1, AppliedFacts
    <2>3. w.op = "rows" <=> pc[s] \notin {"snapshot", "label"}
      BY <1>1, <2>1, CallOf
    <2>4. ~HasRows(s) => ~d.open
      BY <2>1 DEF StoreOK, Canonical
    <2> HIDE DEF e
    <2>5. Sound(e) /\ Grounded(s, e)
      BY <1>1, <2>1, <2>2, GroundedChange DEF Changed, Sound
    <2>6. pc[s] # "rows" => /\ Holds(e, w) /\ e.log = d.log /\ e.open = d.open
      <3>1. pc[s] \in {"rows", "snapshot", "label"}
        BY <1>1, <1>2, <2>1, CallOf
      <3> QED BY <2>2, <2>3, <3>1 DEF Changed
    <2>7. pc[s] = "rows" => /\ ~e.open
                            /\ \A i \in 1 .. Len(w.rows) : i # 1 => Key(w.rows[i]) \in ClosedKeys(e)
                            /\ ~HasRows(s) => e.log = d.log \o w.rows
      BY <2>2, <2>3, <2>4
    <2>8. disk'[s] = staged'[s] /\ s \notin lock' /\ SessionOK(s)
      BY <1>1, <1>2, <1>3
    <2> QED BY <1>1, <1>2, <2>2, <2>5, <2>6, <2>7, <2>8, Saved
  <1>5. ASSUME NEW q \in Sessions, q # s PROVE SessionOK(q)'
    <2>1. InCall(q) /\ Position(q) /\ StoreOK(q)
      BY <1>1 DEF SessionOK
    <2>2. pc'[q] = pc[q] /\ todo'[q] = todo[q] /\ acked'[q] = acked[q]
      BY <1>1, <1>2, <1>5 DEF Return, Proceed, BackendsTypeOK
    <2>3. Same(q)
      BY <1>1, <1>2, <1>3, <1>5, <2>2 DEF Same, BackendsTypeOK
    <2>4. StoreOK(q)' /\ Grew(q)
      BY <1>1, <1>2, <1>3, <2>1, <2>3, Quiet
    <2> QED BY <1>1, <1>2, <2>1, <2>2, <2>4, Bystander DEF SessionOK
  <1>6. LockOK'
    BY <1>2, <1>3 DEF LockOK
  <1> QED BY <1>4, <1>5, <1>6 DEF BackendsInv

LEMMA JsonFailsInv ==
  ASSUME BackendsInv, BackendsTypeOK', NEW s \in Sessions, JsonFails(s)
  PROVE  BackendsInv'
  <1>1. BackendsTypeOK /\ LockOK /\ \A q \in Sessions : SessionOK(q)
    BY DEF BackendsInv
  <1>2. /\ setup.kind = "json" /\ todo[s] # Nothing /\ staged' = disk' /\ Proceed(s)
        /\ disk'[s] \in Parts(disk[s], todo[s]) \cup Torn(disk[s], todo[s])
        /\ \A q \in Sessions \ {s} : disk'[q] = disk[q] /\ harmed'[q] = harmed[q]
        /\ harmed'[s] = harmed[s] \cup {Target(s)}
        /\ faults' = faults + 1
        /\ UNCHANGED <<setup, lock, tick, rollbacks, acked>>
    BY <1>1 DEF JsonFails, BackendsTypeOK
  <1>3. lock = {} /\ staged = disk
    BY <1>1, <1>2 DEF LockOK
  <1>4. SessionOK(s)'
    <2>1. Grew(s) /\ StoreOK(s)'
      BY <1>1, <1>2, <1>3, Interrupted
    <2>2. InCall(s) /\ Position(s)
      BY <1>1 DEF SessionOK
    <2>3. pc[s] \in {"rows", "snapshot", "label"}
      BY <1>1, <1>2, <2>2, CallOf
    <2>4. /\ pc[s] = "rows" => HasRows(s)'
          /\ pc[s] = "snapshot" => <<"snapshot", tick[s]>> \in harmed'[s]
      BY <1>2 DEF HasRows, Target
    <2>5. InCall(s)' /\ Position(s)'
      BY <1>1, <1>2, <2>1, <2>2, <2>3, <2>4, Proceeded
    <2> QED BY <2>1, <2>5 DEF SessionOK
  <1>5. ASSUME NEW q \in Sessions, q # s PROVE SessionOK(q)'
    <2>1. InCall(q) /\ Position(q) /\ StoreOK(q)
      BY <1>1 DEF SessionOK
    <2>2. pc'[q] = pc[q] /\ todo'[q] = todo[q]
      BY <1>1, <1>2, <1>5 DEF Proceed, BackendsTypeOK
    <2>3. Same(q)
      BY <1>1, <1>2, <1>3, <1>5, <2>2 DEF Same, BackendsTypeOK
    <2>4. StoreOK(q)' /\ Grew(q)
      BY <1>1, <1>2, <1>3, <2>1, <2>3, Quiet
    <2> QED BY <1>1, <1>2, <2>1, <2>2, <2>4, Bystander DEF SessionOK
  <1>6. LockOK'
    BY <1>2, <1>3 DEF LockOK
  <1> QED BY <1>4, <1>5, <1>6 DEF BackendsInv

LEMMA ExecuteInv ==
  ASSUME BackendsInv, BackendsTypeOK', NEW s \in Sessions, Execute(s)
  PROVE  BackendsInv'
  <1>1. BackendsTypeOK /\ LockOK /\ \A q \in Sessions : SessionOK(q)
    BY DEF BackendsInv
  <1>2. /\ setup.kind = "sqlite" /\ todo[s] # Nothing /\ lock = {} /\ lock' = {s}
        /\ staged'[s] = Applied(staged[s], todo[s]) /\ \A q \in Sessions \ {s} : staged'[q] = staged[q]
        /\ UNCHANGED <<setup, disk, pc, todo, tick, rollbacks, acked, harmed, faults>>
    BY <1>1 DEF Execute, BackendsTypeOK
  <1>3. SessionOK(s)'
    BY <1>1, <1>2, Executing
  <1>4. ASSUME NEW q \in Sessions, q # s PROVE SessionOK(q)'
    <2>1. InCall(q) /\ Position(q) /\ StoreOK(q)
      BY <1>1 DEF SessionOK
    <2>2. Same(q)
      BY <1>1, <1>2, <1>4 DEF Same, BackendsTypeOK
    <2>3. StoreOK(q)' /\ Grew(q)
      BY <1>1, <1>2, <1>4, <2>1, <2>2, Quiet
    <2> QED BY <1>1, <1>2, <2>1, <2>3, Bystander DEF SessionOK
  <1>5. LockOK'
    <2>1. \A q \in Sessions : ~disk[q].open /\ ~staged[q].open
      BY <1>1, <1>2 DEF LockOK
    <2> DEFINE d == staged[s]
               w == todo[s]
               e == Applied(d, w)
    <2>2. Sound(d) /\ w \in Write /\ ~d.open /\ w # Nothing
      BY <1>1, <1>2, <2>1, SoundStores, CallOf DEF SessionOK
    <2>3. Holds(e, w) /\ ~e.open
      <3> HIDE DEF d, w
      <3>1. /\ Changed(d, Applied(d, w), w) /\ Holds(Applied(d, w), w)
            /\ w.op = "rows" => ~Applied(d, w).open
        BY <2>2, AppliedFacts
      <3> QED BY <2>2, <3>1 DEF Changed
    <2>4. Holds(staged'[s], todo'[s]) /\ todo'[s] # Nothing /\ ~staged'[s].open
      BY <1>2, <2>2, <2>3
    <2>5. \A q \in Sessions : ~staged'[q].open
      BY <1>2, <2>1, <2>4
    <2> QED BY <1>2, <2>1, <2>4, <2>5, Primed DEF LockOK, Nothing
  <1> QED BY <1>3, <1>4, <1>5 DEF BackendsInv

LEMMA CommitInv ==
  ASSUME BackendsInv, BackendsTypeOK', NEW s \in Sessions, Commit(s)
  PROVE  BackendsInv'
  <1>1. BackendsTypeOK /\ LockOK /\ \A q \in Sessions : SessionOK(q)
    BY DEF BackendsInv
  <1>2. /\ s \in lock /\ disk' = staged /\ lock' = lock \ {s} /\ Return(s)
        /\ UNCHANGED <<setup, staged, tick, rollbacks, harmed, faults>>
    BY DEF Commit
  <1>3. lock = {s} /\ lock' = {} /\ todo[s] # Nothing /\ Holds(staged[s], todo[s])
    BY <1>1, <1>2 DEF LockOK
  <1>4. setup.kind = "sqlite" /\ \A q \in Sessions : ~disk[q].open /\ ~staged[q].open
    <2>1. setup.kind \in {"json", "sqlite"}
      BY <1>1, BackendsAssumption DEF BackendsTypeOK, IsSetup
    <2> QED BY <1>1, <1>3, <2>1 DEF LockOK
  <1>5. SessionOK(s)'
    <2>1. InCall(s) /\ Position(s) /\ StoreOK(s) /\ Sound(staged[s])
      BY <1>1, SoundStores DEF SessionOK
    <2>2. Within(disk[s], disk'[s]) /\ Grounded(s, disk'[s]) /\ Sound(disk'[s]) /\ disk'[s] = staged'[s]
      BY <1>2, <2>1 DEF StoreOK
    <2>3. Holds(disk'[s], todo[s]) /\ s \notin lock' /\ ~disk'[s].open /\ ~disk[s].open
      BY <1>2, <1>3, <1>4
    <2>4. disk'[s].open = disk[s].open
      BY <1>1, <1>2, <1>4 DEF BackendsTypeOK, Stored
    <2>5. ~HasRows(s) => disk'[s].log = IF pc[s] = "rows" THEN disk[s].log \o todo[s].rows ELSE disk[s].log
      BY <1>2, <2>1 DEF StoreOK, Canonical
    <2>6. pc[s] = "rows" =>
            \A i \in 1 .. Len(todo[s].rows) : Key(todo[s].rows[i]) \in ClosedKeys(disk'[s])
      <3> SUFFICES ASSUME pc[s] = "rows", NEW i \in 1 .. Len(todo[s].rows)
                   PROVE  Key(todo[s].rows[i]) \in ClosedKeys(disk'[s])
        OBVIOUS
      <3>1. todo[s].op = "rows" /\ todo[s].rows \in Seq(Firing)
        BY <1>1, <2>1, CallOf, WriteFacts
      <3>2. todo[s].rows[i] \in ToSet(todo[s].rows)
        BY <3>1, ElementsOf
      <3> QED BY <2>3, <3>1, <3>2 DEF Holds
    <2> QED BY <1>1, <1>2, <1>3, <1>4, <2>2, <2>3, <2>4, <2>5, <2>6, Saved
  <1>6. ASSUME NEW q \in Sessions, q # s PROVE SessionOK(q)'
    <2>1. q \notin lock /\ q \notin lock'
      BY <1>3, <1>6
    <2>2. pc'[q] = pc[q] /\ todo'[q] = todo[q] /\ acked'[q] = acked[q]
      BY <1>1, <1>2, <1>6 DEF Return, Proceed, BackendsTypeOK
    <2> QED BY <1>1, <1>2, <1>4, <2>1, <2>2, Committed
  <1>7. LockOK'
    BY <1>2, <1>3, <1>4 DEF LockOK
  <1> QED BY <1>5, <1>6, <1>7 DEF BackendsInv

LEMMA SqliteFailsInv ==
  ASSUME BackendsInv, BackendsTypeOK', NEW s \in Sessions, SqliteFails(s)
  PROVE  BackendsInv'
  <1>1. BackendsTypeOK /\ LockOK /\ \A q \in Sessions : SessionOK(q)
    BY DEF BackendsInv
  <1>2. /\ setup.kind = "sqlite" /\ todo[s] # Nothing /\ lock \subseteq {s} /\ lock' = {} /\ Proceed(s)
        /\ faults' = faults + 1
        /\ harmed'[s] = harmed[s] \cup {Target(s)} /\ \A q \in Sessions \ {s} : harmed'[q] = harmed[q]
        /\ UNCHANGED <<setup, disk, tick, rollbacks, acked>>
    BY <1>1 DEF SqliteFails, BackendsTypeOK
  <1>3. \/ staged' = disk
        \/ staged'[s] \in Executed(s) /\ \A q \in Sessions \ {s} : staged'[q] = staged[q]
    BY <1>1 DEF SqliteFails, BackendsTypeOK
  <1>4. \A q \in Sessions : ~disk[q].open /\ ~staged[q].open
    BY <1>1, <1>2 DEF LockOK
  <1>5. SessionOK(s)'
    <2>1. staged'[s] = disk[s] \/ (staged'[s] \in Executed(s) /\ Target(s) \in harmed'[s])
      BY <1>2, <1>3
    <2>2. Grew(s) /\ StoreOK(s)'
      BY <1>1, <1>2, <1>4, <2>1, Released
    <2>3. InCall(s) /\ Position(s)
      BY <1>1 DEF SessionOK
    <2>4. pc[s] \in {"rows", "snapshot", "label"}
      BY <1>1, <1>2, <2>3, CallOf
    <2>5. /\ pc[s] = "rows" => HasRows(s)'
          /\ pc[s] = "snapshot" => <<"snapshot", tick[s]>> \in harmed'[s]
      BY <1>2 DEF HasRows, Target
    <2>6. InCall(s)' /\ Position(s)'
      BY <1>1, <1>2, <2>2, <2>3, <2>4, <2>5, Proceeded
    <2> QED BY <2>2, <2>6 DEF SessionOK
  <1>6. ASSUME NEW q \in Sessions, q # s PROVE SessionOK(q)'
    <2>1. InCall(q) /\ Position(q) /\ StoreOK(q) /\ q \notin lock /\ q \notin lock'
      BY <1>1, <1>2, <1>6 DEF SessionOK
    <2>2. pc'[q] = pc[q] /\ todo'[q] = todo[q]
      BY <1>1, <1>2, <1>6 DEF Proceed, BackendsTypeOK
    <2>3. Grew(q) /\ StoreOK(q)'
      <3>1. CASE staged'[q] = disk[q]
        BY <1>1, <1>2, <1>4, <1>6, <2>1, <3>1, Released
      <3>2. CASE staged'[q] = staged[q]
        <4>1. Same(q)
          BY <1>1, <1>2, <1>6, <3>2 DEF Same, BackendsTypeOK
        <4> QED BY <1>1, <2>1, <4>1, Quiet
      <3> QED BY <1>3, <1>6, <3>1, <3>2
    <2> QED BY <1>1, <1>2, <2>1, <2>2, <2>3, Bystander DEF SessionOK
  <1>7. LockOK'
    <2>1. \A x \in Executed(s) : ~x.open
      <3>1. Sound(staged[s]) /\ todo[s] \in Write
        BY <1>1, SoundStores, CallOf DEF SessionOK
      <3> QED BY <1>4, <3>1, PartsFacts DEF Executed
    <2>2. \A q \in Sessions : ~staged'[q].open
      BY <1>3, <1>4, <2>1
    <2> QED BY <1>2, <1>4, <2>2 DEF LockOK
  <1> QED BY <1>5, <1>6, <1>7 DEF BackendsInv

\* Every step of a runner, of a backend and every crash keeps the invariant.
THEOREM BackendsInvariant == Spec => []BackendsInv
  <1>1. Init => BackendsInv
    BY InitInv
  <1>2. BackendsInv /\ [Next]_vars => BackendsInv'
    <2> SUFFICES ASSUME BackendsInv, [Next]_vars PROVE BackendsInv'
      OBVIOUS
    <2>1. CASE Next
      <3>1. BackendsTypeOK'
        BY <2>1, StepTypes
      <3> QED BY <2>1, <3>1, RunTickInv, SkipInv, CheckpointInv, RollbackInv, JsonSaveInv, JsonFailsInv,
                 ExecuteInv, CommitInv, SqliteFailsInv, ResumeInv, CrashInv DEF Next
    <2>2. CASE UNCHANGED vars
      <3>1. BackendsTypeOK /\ LockOK /\ \A q \in Sessions : SessionOK(q)
        BY DEF BackendsInv
      <3>2. UNCHANGED <<setup, disk, staged, lock, pc, todo, tick, rollbacks, acked, harmed, faults>>
        BY <2>2 DEF vars
      <3>3. BackendsTypeOK'
        BY <3>1, <3>2 DEF BackendsTypeOK, Stored, Write, Targets, Nodes, Firing, Garbage, None
      <3>4. ASSUME NEW q \in Sessions PROVE SessionOK(q)'
        <4>1. InCall(q) /\ Position(q) /\ StoreOK(q)
          BY <3>1 DEF SessionOK
        <4>2. Same(q)
          BY <3>1, <3>2 DEF Same, BackendsTypeOK
        <4>3. StoreOK(q)' /\ Grew(q)
          BY <3>1, <3>2, <3>3, <4>1, <4>2, Quiet
        <4> QED BY <3>1, <3>2, <4>1, <4>3, Bystander DEF SessionOK
      <3>5. LockOK'
        BY <3>1, <3>2, Primed DEF LockOK, Nothing
      <3> QED BY <3>3, <3>4, <3>5 DEF BackendsInv
    <2> QED BY <2>1, <2>2
  <1> QED BY <1>1, <1>2, PTL DEF Spec

-----------------------------------------------------------------------------
(* What is kept, through failures and crashes *)

\* Files, transaction, lock and runners keep their types.
THEOREM BackendsTypes == Spec => []BackendsTypeOK
  <1>1. BackendsInv => BackendsTypeOK
    BY DEF BackendsInv
  <1> QED BY <1>1, BackendsInvariant, PTL

\* list_firings finds the lines that are not garbage.
LEMMA ListElements ==
  ASSUME NEW d \in Stored
  PROVE  /\ ListFirings(d) \in Seq(Firing)
         /\ \A x : x \in ToSet(ListFirings(d)) <=> x # Garbage /\ \E i \in 1 .. Len(d.log) : d.log[i] = x
         /\ ClosedKeys(d) \subseteq KeysOf(d)
  <1> DEFINE I == {i \in DOMAIN d.log : d.log[i] # Garbage}
             q == ListFirings(d)
  <1>1. d.log \in Lines /\ DOMAIN d.log = 1 .. Len(d.log) /\ Len(d.log) \in Nat
    BY StoredParts
  <1>2. q \in Lines /\ ToSet(q) = {d.log[i] : i \in I \cap (1 .. Len(d.log))}
    BY <1>1, SelectChosen, SelectElements DEF ListFirings, Lines
  <1>3. \A x : x \in ToSet(q) <=> x # Garbage /\ \E i \in 1 .. Len(d.log) : d.log[i] = x
    BY <1>1, <1>2
  <1> HIDE DEF q
  <1>4. q \in Seq(Firing)
    <2>1. \A i \in 1 .. Len(q) : q[i] \in ToSet(q) /\ q[i] \in Firing \cup {Garbage}
      BY <1>2, ElementsOf DEF Lines
    <2>2. \A i \in 1 .. Len(q) : q[i] \in Firing
      BY <1>3, <2>1
    <2> QED BY <1>2, <2>2 DEF Lines
  <1>5. ClosedKeys(d) \subseteq KeysOf(d)
    BY <1>3 DEF ClosedKeys, KeysOf, q
  <1> QED BY <1>3, <1>4, <1>5 DEF q

\* A firing whose save has returned can be read back; each fault costs at most
\* one, the first of its tick.
THEOREM FiringsAlwaysSurvive == Spec => []FiringsSurvive
  <1>1. ASSUME BackendsInv
        PROVE  FiringsSurvive
    <2> SUFFICES ASSUME NEW s \in Sessions
                 PROVE  LET lost == acked[s].firings \ KeysOf(disk[s])
                        IN /\ setup.kind = "sqlite" => lost = {}
                           /\ Cardinality(lost) <= faults
                           /\ \A f \in lost : f.node = FiringsOfTick(setup.plan, f.tick, 0)[1].node
                           /\ <<"rows", 0>> \notin harmed[s] => lost = {}
      BY DEF FiringsSurvive
    <2> DEFINE lost == acked[s].firings \ KeysOf(disk[s])
               most == acked[s].firings \ ClosedKeys(disk[s])
    <2>1. BackendsTypeOK /\ Survives(s) /\ disk[s] \in Stored
      BY <1>1 DEF BackendsInv, SessionOK, StoreOK, BackendsTypeOK
    <2>2. lost \subseteq most
      BY <2>1, ListElements
    <2>3. IsFiniteSet(most) /\ Cardinality(most) \in Nat
      BY <2>1, LostFinite
    <2>4. /\ setup.kind = "sqlite" => most = {}
          /\ Cardinality(most) + Spoiling(disk[s]) <= faults
          /\ \A f \in most : f.node = FiringsOfTick(setup.plan, f.tick, 0)[1].node
          /\ ~HasRows(s) => most = {}
      BY <2>1 DEF Survives
    <2> HIDE DEF lost, most
    <2>5. Cardinality(lost) \in Nat /\ Cardinality(lost) <= Cardinality(most)
      BY <2>2, <2>3, FS_Subset, FS_CardinalityType
    <2>6. Cardinality(lost) <= faults
      BY <2>1, <2>3, <2>4, <2>5, BackendsAssumption DEF Spoiling, BackendsTypeOK
    <2> QED BY <2>2, <2>4, <2>6 DEF HasRows, lost
  <1> QED BY <1>1, BackendsInvariant, PTL

-----------------------------------------------------------------------------
(* What a label loads, and which snapshot is the latest *)

\* The session has done its ticks one after the other, and saved a snapshot
\* after each.
Straight(s) == rollbacks = 0 /\ \A u \in 1 .. MaxTicks : <<"snapshot", u>> \notin harmed[s]

\* A label is stored for a save that returned or was begun since; a snapshot cut
\* short is one a fault has hit; and none is ahead of a session that never went
\* back.
Kept(s, d) ==
  /\ \A l \in Labels : \/ d.labels[l] \in acked[s].labels[l]
                       \/ setup.kind = "json" /\ <<"label", 0>> \in harmed[s] /\ d.labels[l] = None
  /\ \A t \in 1 .. MaxTicks : d.snaps[t] = "torn" => <<"snapshot", t>> \in harmed[s]
  /\ Straight(s) => \A t \in 1 .. MaxTicks : d.snaps[t] # "absent" => t <= tick[s]

KeptOK(s) ==
  /\ Kept(s, disk[s])
  /\ Kept(s, staged[s])
  /\ pc[s] = "label" => todo[s].tick \in acked[s].labels[todo[s].label]
  /\ pc[s] = "down" => staged[s] = disk[s]

\* What a write may make of the labels and snapshots of d.
Rewritten(d, e, w) ==
  /\ \/ e.labels = d.labels
     \/ w.op = "label" /\ e.labels = [d.labels EXCEPT ![w.label] = w.tick]
  /\ \/ e.snaps = d.snaps
     \/ w.op = "snapshot" /\ e.snaps = [d.snaps EXCEPT ![w.tick] = "whole"]

CutShort(d, e, w) ==
  \/ Rewritten(d, e, w)
  \/ w.op = "label" /\ e.snaps = d.snaps /\ e.labels = [l \in Labels |-> None]
  \/ w.op = "snapshot" /\ e.labels = d.labels /\ e.snaps = [d.snaps EXCEPT ![w.tick] = "torn"]

LEMMA AppendRewrites ==
  ASSUME NEW d \in Stored, NEW lines, NEW open, NEW w
  PROVE  Rewritten(d, AppendLines(d, lines, open), w)
  BY DEF Stored, AppendLines, Rewritten

LEMMA AppliedRewrites ==
  ASSUME NEW d \in Stored, NEW w \in Write
  PROVE  Rewritten(d, Applied(d, w), w)
  <1>1. CASE w.op = "rows"
    BY <1>1, AppendRewrites DEF Applied
  <1>2. CASE w.op = "snapshot"
    BY <1>2 DEF Applied, Rewritten, Stored
  <1>3. CASE w.op = "label"
    BY <1>3 DEF Applied, Rewritten, Stored
  <1> QED BY <1>1, <1>2, <1>3, WriteFacts

LEMMA PartsRewrite ==
  ASSUME NEW d \in Stored, NEW w \in Write, NEW e \in Parts(d, w)
  PROVE  Rewritten(d, e, w)
  <1>1. CASE w.op = "rows"
    BY <1>1, AppendRewrites DEF Parts
  <1>2. CASE w.op # "rows"
    BY <1>2, AppliedRewrites DEF Parts, Rewritten
  <1> QED BY <1>1, <1>2

LEMMA TornRewrites ==
  ASSUME NEW d \in Stored, NEW w \in Write, NEW e \in Torn(d, w)
  PROVE  CutShort(d, e, w)
  <1>1. CASE w.op = "rows"
    <2>1. PICK k \in 1 .. Len(w.rows) :
            \/ e = AppendLines(d, SubSeq(w.rows, 1, k), TRUE)
            \/ e = AppendLines(d, Append(SubSeq(w.rows, 1, k - 1), Garbage), TRUE)
      BY <1>1 DEF Torn
    <2>2. \A lines, open : Rewritten(d, AppendLines(d, lines, open), w)
      BY AppendRewrites
    <2> QED BY <2>1, <2>2 DEF CutShort
  <1>2. CASE w.op = "snapshot"
    BY <1>2 DEF Torn, CutShort, Stored
  <1>3. CASE w.op = "label"
    BY <1>3 DEF Torn, CutShort, Stored
  <1> QED BY <1>1, <1>2, <1>3, WriteFacts

\* What is kept of d, as the step leaves it.
KeptThen(s, d) ==
  /\ \A l \in Labels : \/ d.labels[l] \in acked'[s].labels[l]
                       \/ setup.kind = "json" /\ <<"label", 0>> \in harmed'[s] /\ d.labels[l] = None
  /\ \A t \in 1 .. MaxTicks : d.snaps[t] = "torn" => <<"snapshot", t>> \in harmed'[s]
  /\ rollbacks' = 0 /\ (\A u \in 1 .. MaxTicks : <<"snapshot", u>> \notin harmed'[s]) =>
       \A t \in 1 .. MaxTicks : d.snaps[t] # "absent" => t <= tick'[s]

LEMMA KeptPrimed ==
  ASSUME setup' = setup, NEW s, KeptThen(s, disk'[s]), KeptThen(s, staged'[s]),
         pc'[s] = "label" => todo'[s].tick \in acked'[s].labels[todo'[s].label],
         pc'[s] = "down" => staged'[s] = disk'[s]
  PROVE  KeptOK(s)'
  BY DEF KeptThen, KeptOK, Kept, Straight, None

\* Nothing that has been kept is lost while time goes on.
LEMMA KeptLater ==
  ASSUME BackendsTypeOK, BackendsTypeOK', NEW s \in Sessions, NEW d, Kept(s, d), harmed[s] \subseteq harmed'[s],
         \A l \in Labels : acked[s].labels[l] \subseteq acked'[s].labels[l],
         \/ rollbacks' = rollbacks /\ tick'[s] \in {tick[s], tick[s] + 1}
         \/ rollbacks' # 0
  PROVE  KeptThen(s, d)
  <1>1. rollbacks' = 0 => rollbacks = 0 /\ tick[s] <= tick'[s]
    <2>1. tick[s] \in Int
      BY DEF BackendsTypeOK
    <2> QED BY <2>1
  <1>2. tick[s] \in Int /\ tick'[s] \in Int
    BY DEF BackendsTypeOK
  <1>3. \A t \in 1 .. MaxTicks : t <= tick[s] /\ tick[s] <= tick'[s] => t <= tick'[s]
    BY <1>2
  <1> QED BY <1>1, <1>3 DEF Kept, KeptThen, Straight

\* What a call makes of what is stored.
LEMMA KeptWritten ==
  ASSUME BackendsTypeOK, BackendsTypeOK', NEW s \in Sessions, InCall(s), KeptOK(s),
         NEW d \in Stored, Kept(s, d), NEW e, Rewritten(d, e, todo[s]),
         harmed[s] \subseteq harmed'[s], rollbacks' = rollbacks, tick' = tick,
         \A l \in Labels : \/ acked[s].labels[l] \subseteq acked'[s].labels[l]
                           \/ /\ todo[s].op = "label" /\ l = todo[s].label /\ e.labels[l] = todo[s].tick
                              /\ todo[s].tick \in acked'[s].labels[l]
  PROVE  KeptThen(s, e)
  <1>1. /\ todo[s].op = "label" => pc[s] = "label" /\ todo[s].label \in Labels
        /\ todo[s].op = "snapshot" => todo[s].tick = tick[s] /\ tick[s] \in 1 .. MaxTicks
    BY CallOf
  <1>2. d.labels \in [Labels -> -1 .. MaxTicks] /\ d.snaps \in [1 .. MaxTicks -> {"absent", "torn", "whole"}]
    BY StoredParts
  <1>3. ASSUME NEW l \in Labels
        PROVE  \/ e.labels[l] \in acked'[s].labels[l]
               \/ setup.kind = "json" /\ <<"label", 0>> \in harmed'[s] /\ e.labels[l] = None
    <2>1. CASE e.labels[l] = d.labels[l]
      BY <2>1 DEF Kept
    <2>2. CASE e.labels[l] # d.labels[l]
      <3>1. todo[s].op = "label" /\ e.labels = [d.labels EXCEPT ![todo[s].label] = todo[s].tick]
        BY <2>2 DEF Rewritten
      <3>2. l = todo[s].label /\ e.labels[l] = todo[s].tick
        BY <1>2, <2>2, <3>1
      <3>3. todo[s].tick \in acked[s].labels[l]
        BY <1>1, <3>1, <3>2 DEF KeptOK
      <3> QED BY <3>2, <3>3
    <2> QED BY <2>1, <2>2
  <1>4. ASSUME NEW t \in 1 .. MaxTicks, e.snaps[t] # d.snaps[t]
        PROVE  e.snaps[t] = "whole" /\ t = tick[s]
    <2>1. todo[s].op = "snapshot" /\ e.snaps = [d.snaps EXCEPT ![todo[s].tick] = "whole"]
      BY <1>4 DEF Rewritten
    <2> QED BY <1>1, <1>2, <1>4, <2>1
  <1>5. \A t \in 1 .. MaxTicks : e.snaps[t] = "torn" => <<"snapshot", t>> \in harmed'[s]
    BY <1>4 DEF Kept
  <1>6. rollbacks' = 0 /\ (\A u \in 1 .. MaxTicks : <<"snapshot", u>> \notin harmed'[s]) =>
          \A t \in 1 .. MaxTicks : e.snaps[t] # "absent" => t <= tick'[s]
    <2> SUFFICES ASSUME rollbacks = 0, \A u \in 1 .. MaxTicks : <<"snapshot", u>> \notin harmed'[s],
                        NEW t \in 1 .. MaxTicks, e.snaps[t] # "absent"
                 PROVE  t <= tick[s]
      OBVIOUS
    <2>1. Straight(s)
      BY DEF Straight
    <2>2. CASE e.snaps[t] = d.snaps[t]
      BY <2>1, <2>2 DEF Kept
    <2>3. CASE e.snaps[t] # d.snaps[t]
      BY <1>4, <2>3
    <2> QED BY <2>2, <2>3
  <1> QED BY <1>3, <1>5, <1>6 DEF KeptThen

\* What a fault leaves of a call on files.
LEMMA KeptInterrupted ==
  ASSUME BackendsTypeOK, BackendsTypeOK', NEW s \in Sessions, SessionOK(s), KeptOK(s), setup.kind = "json",
         disk'[s] \in Parts(disk[s], todo[s]) \cup Torn(disk[s], todo[s]),
         harmed[s] \subseteq harmed'[s], HalfDone(s, disk'[s]) => Target(s) \in harmed'[s],
         UNCHANGED <<rollbacks, tick, acked>>
  PROVE  KeptThen(s, disk'[s])
  <1> DEFINE d == disk[s]
             e == disk'[s]
             w == todo[s]
  <1>1. InCall(s) /\ d \in Stored /\ w \in Write /\ Kept(s, d)
    BY CallOf DEF SessionOK, KeptOK, BackendsTypeOK
  <1>2. CASE Rewritten(d, e, w)
    BY <1>1, <1>2, KeptWritten
  <1>3. CASE ~Rewritten(d, e, w)
    <2>1. e \notin Parts(d, w)
      BY <1>1, <1>3, PartsRewrite
    <2>2. Target(s) \in harmed'[s] /\ CutShort(d, e, w)
      BY <1>1, <2>1, TornRewrites DEF HalfDone
    <2>3. KeptThen(s, d)
      BY <1>1, KeptLater
    <2>4. CASE w.op = "label" /\ e.snaps = d.snaps /\ e.labels = [l \in Labels |-> None]
      <3>1. <<"label", 0>> \in harmed'[s]
        BY <1>1, <2>2, <2>4, CallOf DEF Target
      <3>2. \A l \in Labels : e.labels[l] = None
        BY <2>4
      <3> HIDE DEF d, e
      <3>3. KeptThen(s, e)
        BY <2>3, <2>4, <3>1, <3>2 DEF KeptThen
      <3> QED BY <3>3 DEF e
    <2>5. CASE w.op = "snapshot" /\ e.labels = d.labels /\ e.snaps = [d.snaps EXCEPT ![w.tick] = "torn"]
      <3>1. <<"snapshot", tick[s]>> \in harmed'[s] /\ w.tick = tick[s] /\ tick[s] \in 1 .. MaxTicks
        BY <1>1, <2>2, <2>5, CallOf DEF Target
      <3>2. d.snaps \in [1 .. MaxTicks -> {"absent", "torn", "whole"}]
        BY <1>1, StoredParts
      <3>3. \A t \in 1 .. MaxTicks : t # tick[s] => e.snaps[t] = d.snaps[t]
        BY <2>5, <3>1, <3>2
      <3> HIDE DEF d, e
      <3>4. KeptThen(s, e)
        BY <2>3, <2>5, <3>1, <3>3 DEF KeptThen
      <3> QED BY <3>4 DEF e
    <2> QED BY <1>3, <2>2, <2>4, <2>5 DEF CutShort
  <1> QED BY <1>2, <1>3

\* A session whose acknowledged saves the step leaves alone.
LEMMA KeptQuiet ==
  ASSUME BackendsTypeOK, BackendsTypeOK', NEW s \in Sessions, KeptOK(s),
         UNCHANGED <<setup, rollbacks>>, tick'[s] = tick[s], acked'[s] = acked[s], harmed[s] \subseteq harmed'[s],
         disk'[s] \in {disk[s], staged[s]}, staged'[s] \in {disk[s], staged[s]},
         pc'[s] = "label" => pc[s] = "label" /\ todo'[s] = todo[s],
         pc'[s] = "down" => pc[s] = "down" \/ staged'[s] = disk'[s]
  PROVE  KeptOK(s)'
  <1>1. KeptThen(s, disk[s]) /\ KeptThen(s, staged[s])
    BY KeptLater DEF KeptOK
  <1>2. pc'[s] = "label" => todo'[s].tick \in acked'[s].labels[todo'[s].label]
    BY DEF KeptOK
  <1>3. pc'[s] = "down" => staged'[s] = disk'[s]
    BY DEF KeptOK
  <1> QED BY <1>1, <1>2, <1>3, KeptPrimed

\* The call of s is over.
LEMMA CallOver ==
  ASSUME BackendsTypeOK, NEW s \in Sessions, Proceed(s)
  PROVE  /\ pc'[s] \in {"snapshot", "idle"}
         /\ \A q \in Sessions \ {s} : pc'[q] = pc[q] /\ todo'[q] = todo[q]
  BY DEF Proceed, BackendsTypeOK

\* The call has returned, and its write is in e.
LEMMA KeptReturned ==
  ASSUME BackendsTypeOK, BackendsTypeOK', NEW s \in Sessions, SessionOK(s), KeptOK(s), todo[s] # Nothing,
         Return(s), UNCHANGED <<setup, tick, rollbacks, harmed>>,
         disk'[s] = staged'[s],
         \E d \in Stored : Kept(s, d) /\ Rewritten(d, disk'[s], todo[s]),
         pc[s] = "label" => disk'[s].labels[todo[s].label] = todo[s].tick
  PROVE  KeptOK(s)'
  <1>1. InCall(s) /\ Proceed(s) /\ todo[s].op = (IF pc[s] \in {"snapshot", "label"} THEN pc[s] ELSE "rows")
    BY CallOf DEF SessionOK, Return
  <1>2. PICK d \in Stored : Kept(s, d) /\ Rewritten(d, disk'[s], todo[s])
    OBVIOUS
  <1>3. acked'[s].labels = IF pc[s] = "label" THEN [acked[s].labels EXCEPT ![todo[s].label] = {todo[s].tick}]
                                              ELSE acked[s].labels
    BY DEF Return, BackendsTypeOK
  <1>4. acked[s].labels \in [Labels -> SUBSET (-1 .. MaxTicks)]
    BY DEF BackendsTypeOK
  <1>5. ASSUME NEW l \in Labels
        PROVE  \/ acked[s].labels[l] \subseteq acked'[s].labels[l]
               \/ /\ todo[s].op = "label" /\ l = todo[s].label /\ disk'[s].labels[l] = todo[s].tick
                  /\ todo[s].tick \in acked'[s].labels[l]
    BY <1>1, <1>3, <1>4
  <1>6. KeptThen(s, disk'[s])
    BY <1>1, <1>2, <1>5, KeptWritten
  <1> QED BY <1>1, <1>6, CallOver, KeptPrimed

LEMMA KeptStep ==
  ASSUME BackendsInv, BackendsTypeOK', \A s \in Sessions : KeptOK(s), Next
  PROVE  \A s \in Sessions : KeptOK(s)'
  <1>1. BackendsTypeOK /\ LockOK /\ \A q \in Sessions : SessionOK(q) /\ InCall(q) /\ disk[q] \in Stored /\ staged[q] \in Stored
    BY DEF BackendsInv, SessionOK, BackendsTypeOK
  <1>2. ASSUME NEW s \in Sessions, RunTick(s) \/ SkipEmptyBatch(s) PROVE \A q \in Sessions : KeptOK(q)'
    <2>1. /\ UNCHANGED <<setup, disk, staged, rollbacks, acked, harmed>>
          /\ \A q \in Sessions : tick'[q] = tick[q] \/ tick'[q] = tick[q] + 1
          /\ pc'[s] \notin {"label", "down"}
          /\ \A q \in Sessions \ {s} : pc'[q] = pc[q] /\ todo'[q] = todo[q]
      <3>1. CASE RunTick(s)
        BY <1>1, <3>1 DEF RunTick, BackendsTypeOK
      <3>2. CASE SkipEmptyBatch(s)
        BY <1>1, <3>2, CallOver DEF SkipEmptyBatch
      <3> QED BY <1>2, <3>1, <3>2
    <2>2. ASSUME NEW q \in Sessions PROVE KeptOK(q)'
      <3>2. KeptThen(q, disk'[q]) /\ KeptThen(q, staged'[q])
        BY <1>1, <2>1, KeptLater DEF KeptOK
      <3>3. pc'[q] \in {"label", "down"} => pc'[q] = pc[q] /\ todo'[q] = todo[q]
        BY <2>1
      <3> QED BY <2>1, <3>2, <3>3, KeptPrimed DEF KeptOK
    <2> QED BY <2>2
  <1>3. ASSUME NEW s \in Sessions, NEW l \in Labels, Checkpoint(s, l) PROVE \A q \in Sessions : KeptOK(q)'
    <2>1. /\ UNCHANGED <<setup, disk, staged, rollbacks, harmed, tick>> /\ pc'[s] = "label"
          /\ todo'[s] = [op |-> "label", label |-> l, tick |-> tick[s]]
          /\ acked' = [acked EXCEPT ![s].labels[l] = @ \cup {tick[s]}]
          /\ \A q \in Sessions \ {s} : pc'[q] = pc[q] /\ todo'[q] = todo[q]
      BY <1>1, <1>3 DEF Checkpoint, BackendsTypeOK
    <2>2. /\ \A q \in Sessions : \A k \in Labels : acked[q].labels[k] \subseteq acked'[q].labels[k]
          /\ tick[s] \in acked'[s].labels[l]
      BY <1>1, <2>1 DEF BackendsTypeOK
    <2>3. ASSUME NEW q \in Sessions PROVE KeptOK(q)'
      <3>2. KeptThen(q, disk'[q]) /\ KeptThen(q, staged'[q])
        BY <1>1, <2>1, <2>2, KeptLater DEF KeptOK
      <3>3. pc'[q] = "down" => staged'[q] = disk'[q]
        BY <2>1 DEF KeptOK
      <3>4. pc'[q] = "label" => todo'[q].tick \in acked'[q].labels[todo'[q].label]
        <4>1. CASE q = s
          BY <2>1, <2>2, <4>1
        <4>2. CASE q # s
          <5>1. pc[q] = "label" => todo[q].label \in Labels
            BY <1>1, CallOf
          <5> QED BY <2>1, <2>2, <4>2, <5>1 DEF KeptOK
        <4> QED BY <4>1, <4>2
      <3> QED BY <2>1, <3>2, <3>3, <3>4, KeptPrimed
    <2> QED BY <2>3
  <1>4. ASSUME NEW s \in Sessions, NEW l \in Labels, Rollback(s, l) PROVE \A q \in Sessions : KeptOK(q)'
    <2>1. UNCHANGED <<setup, disk, staged, acked, harmed, pc, todo>> /\ rollbacks' = rollbacks + 1
      BY <1>4 DEF Rollback
    <2>2. ASSUME NEW q \in Sessions PROVE KeptOK(q)'
      <3>1. rollbacks' # 0
        BY <1>1, <2>1, BackendsAssumption DEF BackendsTypeOK
      <3>2. KeptThen(q, disk'[q]) /\ KeptThen(q, staged'[q])
        BY <1>1, <2>1, <3>1, KeptLater DEF KeptOK
      <3> QED BY <2>1, <3>2, KeptPrimed DEF KeptOK
    <2> QED BY <2>2
  <1>5. ASSUME NEW s \in Sessions, JsonSave(s) PROVE \A q \in Sessions : KeptOK(q)'
    <2>1. /\ setup.kind = "json" /\ todo[s] # Nothing /\ staged' = disk' /\ Return(s) /\ Proceed(s)
          /\ disk'[s] = Applied(disk[s], todo[s]) /\ \A q \in Sessions \ {s} : disk'[q] = disk[q]
          /\ UNCHANGED <<setup, tick, rollbacks, harmed>>
          /\ \A q \in Sessions \ {s} : acked'[q] = acked[q]
      BY <1>1, <1>5 DEF JsonSave, Return, BackendsTypeOK
    <2>2. KeptOK(s)'
      <3>1. Sound(disk[s]) /\ todo[s] \in Write /\ (pc[s] = "label" => todo[s].op = "label")
        BY <1>1, SoundStores, CallOf DEF SessionOK
      <3>2. Rewritten(disk[s], disk'[s], todo[s])
        BY <1>1, <2>1, <3>1, AppliedRewrites
      <3>3. pc[s] = "label" => disk'[s].labels[todo[s].label] = todo[s].tick
        <4> SUFFICES ASSUME pc[s] = "label" PROVE disk'[s].labels[todo[s].label] = todo[s].tick
          OBVIOUS
        <4>1. Holds(Applied(disk[s], todo[s]), todo[s]) /\ todo[s].op = "label"
          BY <3>1, OtherParts
        <4> QED BY <2>1, <4>1 DEF Holds
      <3> QED BY <1>1, <2>1, <3>2, <3>3, KeptReturned DEF KeptOK
    <2>3. ASSUME NEW q \in Sessions, q # s PROVE KeptOK(q)'
      <3>1. pc'[q] = pc[q] /\ todo'[q] = todo[q]
        BY <1>1, <2>1, <2>3, CallOver
      <3> QED BY <1>1, <2>1, <2>3, <3>1, KeptQuiet
    <2> QED BY <2>2, <2>3
  <1>6. ASSUME NEW s \in Sessions, JsonFails(s) PROVE \A q \in Sessions : KeptOK(q)'
    <2>1. /\ setup.kind = "json" /\ staged' = disk' /\ Proceed(s)
          /\ disk'[s] \in Parts(disk[s], todo[s]) \cup Torn(disk[s], todo[s])
          /\ \A q \in Sessions \ {s} : disk'[q] = disk[q] /\ harmed'[q] = harmed[q]
          /\ harmed'[s] = harmed[s] \cup {Target(s)}
          /\ UNCHANGED <<setup, tick, rollbacks, acked>>
      BY <1>1, <1>6 DEF JsonFails, BackendsTypeOK
    <2>2. KeptOK(s)'
      <3>1. KeptThen(s, disk'[s])
        BY <1>1, <2>1, KeptInterrupted
      <3> QED BY <1>1, <2>1, <3>1, CallOver, KeptPrimed
    <2>3. ASSUME NEW q \in Sessions, q # s PROVE KeptOK(q)'
      <3>1. pc'[q] = pc[q] /\ todo'[q] = todo[q]
        BY <1>1, <2>1, <2>3, CallOver
      <3> QED BY <1>1, <2>1, <2>3, <3>1, KeptQuiet
    <2> QED BY <2>2, <2>3
  <1>7. ASSUME NEW s \in Sessions, Execute(s) PROVE \A q \in Sessions : KeptOK(q)'
    <2>1. /\ staged'[s] = Applied(staged[s], todo[s]) /\ \A q \in Sessions \ {s} : staged'[q] = staged[q]
          /\ UNCHANGED <<setup, disk, pc, todo, tick, rollbacks, acked, harmed>> /\ todo[s] # Nothing
      BY <1>1, <1>7 DEF Execute, BackendsTypeOK
    <2>2. KeptOK(s)'
      <3>1. todo[s] \in Write /\ pc[s] # "down"
        BY <1>1, <2>1, CallOf
      <3>2. KeptThen(s, staged'[s])
        BY <1>1, <2>1, <3>1, AppliedRewrites, KeptWritten DEF KeptOK
      <3>3. KeptThen(s, disk'[s])
        BY <1>1, <2>1, KeptLater DEF KeptOK
      <3> QED BY <2>1, <3>1, <3>2, <3>3, KeptPrimed DEF KeptOK
    <2>3. ASSUME NEW q \in Sessions, q # s PROVE KeptOK(q)'
      BY <1>1, <2>1, <2>3, KeptQuiet
    <2> QED BY <2>2, <2>3
  <1>8. ASSUME NEW s \in Sessions, Commit(s) PROVE \A q \in Sessions : KeptOK(q)'
    <2>1. /\ s \in lock /\ disk' = staged /\ staged' = staged /\ Return(s) /\ Proceed(s)
          /\ UNCHANGED <<setup, tick, rollbacks, harmed>>
          /\ \A q \in Sessions \ {s} : acked'[q] = acked[q]
      BY <1>1, <1>8 DEF Commit, Return, BackendsTypeOK
    <2>2. todo[s] # Nothing /\ Holds(staged[s], todo[s]) /\ (pc[s] = "label" => todo[s].op = "label")
      BY <1>1, <2>1, CallOf DEF LockOK
    <2>3. KeptOK(s)'
      <3>1. pc[s] = "label" => disk'[s].labels[todo[s].label] = todo[s].tick
        BY <2>1, <2>2 DEF Holds
      <3>2. Rewritten(staged[s], disk'[s], todo[s])
        BY <2>1 DEF Rewritten
      <3> QED BY <1>1, <2>1, <2>2, <3>1, <3>2, KeptReturned DEF KeptOK
    <2>4. ASSUME NEW q \in Sessions, q # s PROVE KeptOK(q)'
      <3>1. pc'[q] = pc[q] /\ todo'[q] = todo[q]
        BY <1>1, <2>1, <2>4, CallOver
      <3> QED BY <1>1, <2>1, <2>4, <3>1, KeptQuiet
    <2> QED BY <2>3, <2>4
  <1>9. ASSUME NEW s \in Sessions, SqliteFails(s) PROVE \A q \in Sessions : KeptOK(q)'
    <2>1. /\ Proceed(s) /\ UNCHANGED <<setup, disk, tick, rollbacks, acked>>
          /\ \A q \in Sessions : harmed[q] \subseteq harmed'[q]
          /\ \/ staged' = disk
             \/ staged'[s] \in Executed(s) /\ \A q \in Sessions \ {s} : staged'[q] = staged[q]
      BY <1>1, <1>9 DEF SqliteFails, BackendsTypeOK
    <2>2. KeptOK(s)'
      <3>1. KeptThen(s, disk[s]) /\ KeptThen(s, staged[s])
        BY <1>1, <2>1, KeptLater DEF KeptOK
      <3>2. KeptThen(s, staged'[s])
        <4>1. CASE staged'[s] \in {disk[s], staged[s]}
          BY <3>1, <4>1
        <4>2. CASE staged'[s] \in Parts(staged[s], todo[s])
          <5>1. todo[s] \in Write
            BY <1>1, CallOf
          <5>2. Rewritten(staged[s], staged'[s], todo[s])
            BY <1>1, <4>2, <5>1, PartsRewrite
          <5> QED BY <1>1, <2>1, <5>2, KeptWritten DEF KeptOK
        <4> QED BY <2>1, <4>1, <4>2 DEF Executed
      <3> QED BY <1>1, <2>1, <3>1, <3>2, CallOver, KeptPrimed
    <2>3. ASSUME NEW q \in Sessions, q # s PROVE KeptOK(q)'
      <3>1. pc'[q] = pc[q] /\ todo'[q] = todo[q] /\ staged'[q] \in {disk[q], staged[q]}
        BY <1>1, <2>1, <2>3, CallOver
      <3>2. pc'[q] = "down" => pc[q] = "down" \/ staged'[q] = disk'[q]
        BY <3>1
      <3> QED BY <1>1, <2>1, <2>3, <3>1, <3>2, KeptQuiet
    <2> QED BY <2>2, <2>3
  <1>10. ASSUME NEW s \in Sessions, Resume(s) PROVE \A q \in Sessions : KeptOK(q)'
    <2>1. PICK m \in Restorable(s) : tick' = [tick EXCEPT ![s] = m]
      BY <1>10 DEF Resume
    <2>2. /\ UNCHANGED <<setup, disk, staged, todo, rollbacks, acked, harmed>> /\ pc[s] = "down" /\ pc'[s] = "idle"
          /\ tick'[s] = m /\ \A q \in Sessions \ {s} : pc'[q] = pc[q] /\ tick'[q] = tick[q]
      BY <1>1, <1>10, <2>1 DEF Resume, BackendsTypeOK
    <2>3. KeptOK(s)'
      <3>1. Kept(s, disk[s]) /\ staged[s] = disk[s]
        BY <2>2 DEF KeptOK
      <3>2. ASSUME rollbacks' = 0, \A u \in 1 .. MaxTicks : <<"snapshot", u>> \notin harmed'[s],
                   NEW t \in 1 .. MaxTicks, disk[s].snaps[t] # "absent"
            PROVE  t <= tick'[s]
        <4>1. t \in ListSnapshots(disk[s])
          BY <3>2 DEF ListSnapshots
        <4>2. \A u \in ListSnapshots(disk[s]) : Loads(disk[s], u)
          <5>1. disk[s].snaps \in [1 .. MaxTicks -> {"absent", "torn", "whole"}]
            BY <1>1, StoredParts
          <5> QED BY <2>2, <3>1, <3>2, <5>1 DEF Kept, ListSnapshots, Loads
        <4>3. m = LatestTick(disk[s])
          BY <4>1, <4>2, RestorableTicks
        <4> QED BY <2>2, <4>1, <4>3, LatestIs
      <3>3. KeptThen(s, disk[s])
        BY <2>2, <3>1, <3>2 DEF Kept, KeptThen
      <3> QED BY <2>2, <3>1, <3>3, KeptPrimed
    <2>4. ASSUME NEW q \in Sessions, q # s PROVE KeptOK(q)'
      BY <1>1, <2>2, <2>4, KeptQuiet
    <2> QED BY <2>3, <2>4
  <1>11. ASSUME Crash PROVE \A q \in Sessions : KeptOK(q)'
    <2>1. PICK left \in [Sessions -> UNION {Remains(s) : s \in Sessions}] :
            /\ \A s \in Sessions : left[s] \in Remains(s)
            /\ disk' = left
            /\ harmed' = [s \in Sessions |->
                            harmed[s] \cup IF HalfDone(s, left[s]) THEN {Target(s)} ELSE {}]
      BY <1>11 DEF Crash
    <2>2. /\ staged' = disk' /\ UNCHANGED <<setup, tick, rollbacks, acked>>
          /\ \A s \in Sessions : pc'[s] \in {"down", "idle"}
      BY <1>11 DEF Crash
    <2>3. setup.kind \in {"json", "sqlite"}
      BY <1>1, BackendsAssumption DEF BackendsTypeOK, IsSetup
    <2>4. ASSUME NEW q \in Sessions PROVE KeptOK(q)'
      <3>1. disk'[q] \in Remains(q) /\ harmed[q] \subseteq harmed'[q] /\ (HalfDone(q, disk'[q]) => Target(q) \in harmed'[q])
        BY <2>1 DEF Remains
      <3>2. KeptThen(q, disk'[q])
        <4>1. CASE setup.kind = "json"
          BY <1>1, <2>2, <3>1, <4>1, KeptInterrupted DEF Remains
        <4>2. CASE setup.kind = "sqlite"
          <5>1. disk'[q] = disk[q]
            BY <3>1, <4>2 DEF Remains
          <5> QED BY <1>1, <2>2, <3>1, <5>1, KeptLater DEF KeptOK
        <4> QED BY <2>3, <4>1, <4>2
      <3> QED BY <2>2, <3>2, KeptPrimed
    <2> QED BY <2>4
  <1> QED BY <1>2, <1>3, <1>4, <1>5, <1>6, <1>7, <1>8, <1>9, <1>10, <1>11 DEF Next

\* What is kept of labels and snapshots, in every state.
THEOREM KeptInvariant == Spec => [](\A s \in Sessions : KeptOK(s))
  <1>1. Init => \A s \in Sessions : KeptOK(s)
    <2> SUFFICES ASSUME Init, NEW s \in Sessions PROVE KeptOK(s)
      OBVIOUS
    <2>1. /\ disk[s] = Empty /\ staged[s] = Empty /\ pc[s] = "idle"
          /\ \A l \in Labels : acked[s].labels[l] = {None}
      BY DEF Init
    <2>2. \A t \in 1 .. MaxTicks : Empty.snaps[t] = "absent"
      BY DEF Empty
    <2> QED BY <2>1, <2>2, EmptyFacts DEF KeptOK, Kept
  <1>2. BackendsInv /\ BackendsTypeOK' /\ (\A s \in Sessions : KeptOK(s)) /\ [Next]_vars =>
          (\A s \in Sessions : KeptOK(s))'
    <2> SUFFICES ASSUME BackendsInv, BackendsTypeOK', \A s \in Sessions : KeptOK(s), [Next]_vars
                 PROVE  \A s \in Sessions : KeptOK(s)'
      OBVIOUS
    <2>1. CASE Next
      BY <2>1, KeptStep
    <2>2. CASE UNCHANGED vars
      <3>1. UNCHANGED <<setup, disk, staged, pc, todo, tick, rollbacks, acked, harmed>> /\ BackendsTypeOK
        BY <2>2 DEF vars, BackendsInv
      <3> QED BY <3>1, KeptQuiet
    <2> QED BY <2>1, <2>2
  <1> QED BY <1>1, <1>2, BackendsInvariant, BackendsTypes, PTL DEF Spec

\* A label loads what the last save_checkpoint that returned has saved under it,
\* or what one begun since has; a checkpoints.json cut short takes all along.
THEOREM CheckpointsAlwaysSurvive == Spec => []CheckpointsSurvive
  <1>1. (\A s \in Sessions : KeptOK(s)) => CheckpointsSurvive
    BY DEF KeptOK, Kept, CheckpointsSurvive
  <1> QED BY <1>1, KeptInvariant, PTL

\* After a crash, latest_tick is at most one tick back, loads, and lies ahead
\* only if the session had gone back, but for snapshots a fault has hit.
THEOREM CrashAlwaysCostsOneTick == Spec => []CrashCostsOneTick
  <1>1. ASSUME BackendsInv, \A s \in Sessions : KeptOK(s)
        PROVE  CrashCostsOneTick
    <2> DEFINE last(s) == LatestTick(disk[s])
    <2> SUFFICES ASSUME NEW s \in Sessions, pc[s] = "down"
                 PROVE  /\ tick[s] > 1 => last(s) >= tick[s] - 1 \/ <<"snapshot", tick[s] - 1>> \in harmed[s]
                        /\ last(s) # None => Loads(disk[s], last(s)) \/ <<"snapshot", last(s)>> \in harmed[s]
                        /\ last(s) > tick[s] => \/ rollbacks > 0
                                                \/ \E t \in 1 .. MaxTicks : <<"snapshot", t>> \in harmed[s]
      BY DEF CrashCostsOneTick
    <2>1. /\ BackendsTypeOK /\ Position(s) /\ Kept(s, disk[s])
          /\ disk[s].snaps \in [1 .. MaxTicks -> {"absent", "torn", "whole"}]
      BY <1>1, StoredParts DEF BackendsInv, SessionOK, KeptOK, BackendsTypeOK
    <2>2. tick[s] \in 0 .. MaxTicks /\ rollbacks \in Nat /\ MaxTicks \in Nat
      BY <2>1, BackendsAssumption DEF BackendsTypeOK
    <2>3. \/ ListSnapshots(disk[s]) = {} /\ last(s) = None
          \/ /\ last(s) \in ListSnapshots(disk[s]) /\ last(s) \in 1 .. MaxTicks
             /\ \A t \in ListSnapshots(disk[s]) : t <= last(s)
      BY LatestIs
    <2> HIDE DEF last
    <2>4. ASSUME tick[s] > 1, <<"snapshot", tick[s] - 1>> \notin harmed[s]
          PROVE  last(s) >= tick[s] - 1
      <3>1. tick[s] - 1 \in 1 .. tick[s] - 1 /\ tick[s] - 1 \in 1 .. MaxTicks
        BY <2>2, <2>4
      <3>2. Loads(disk[s], tick[s] - 1)
        BY <2>1, <2>4, <3>1 DEF Position, Covered
      <3>3. tick[s] - 1 \in ListSnapshots(disk[s])
        BY <3>1, <3>2 DEF ListSnapshots, Loads
      <3> QED BY <2>2, <2>3, <3>1, <3>3
    <2>5. ASSUME last(s) # None
          PROVE  Loads(disk[s], last(s)) \/ <<"snapshot", last(s)>> \in harmed[s]
      <3>1. last(s) \in 1 .. MaxTicks /\ disk[s].snaps[last(s)] # "absent"
        BY <2>3, <2>5 DEF ListSnapshots
      <3> QED BY <2>1, <3>1 DEF Kept, Loads
    <2>6. ASSUME last(s) > tick[s], \A t \in 1 .. MaxTicks : <<"snapshot", t>> \notin harmed[s]
          PROVE  rollbacks > 0
      <3>1. last(s) \in 1 .. MaxTicks /\ disk[s].snaps[last(s)] # "absent"
        BY <2>2, <2>3, <2>6 DEF ListSnapshots, None
      <3>2. ~Straight(s)
        BY <2>1, <2>2, <2>6, <3>1 DEF Kept
      <3> QED BY <2>2, <2>6, <3>2 DEF Straight
    <2> QED BY <2>4, <2>5, <2>6
  <1> QED BY <1>1, BackendsInvariant, KeptInvariant, PTL

-----------------------------------------------------------------------------
(* The order of what is found *)

LessThan == {p \in Int \X Int : p[1] < p[2]}
ByTick   == {p \in Firing \X Firing : p[1].tick < p[2].tick}

LEMMA TickOrders ==
  /\ \A x, y \in Int : <<x, y>> \in LessThan <=> x < y
  /\ Asymmetric(LessThan)
  /\ \A f, g \in Firing : <<f, g>> \in ByTick <=> f.tick < g.tick
  /\ \A f \in Firing : f.tick \in Int
  <1>1. \A x, y : <<x, y>> \in LessThan <=> x \in Int /\ y \in Int /\ x < y
    BY DEF LessThan
  <1>2. \A f, g \in Firing : <<f, g>> \in ByTick <=> f.tick < g.tick
    BY DEF ByTick
  <1>3. \A f \in Firing : f.tick \in Int
    BY BackendsAssumption DEF Firing
  <1> QED BY <1>1, <1>2, <1>3 DEF Asymmetric

\* Without garbage, list_firings finds every line.
LEMMA CleanListed ==
  ASSUME NEW d, d.log \in Seq(Firing)
  PROVE  ListFirings(d) = d.log
  <1> DEFINE I == {i \in DOMAIN d.log : d.log[i] # Garbage}
             log == d.log
  <1>1. log \in Seq(Firing) /\ Len(log) \in 0 .. Len(log) /\ DOMAIN log = 1 .. Len(log)
    OBVIOUS
  <1>2. \A i \in 1 .. Len(log) : log[i] # Garbage
    BY <1>1, FiringTypes
  <1>3. I \cap (1 .. Len(log)) = 1 .. Len(log)
    BY <1>1, <1>2
  <1>4. ListFirings(d) = Select(log, I)
    BY DEF ListFirings
  <1> HIDE DEF I, log
  <1>5. Select(log, I) = SubSeq(log, 1, Len(log))
    BY <1>1, <1>3, SelectPrefix
  <1>6. SubSeq(log, 1, Len(log)) = log
    BY <1>1, WholeSequence
  <1> QED BY <1>4, <1>5, <1>6 DEF log

\* A history holds no garbage.
LEMMA HistoryListed ==
  ASSUME NEW d \in Stored, History(d.log)
  PROVE  d.log \in Seq(Firing) /\ ListFirings(d) = d.log
  <1>1. d.log \in Lines /\ \A i \in 1 .. Len(d.log) : d.log[i] \in Firing
    BY StoredParts DEF History
  <1>2. d.log \in Seq(Firing)
    BY <1>1 DEF Lines
  <1> QED BY <1>2, CleanListed

\* The firings of a node are found in the order of their ticks.
LEMMA FoundTicks ==
  ASSUME BackendsTypeOK, NEW d \in Stored, History(d.log), NEW n
  PROVE  LET found == TicksOf(JsonFiringsOf(d, n))
         IN /\ found \in Seq(Int) /\ Sorted(found, LessThan)
            /\ \A u : u \in ToSet(found) <=> \E i \in 1 .. Len(d.log) : d.log[i].tick = u /\ d.log[i].node = n
  <1> DEFINE log == d.log
             I == {i \in DOMAIN log : log[i].node = n}
             g == Select(log, I)
             k == KeepFirst(g)
             found == TicksOf(k)
  <1>1. log \in Seq(Firing) /\ ListFirings(d) = log /\ History(log) /\ DOMAIN log = 1 .. Len(log) /\ Len(log) \in Nat
    BY HistoryListed, StoredParts
  <1>2. JsonFiringsOf(d, n) = k
    BY <1>1 DEF JsonFiringsOf, FiringsOf
  <1> HIDE DEF log
  <1>3. g \in Seq(Firing) /\ ToSet(g) = {f \in ToSet(log) : f.node = n}
    <2>1. g = FiringsOf(log, n)
      BY DEF FiringsOf
    <2> HIDE DEF g
    <2>2. g \in Seq(Firing)
      BY <1>1, <2>1, LogsTyped
    <2>3. ToSet(g) = {f \in ToSet(log) : f.node = n}
      BY <1>1, <2>1, FiringsOfElements
    <2> QED BY <2>2, <2>3
  <1>4. PICK e : Chosen(e, g, log, I)
    <2> HIDE DEF I
    <2> QED BY <1>1, SelectChosen
  <1>5. /\ \A a \in 1 .. Len(g) : g[a] = log[e[a]] /\ e[a] \in 1 .. Len(log)
        /\ \A a, b \in 1 .. Len(g) : a < b => e[a] < e[b]
        /\ \A i \in 1 .. Len(log) : log[i].node = n => \E a \in 1 .. Len(g) : e[a] = i
        /\ Len(g) \in Nat
    <2> HIDE DEF g
    <2> QED BY <1>1, <1>3, <1>4, ElementsOf DEF Chosen
  <1> HIDE DEF g, I
  <1>6. \A f \in ToSet(g) : f \in Firing /\ f.node = n
    BY <1>3, ElementsOf
  <1>7. \A x, y \in ToSet(g) : <<x, y>> \in ByTick \/ <<y, x>> \in ByTick \/ SameKey(x, y)
    <2> SUFFICES ASSUME NEW x \in ToSet(g), NEW y \in ToSet(g)
                 PROVE  <<x, y>> \in ByTick \/ <<y, x>> \in ByTick \/ SameKey(x, y)
      OBVIOUS
    <2>1. x \in Firing /\ y \in Firing /\ x.node = y.node /\ x.tick \in Int /\ y.tick \in Int
      BY <1>6, TickOrders
    <2>2. (<<x, y>> \in ByTick <=> x.tick < y.tick) /\ (<<y, x>> \in ByTick <=> y.tick < x.tick)
      BY <2>1, TickOrders
    <2>3. x.tick < y.tick \/ y.tick < x.tick \/ x.tick = y.tick
      BY <2>1
    <2> QED BY <2>1, <2>2, <2>3 DEF SameKey
  <1>8. ASSUME NEW i \in 1 .. Len(g), NEW f \in ToSet(g), <<f, g[i]>> \in ByTick
        PROVE  \E j \in 1 .. i - 1 : SameKey(g[j], f)
    <2>1. g[i] \in ToSet(g) /\ f \in ToSet(log) /\ f.node = n /\ g[i].node = n
      BY <1>3, <1>6, ElementsOf
    <2>2. f.tick < g[i].tick
      BY <1>6, <1>8, <2>1, TickOrders
    <2>3. PICK a \in 1 .. Len(log) : log[a] = f
      BY <1>1, <2>1, ElementsOf
    <2>4. f.tick \in DOMAIN setup.plan /\ n \in setup.plan[f.tick]
      BY <1>1, <2>1, <2>3 DEF History
    <2>5. g[i] = log[e[i]] /\ e[i] \in 1 .. Len(log)
      BY <1>5
    <2>6. PICK b \in 1 .. e[i] - 1 : log[b].tick = f.tick /\ log[b].node = n
      BY <1>1, <2>1, <2>2, <2>4, <2>5 DEF History
    <2>7. b \in 1 .. Len(log)
      BY <1>1, <2>5, <2>6
    <2>8. PICK j \in 1 .. Len(g) : e[j] = b
      BY <1>5, <2>6, <2>7
    <2>9. ~(i < j) /\ i # j
      BY <1>5, <2>5, <2>6, <2>7, <2>8
    <2>10. j \in 1 .. i - 1
      BY <1>5, <2>9
    <2>11. SameKey(g[j], f)
      BY <1>5, <2>1, <2>6, <2>8 DEF SameKey
    <2> QED BY <2>10, <2>11
  <1>9. k \in Seq(Firing) /\ Sorted(k, ByTick)
    BY <1>3, <1>7, <1>8, LogsTyped, KeepFirstSorted
  <1>10. ToSet(k) \subseteq ToSet(g) /\ \A x \in ToSet(g) : \E y \in ToSet(k) : SameKey(x, y)
    BY <1>3, KeepFirstKeys
  <1> HIDE DEF k
  <1>11. DOMAIN k = 1 .. Len(k) /\ Len(k) \in Nat /\ \A i \in 1 .. Len(k) : k[i] \in Firing /\ k[i].tick \in Int
    BY <1>9, TickOrders
  <1>12. found = [i \in 1 .. Len(k) |-> k[i].tick]
    BY <1>11 DEF TicksOf
  <1> HIDE DEF found
  <1>13. found \in Seq(Int) /\ Len(found) = Len(k)
    BY <1>11, <1>12
  <1>14. Sorted(found, LessThan)
    <2> SUFFICES ASSUME NEW i \in 1 .. Len(found), NEW j \in 1 .. Len(found), i < j
                 PROVE  <<found[i], found[j]>> \in LessThan
      BY DEF Sorted
    <2>1. <<k[i], k[j]>> \in ByTick
      BY <1>9, <1>13 DEF Sorted
    <2> QED BY <1>11, <1>12, <1>13, <2>1, TickOrders
  <1>15. ASSUME NEW u
         PROVE  u \in ToSet(found) <=> \E i \in 1 .. Len(log) : log[i].tick = u /\ log[i].node = n
    <2>1. u \in ToSet(found) <=> \E x \in ToSet(k) : x.tick = u
      <3>1. u \in ToSet(found) <=> \E i \in 1 .. Len(k) : k[i].tick = u
        <4>1. u \in ToSet(found) <=> \E i \in 1 .. Len(found) : found[i] = u
          BY <1>13, ElementsOf
        <4>2. \A i \in 1 .. Len(k) : found[i] = k[i].tick
          BY <1>12
        <4> QED BY <1>13, <4>1, <4>2
      <3>2. \A x : x \in ToSet(k) <=> \E i \in 1 .. Len(k) : k[i] = x
        BY <1>9, ElementsOf
      <3> QED BY <3>1, <3>2
    <2>2. (\E x \in ToSet(k) : x.tick = u) <=> \E x \in ToSet(g) : x.tick = u
      BY <1>10 DEF SameKey
    <2>3. (\E x \in ToSet(g) : x.tick = u) <=> \E i \in 1 .. Len(log) : log[i].tick = u /\ log[i].node = n
      <3>1. \A x : x \in ToSet(log) <=> \E i \in 1 .. Len(log) : log[i] = x
        BY <1>1, ElementsOf
      <3> QED BY <1>3, <3>1
    <2> QED BY <2>1, <2>2, <2>3
  <1> QED BY <1>2, <1>13, <1>14, <1>15 DEF found, log

LEMMA PlannedFacts ==
  ASSUME BackendsTypeOK, NEW n, NEW t \in Int
  PROVE  LET p == PlannedTicks(n, t)
         IN /\ p \in Seq(Int) /\ Sorted(p, LessThan)
            /\ \A u : u \in ToSet(p) <=> u < t /\ u \in DOMAIN setup.plan /\ n \in setup.plan[u]
  <1> DEFINE ticks == [i \in 1 .. MaxTicks |-> i - 1]
             Planned(u) == u < t /\ u \in DOMAIN setup.plan /\ n \in setup.plan[u]
             I == {i \in 1 .. MaxTicks : Planned(ticks[i])}
  <1>1. MaxTicks \in Nat
    BY BackendsAssumption
  <1>2. ticks \in Seq(Int) /\ Len(ticks) = MaxTicks /\ \A i \in 1 .. MaxTicks : ticks[i] = i - 1
    BY <1>1
  <1>3. Sorted(ticks, LessThan)
    <2> SUFFICES ASSUME NEW i \in 1 .. MaxTicks, NEW j \in 1 .. MaxTicks, i < j
                 PROVE  <<ticks[i], ticks[j]>> \in LessThan
      BY <1>2 DEF Sorted
    <2>1. ticks[i] = i - 1 /\ ticks[j] = j - 1
      BY <1>2
    <2>2. i - 1 \in Int /\ j - 1 \in Int /\ i - 1 < j - 1
      BY <1>1
    <2> HIDE DEF ticks
    <2> QED BY <2>1, <2>2, TickOrders
  <1>4. \A u : u \in DOMAIN setup.plan => u \in 0 .. MaxTicks - 1
    BY PlanFacts
  <1>5. PlannedTicks(n, t) = Select(ticks, I)
    BY DEF PlannedTicks
  <1>6. \A u : u \in {ticks[i] : i \in I \cap (1 .. Len(ticks))}
                 <=> u < t /\ u \in DOMAIN setup.plan /\ n \in setup.plan[u]
    <2> TAKE u
    <2>1. ASSUME u < t, u \in DOMAIN setup.plan, n \in setup.plan[u]
          PROVE  \E i \in I \cap (1 .. Len(ticks)) : ticks[i] = u
      <3>1. u \in 0 .. MaxTicks - 1
        BY <1>4, <2>1
      <3>2. u + 1 \in 1 .. MaxTicks /\ u + 1 - 1 = u
        BY <1>1, <3>1
      <3>3. ticks[u + 1] = u
        BY <1>1, <3>1, <3>2
      <3> HIDE DEF ticks
      <3> QED BY <1>2, <2>1, <3>2, <3>3
    <2> QED BY <2>1
  <1> HIDE DEF ticks, I
  <1>7. /\ Select(ticks, I) \in Seq(Int) /\ Sorted(Select(ticks, I), LessThan)
        /\ ToSet(Select(ticks, I)) = {ticks[i] : i \in I \cap (1 .. Len(ticks))}
    BY <1>2, <1>3, SelectChosen, SelectSorted, SelectElements
  <1> QED BY <1>5, <1>6, <1>7

\* The k-th firing found is the k-th the run has made.
THEOREM OrdinalsAlwaysHold == Spec => []OrdinalsHold
  <1>1. ASSUME BackendsInv
        PROVE  OrdinalsHold
    <2> SUFFICES ASSUME NEW s \in Sessions, NEW n \in Nodes,
                        pc[s] \in {"idle", "snapshot"}, <<"rows", 0>> \notin harmed[s]
                 PROVE  LET found == TicksOf(JsonFiringsOf(disk[s], n))
                        IN /\ IsPrefix(PlannedTicks(n, tick[s]), found)
                           /\ IsPrefix(found, PlannedTicks(n, MaxTicks))
      BY DEF OrdinalsHold
    <2> DEFINE found == TicksOf(JsonFiringsOf(disk[s], n))
               past == PlannedTicks(n, tick[s])
               all == PlannedTicks(n, MaxTicks)
               Logged(u) == \E i \in 1 .. Len(disk[s].log) : disk[s].log[i].tick = u /\ disk[s].log[i].node = n
               Plans(u) == u \in DOMAIN setup.plan /\ n \in setup.plan[u]
    <2>1. /\ BackendsTypeOK /\ disk[s] \in Stored /\ ~HasRows(s) /\ History(disk[s].log)
          /\ RowsDone(s, tick[s]) /\ tick[s] \in Int /\ MaxTicks \in Int
      <3>1. BackendsTypeOK /\ Position(s) /\ Canonical(s) /\ ~HasRows(s)
        BY <1>1 DEF BackendsInv, SessionOK, StoreOK, HasRows
      <3>2. History(disk[s].log)
        BY <3>1 DEF Canonical
      <3>3. pc[s] # "down" /\ pc[s] # "rows"
        OBVIOUS
      <3>4. RowsDone(s, tick[s])
        BY <3>1, <3>3 DEF Position
      <3>5. disk[s] \in Stored
        BY <3>1 DEF BackendsTypeOK
      <3>6. MaxTicks \in Int /\ tick[s] \in Int
        BY <3>1, BackendsAssumption DEF BackendsTypeOK
      <3> QED BY <3>1, <3>2, <3>4, <3>5, <3>6
    <2>2. found \in Seq(Int) /\ Sorted(found, LessThan) /\ \A u : u \in ToSet(found) <=> Logged(u)
      BY <2>1, FoundTicks
    <2>3. past \in Seq(Int) /\ Sorted(past, LessThan) /\ \A u : u \in ToSet(past) <=> u < tick[s] /\ Plans(u)
      BY <2>1, PlannedFacts
    <2>4. all \in Seq(Int) /\ Sorted(all, LessThan) /\ \A u : u \in ToSet(all) <=> u < MaxTicks /\ Plans(u)
      BY <2>1, PlannedFacts
    <2>5. \A u : Plans(u) => u \in Int /\ u < MaxTicks
      BY <2>1, PlanFacts
    <2>6. \A u : Logged(u) => Plans(u)
      BY <2>1 DEF History
    <2>7. ASSUME NEW u, NEW v, Logged(u), Plans(v), v < u
          PROVE  Logged(v)
      <3>1. PICK i \in 1 .. Len(disk[s].log) : disk[s].log[i].tick = u /\ disk[s].log[i].node = n
        BY <2>7
      <3>2. PICK j \in 1 .. i - 1 : disk[s].log[j].tick = v /\ disk[s].log[j].node = n
        <4>1. History(disk[s].log) /\ v \in DOMAIN setup.plan /\ n \in setup.plan[v] /\ v < u
          BY <2>1, <2>7
        <4> HIDE DEF Plans, Logged
        <4> QED BY <3>1, <4>1 DEF History
      <3>3. j \in 1 .. Len(disk[s].log)
        BY <2>1, StoredParts
      <3> QED BY <3>2, <3>3
    <2>8. \A u : u < tick[s] /\ Plans(u) => Logged(u)
      <3> SUFFICES ASSUME NEW u, u < tick[s], Plans(u) PROVE Logged(u)
        OBVIOUS
      <3>1. [tick |-> u, node |-> n] \in ClosedKeys(disk[s])
        BY <2>1 DEF RowsDone
      <3> QED BY <3>1 DEF ClosedKeys, Key
    <2> HIDE DEF found, past, all, Logged, Plans
    <2>9. IsPrefix(past, found)
      <3>1. \A i, j \in 1 .. Len(found) : i < j /\ found[j] \in ToSet(past) => found[i] \in ToSet(past)
        <4> SUFFICES ASSUME NEW i \in 1 .. Len(found), NEW j \in 1 .. Len(found), i < j, found[j] \in ToSet(past)
                     PROVE  found[i] \in ToSet(past)
          OBVIOUS
        <4>1. found[i] \in ToSet(found) /\ found[i] \in Int /\ found[j] \in Int
          BY <2>2, ElementsOf
        <4>2. found[i] < found[j] /\ found[j] < tick[s]
          BY <2>2, <2>3, <4>1, TickOrders DEF Sorted
        <4>3. Plans(found[i]) /\ found[i] < tick[s]
          BY <2>1, <2>2, <2>6, <4>1, <4>2
        <4> QED BY <2>3, <4>3
      <3>2. ToSet(past) \subseteq ToSet(found)
        BY <2>2, <2>3, <2>8
      <3> QED BY <2>2, <2>3, <3>1, <3>2, TickOrders, SortedPrefix
    <2>10. IsPrefix(found, all)
      <3>1. \A i, j \in 1 .. Len(all) : i < j /\ all[j] \in ToSet(found) => all[i] \in ToSet(found)
        <4> SUFFICES ASSUME NEW i \in 1 .. Len(all), NEW j \in 1 .. Len(all), i < j, all[j] \in ToSet(found)
                     PROVE  all[i] \in ToSet(found)
          OBVIOUS
        <4>1. all[i] \in ToSet(all) /\ all[i] \in Int /\ all[j] \in Int
          BY <2>4, ElementsOf
        <4>2. all[i] < all[j]
          BY <2>4, <4>1, TickOrders DEF Sorted
        <4>3. Plans(all[i]) /\ Logged(all[j])
          BY <2>2, <2>4, <4>1
        <4> QED BY <2>2, <2>7, <4>2, <4>3
      <3>2. ToSet(found) \subseteq ToSet(all)
        BY <2>2, <2>4, <2>5, <2>6
      <3> QED BY <2>2, <2>4, <3>1, <3>2, TickOrders, SortedPrefix
    <2> QED BY <2>9, <2>10 DEF found, past, all
  <1> QED BY <1>1, BackendsInvariant, PTL

-----------------------------------------------------------------------------
(* The two backends *)

\* Whatever is stored, the loops over lines and the grouping by SQL answer alike.
THEOREM QueriesAlwaysAgree == Spec => []QueriesAgree
  <1>1. ASSUME BackendsTypeOK
        PROVE  QueriesAgree
    <2> SUFFICES ASSUME NEW s \in Sessions, NEW n \in Nodes
                 PROVE  LET found == JsonFiringsOf(disk[s], n)
                        IN /\ SqliteFiringsOf(disk[s], n) = found
                           /\ {f \in LatestFirings(disk[s]) : f.node = n} =
                                {f \in ToSet(found) : \A g \in ToSet(found) : g.tick <= f.tick}
      BY DEF QueriesAgree
    <2> DEFINE d == disk[s]
               rows == ListFirings(d)
               found == KeepFirst(FiringsOf(rows, n))
               Group(t) == {i \in DOMAIN rows : rows[i].node = n /\ rows[i].tick = t}
               M == {i \in DOMAIN rows : i \in Group(rows[i].tick) /\ \A j \in Group(rows[i].tick) : i <= j}
               L == {i \in DOMAIN rows : rows[i].node = n /\ \A j \in 1 .. i - 1 : ~SameKey(rows[j], rows[i])}
               own(m) == {i \in DOMAIN rows : rows[i].node = m}
               Latest(m) == {i \in own(m) : \A j \in own(m) : \/ rows[j].tick < rows[i].tick
                                                              \/ rows[j].tick = rows[i].tick /\ i <= j}
    <2>1. /\ rows \in Seq(Firing) /\ Len(rows) \in Nat /\ DOMAIN rows = 1 .. Len(rows)
          /\ \A i \in 1 .. Len(rows) : rows[i] \in Firing /\ rows[i].tick \in Int /\ rows[i].node \in Nodes
      <3>1. d \in Stored
        BY <1>1 DEF BackendsTypeOK
      <3> HIDE DEF d
      <3>2. rows \in Seq(Firing)
        BY <3>1, ListElements
      <3>3. \A f \in Firing : f.tick \in Int /\ f.node \in Nodes
        BY TickOrders DEF Firing
      <3> HIDE DEF rows
      <3> QED BY <3>2, <3>3
    <2>2. /\ SqliteFiringsOf(d, n) = Select(rows, M) /\ JsonFiringsOf(d, n) = found
          /\ LatestFirings(d) = {rows[i] : i \in UNION {Latest(m) : m \in Nodes}}
      BY DEF SqliteFiringsOf, JsonFiringsOf, LatestFirings
    <2> HIDE DEF rows
    <2>3. M \cap (1 .. Len(rows)) = L \cap (1 .. Len(rows))
      <3> SUFFICES ASSUME NEW i \in 1 .. Len(rows), rows[i].node = n
                   PROVE  (\A j \in Group(rows[i].tick) : i <= j) <=> \A j \in 1 .. i - 1 : ~SameKey(rows[j], rows[i])
        BY <2>1
      <3>1. \A j \in 1 .. Len(rows) : j \in Group(rows[i].tick) <=> SameKey(rows[j], rows[i])
        BY <2>1 DEF SameKey
      <3>2. Group(rows[i].tick) \subseteq 1 .. Len(rows)
        BY <2>1
      <3> HIDE DEF Group
      <3> QED BY <2>1, <3>1, <3>2
    <2>4. Select(rows, L) = found
      BY <2>1, GroupingAgrees DEF Grouped
    <2>5. Select(rows, M) = Select(rows, L)
      <3> HIDE DEF M, L
      <3> QED BY <2>1, <2>3, SelectSame
    <2>6. ToSet(found) = {rows[i] : i \in L}
      <3>1. ToSet(Select(rows, L)) = {rows[i] : i \in L \cap (1 .. Len(rows))}
        <4> HIDE DEF L
        <4> QED BY <2>1, SelectElements
      <3>2. L \cap (1 .. Len(rows)) = L
        BY <2>1
      <3> QED BY <2>4, <3>1, <3>2
    <2>7. ASSUME NEW j \in own(n)
          PROVE  \E i \in L : rows[i].tick = rows[j].tick
      <3>1. FiringsOf(rows, n) \in Seq(Firing) /\ ToSet(FiringsOf(rows, n)) = {f \in ToSet(rows) : f.node = n}
        BY <2>1, LogsTyped, FiringsOfElements
      <3>2. rows[j] \in ToSet(FiringsOf(rows, n))
        BY <2>1, <3>1, ElementsOf
      <3>3. \E y \in ToSet(found) : SameKey(rows[j], y)
        BY <3>1, <3>2, KeepFirstKeys
      <3> HIDE DEF L, found
      <3> QED BY <2>6, <3>3 DEF SameKey
    <2>8. L \subseteq own(n)
      OBVIOUS
    <2>9. ASSUME NEW i \in Latest(n)
          PROVE  i \in L
      <3>1. \A j \in 1 .. i - 1 : ~SameKey(rows[j], rows[i])
        BY <2>1, <2>9 DEF SameKey
      <3> QED BY <2>9, <3>1
    <2>10. ASSUME NEW i \in L, \A j \in L : rows[j].tick <= rows[i].tick
           PROVE  i \in Latest(n)
      <3>1. ASSUME NEW j \in own(n)
            PROVE  rows[j].tick < rows[i].tick \/ (rows[j].tick = rows[i].tick /\ i <= j)
        <4>1. PICK k \in L : rows[k].tick = rows[j].tick
          BY <2>7
        <4>2. rows[j].tick <= rows[i].tick /\ rows[j].tick \in Int /\ rows[i].tick \in Int
          BY <2>1, <2>10, <4>1
        <4>3. rows[j].tick = rows[i].tick => i <= j
          BY <2>1 DEF SameKey
        <4> QED BY <4>2, <4>3
      <3> QED BY <2>8, <3>1
    <2>11. \A m \in Nodes : \A i \in Latest(m) : rows[i].node = m
      OBVIOUS
    <2>12. \A i \in Latest(n), j \in L : rows[j].tick <= rows[i].tick
      BY <2>1, <2>8
    <2>13. {f \in LatestFirings(d) : f.node = n} =
             {f \in ToSet(found) : \A g \in ToSet(found) : g.tick <= f.tick}
      <3> HIDE DEF Latest, L, found
      <3>1. \A f : f \in LatestFirings(d) /\ f.node = n <=> \E i \in Latest(n) : f = rows[i]
        BY <2>2, <2>11
      <3>2. \A f : f \in ToSet(found) <=> \E i \in L : f = rows[i]
        BY <2>6
      <3>3. \A f : (f \in ToSet(found) /\ \A g \in ToSet(found) : g.tick <= f.tick) <=> \E i \in Latest(n) : f = rows[i]
        BY <2>9, <2>10, <2>12, <3>2
      <3> QED BY <3>1, <3>3
    <2> QED BY <2>2, <2>4, <2>5, <2>13
  <1> QED BY <1>1, BackendsTypes, PTL

-----------------------------------------------------------------------------
(* Saves are atomic *)

\* As the abstract store sees it, a call executed as a whole is one save.
LEMMA OneSave ==
  ASSUME NEW d, Sound(d), ~d.open, d.log \in Seq(Firing), NEW w \in Write, w # Nothing
  PROVE  LET e == Applied(d, w)
         IN /\ ListFirings(e) = IF w.op = "rows" THEN ListFirings(d) \o w.rows ELSE ListFirings(d)
            /\ WholeSnapshots(e) = IF w.op = "snapshot" THEN WholeSnapshots(d) \cup {w.tick} ELSE WholeSnapshots(d)
            /\ e.labels = IF w.op = "label" THEN [d.labels EXCEPT ![w.label] = w.tick] ELSE d.labels
  <1> DEFINE e == Applied(d, w)
  <1>1. d \in Stored /\ w.op \in {"rows", "snapshot", "label"}
    BY WriteFacts DEF Sound
  <1>2. CASE w.op = "rows"
    <2>1. w.rows \in Seq(Firing) /\ w.rows # <<>> /\ w.rows \in Lines
      BY <1>2, WriteFacts DEF Lines
    <2>2. e = AppendLines(d, w.rows, FALSE)
      BY <1>2 DEF Applied
    <2> HIDE DEF e
    <2>3. e.log = d.log \o w.rows /\ e.snaps = d.snaps /\ e.labels = d.labels
      <3>1. FALSE \in BOOLEAN
        OBVIOUS
      <3> QED BY <2>1, <2>2, <3>1, AppendFacts
    <2>4. e.log \in Seq(Firing)
      BY <2>1, <2>3, ConcatElements
    <2>5. ListFirings(e) = e.log /\ ListFirings(d) = d.log
      BY <2>4, CleanListed
    <2>6. WholeSnapshots(e) = WholeSnapshots(d)
      BY <2>3 DEF WholeSnapshots, ListSnapshots, Loads
    <2> QED BY <1>2, <2>3, <2>5, <2>6 DEF e
  <1>3. CASE w.op = "snapshot"
    <2>1. w.tick \in 1 .. MaxTicks
      BY <1>3, WriteFacts
    <2>2. e = [d EXCEPT !.snaps[w.tick] = "whole"]
      BY <1>3 DEF Applied
    <2>3. e.log = d.log /\ e.labels = d.labels /\ e.snaps = [d.snaps EXCEPT ![w.tick] = "whole"]
      BY <1>1, <2>2 DEF Stored
    <2> HIDE DEF e
    <2>4. ListFirings(e) = ListFirings(d)
      BY <2>3 DEF ListFirings
    <2>5. \A t \in 1 .. MaxTicks : e.snaps[t] = IF t = w.tick THEN "whole" ELSE d.snaps[t]
      BY <1>1, <2>3, StoredParts
    <2>6. WholeSnapshots(e) = WholeSnapshots(d) \cup {w.tick}
      <3>1. \A t : t \in WholeSnapshots(e) <=> t \in 1 .. MaxTicks /\ e.snaps[t] = "whole"
        BY DEF WholeSnapshots, ListSnapshots, Loads
      <3>2. \A t : t \in WholeSnapshots(d) <=> t \in 1 .. MaxTicks /\ d.snaps[t] = "whole"
        BY DEF WholeSnapshots, ListSnapshots, Loads
      <3> QED BY <2>1, <2>5, <3>1, <3>2
    <2> QED BY <1>3, <2>3, <2>4, <2>6 DEF e
  <1>4. CASE w.op = "label"
    <2>1. e = [d EXCEPT !.labels[w.label] = w.tick]
      BY <1>4 DEF Applied
    <2>2. e.log = d.log /\ e.snaps = d.snaps /\ e.labels = [d.labels EXCEPT ![w.label] = w.tick]
      BY <1>1, <2>1 DEF Stored
    <2> HIDE DEF e
    <2>3. ListFirings(e) = ListFirings(d) /\ WholeSnapshots(e) = WholeSnapshots(d)
      BY <2>2 DEF ListFirings, WholeSnapshots, ListSnapshots, Loads
    <2> QED BY <1>4, <2>2, <2>3 DEF e
  <1> QED BY <1>1, <1>2, <1>3, <1>4

LEMMA StoreStep ==
  ASSUME BackendsTypeOK, NEW s \in Sessions, SessionOK(s), todo[s] # Nothing, ~HasRows(s),
         disk' = [disk EXCEPT ![s] = Applied(disk[s], todo[s])]
  PROVE  Atomic!Next
  <1> DEFINE d == disk[s]
             w == todo[s]
             F == [q \in Sessions |-> ListFirings(disk[q])]
             S == [q \in Sessions |-> WholeSnapshots(disk[q])]
             C == [q \in Sessions |-> disk[q].labels]
  <1>1. /\ InCall(s) /\ d \in Stored /\ Sound(d) /\ ~d.open /\ History(d.log)
        /\ disk \in [Sessions -> Stored]
    BY SoundStores DEF SessionOK, StoreOK, Canonical, BackendsTypeOK
  <1>2. w \in Write /\ w.op \in {"rows", "snapshot", "label"} /\ (w.op = "rows" <=> pc[s] = "rows")
    BY <1>1, CallOf, WriteFacts
  <1>3. d.log \in Seq(Firing)
    BY <1>1, HistoryListed
  <1>4. disk' = [disk EXCEPT ![s] = Applied(d, w)]
    OBVIOUS
  <1>5. F' = [q \in Sessions |-> ListFirings(disk'[q])]
    BY DEF ListFirings, Garbage, None
  <1>6. S' = [q \in Sessions |-> WholeSnapshots(disk'[q])]
    BY DEF WholeSnapshots, ListSnapshots, Loads
  <1>7. C' = [q \in Sessions |-> disk'[q].labels]
    OBVIOUS
  <1>8. \A q \in Sessions : disk'[q] = IF q = s THEN Applied(d, w) ELSE disk[q]
    BY <1>1, <1>4
  <1> HIDE DEF d, w
  <1>9. /\ F' = [F EXCEPT ![s] = IF w.op = "rows" THEN @ \o w.rows ELSE @]
        /\ S' = [S EXCEPT ![s] = IF w.op = "snapshot" THEN @ \cup {w.tick} ELSE @]
        /\ C' = [C EXCEPT ![s] = IF w.op = "label" THEN [@ EXCEPT ![w.label] = w.tick] ELSE @]
    BY <1>1, <1>2, <1>3, <1>5, <1>6, <1>7, <1>8, OneSave DEF d, w
  <1>10. F[s] = ListFirings(d) /\ S[s] = WholeSnapshots(d) /\ C[s] = d.labels
    BY DEF d
  <1>11. CASE w.op = "rows"
    <2>1. w.rows \in Batches
      <3>1. PICK r \in 0 .. MaxFaults + MaxRollbacks :
              w = [op |-> "rows", rows |-> FiringsOfTick(setup.plan, tick[s] - 1, r)]
        BY <1>1, <1>2, <1>11 DEF InCall, w
      <3>2. setup \in Setups /\ tick[s] - 1 \in 0 .. MaxTicks - 1
        BY <1>1, <1>2, <1>11, PlanFacts DEF InCall, BackendsTypeOK
      <3> QED BY <3>1, <3>2 DEF Batches
    <2>2. (\E batch \in Batches : F' = [F EXCEPT ![s] = F[s] \o batch]) /\ S' = S /\ C' = C
      <3>1. F' = [F EXCEPT ![s] = F[s] \o w.rows] /\ S' = S /\ C' = C
        BY <1>9, <1>11
      <3> HIDE DEF F
      <3> QED BY <2>1, <3>1
    <2>3. Atomic!SaveFirings(s)
      BY <2>2 DEF Atomic!SaveFirings
    <2> QED BY <2>3 DEF Atomic!Next
  <1>12. CASE w.op = "snapshot"
    <2>1. w.tick \in 1 .. MaxTicks
      BY <1>2, <1>12, WriteFacts
    <2>2. F' = F /\ S' = [S EXCEPT ![s] = @ \cup {w.tick}] /\ C' = C
      BY <1>9, <1>12
    <2>3. Atomic!SaveSnapshot(s)
      BY <2>1, <2>2 DEF Atomic!SaveSnapshot
    <2> QED BY <2>3 DEF Atomic!Next
  <1>13. CASE w.op = "label"
    <2>1. w.label \in Labels /\ w.tick \in 0 .. MaxTicks
      BY <1>2, <1>13, WriteFacts
    <2>2. F' = F /\ S' = S /\ C' = [C EXCEPT ![s][w.label] = w.tick]
      BY <1>9, <1>13
    <2>3. Atomic!SaveCheckpoint(s)
      BY <2>1, <2>2 DEF Atomic!SaveCheckpoint
    <2> QED BY <2>3 DEF Atomic!Next
  <1> QED BY <1>2, <1>11, <1>12, <1>13

LEMMA DiskUnchanged ==
  ASSUME disk' = disk
  PROVE  UNCHANGED Atomic!vars
  BY DEF Atomic!vars, ListFirings, WholeSnapshots, ListSnapshots, Loads, Garbage, None

\* What the abstract store does between a state and the next.
AtomicStep ==
  \/ setup.kind = "sqlite" /\ \A s \in Sessions : harmed'[s] = {}
  \/ faults' = 0
  => Atomic!Next

LEMMA CommitAtomic ==
  ASSUME BackendsInv, NEW s \in Sessions, Commit(s)
  PROVE  AtomicStep
  <1>1. BackendsTypeOK /\ LockOK /\ \A q \in Sessions : SessionOK(q)
    BY DEF BackendsInv
  <1>2. s \in lock /\ disk' = staged /\ harmed' = harmed /\ faults' = faults
    BY DEF Commit
  <1>3. lock = {s} /\ todo[s] # Nothing
    BY <1>1, <1>2 DEF LockOK
  <1> SUFFICES ASSUME \/ \A q \in Sessions : harmed'[q] = {}
                      \/ faults' = 0
               PROVE  Atomic!Next
    BY DEF AtomicStep
  <1>4. \A q \in Sessions : harmed[q] = {}
    BY <1>1, <1>2 DEF SessionOK, StoreOK
  <1>5. \A q \in Sessions : staged[q] = IF q = s THEN Applied(disk[s], todo[s]) ELSE disk[q]
    BY <1>1, <1>3, <1>4 DEF SessionOK, StoreOK, Pending
  <1>6. disk' = [disk EXCEPT ![s] = Applied(disk[s], todo[s])]
    BY <1>1, <1>2, <1>5 DEF BackendsTypeOK
  <1>7. ~HasRows(s)
    BY <1>4 DEF HasRows
  <1> QED BY <1>1, <1>3, <1>6, <1>7, StoreStep

LEMMA JsonSaveAtomic ==
  ASSUME BackendsInv, NEW s \in Sessions, JsonSave(s)
  PROVE  AtomicStep
  <1>1. BackendsTypeOK /\ SessionOK(s)
    BY DEF BackendsInv
  <1>2. /\ setup.kind = "json" /\ todo[s] # Nothing /\ faults' = faults
        /\ disk' = [disk EXCEPT ![s] = Applied(disk[s], todo[s])]
    BY DEF JsonSave
  <1> SUFFICES ASSUME faults' = 0
               PROVE  Atomic!Next
    BY <1>2 DEF AtomicStep
  <1>3. ~HasRows(s)
    BY <1>1, <1>2 DEF SessionOK, StoreOK, HasRows
  <1> QED BY <1>1, <1>2, <1>3, StoreStep

\* Every step of the backends is one of the atomic store, or none: for a
\* SqliteBackend until a statement fails, through crashes; for a JsonBackend
\* until a fault.
THEOREM SavesAlwaysAtomic == Spec => SavesAtomic
  <1>1. BackendsInv /\ [Next]_vars => AtomicStep \/ UNCHANGED Atomic!vars
    <2> SUFFICES ASSUME BackendsInv, [Next]_vars
                 PROVE  AtomicStep \/ UNCHANGED Atomic!vars
      OBVIOUS
    <2>1. faults \in Nat /\ disk \in [Sessions -> Stored] /\ setup.kind \in {"json", "sqlite"}
      BY BackendsAssumption DEF BackendsInv, BackendsTypeOK, IsSetup
    <2>2. ASSUME NEW s \in Sessions, \/ RunTick(s) \/ SkipEmptyBatch(s) \/ Execute(s) \/ SqliteFails(s) \/ Resume(s)
                                     \/ \E l \in Labels : Checkpoint(s, l) \/ Rollback(s, l)
          PROVE  disk' = disk
      BY <2>2 DEF RunTick, SkipEmptyBatch, Execute, SqliteFails, Resume, Checkpoint, Rollback
    <2>3. ASSUME NEW s \in Sessions, JsonFails(s)
          PROVE  AtomicStep
      <3>1. setup.kind = "json" /\ faults' = faults + 1
        BY <2>3 DEF JsonFails
      <3> QED BY <2>1, <3>1 DEF AtomicStep
    <2>4. CASE Crash
      <3>1. CASE setup.kind = "json"
        <4>1. faults' = faults + 1
          BY <2>4 DEF Crash
        <4> QED BY <2>1, <3>1, <4>1 DEF AtomicStep
      <3>2. CASE setup.kind = "sqlite"
        <4>1. PICK left \in [Sessions -> UNION {Remains(s) : s \in Sessions}] :
                disk' = left /\ \A s \in Sessions : left[s] \in Remains(s)
          BY <2>4 DEF Crash
        <4>2. \A s \in Sessions : left[s] = disk[s]
          BY <3>2, <4>1 DEF Remains
        <4>3. disk' = disk
          BY <2>1, <4>1, <4>2
        <4> QED BY <4>3, DiskUnchanged
      <3> QED BY <2>1, <3>1, <3>2
    <2>5. CASE UNCHANGED vars
      BY <2>5, DiskUnchanged DEF vars
    <2> QED BY <2>2, <2>3, <2>4, <2>5, DiskUnchanged, CommitAtomic, JsonSaveAtomic DEF Next
  <1>2. BackendsInv /\ [Next]_vars =>
          [\/ setup.kind = "sqlite" /\ \A s \in Sessions : harmed'[s] = {}
           \/ faults' = 0
           => Atomic!Next]_(Atomic!vars)
    BY <1>1 DEF AtomicStep
  <1> QED BY <1>2, BackendsInvariant, PTL DEF Spec, SavesAtomic

=============================================================================
