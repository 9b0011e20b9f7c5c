----------------------------- MODULE FiringLog -----------------------------
(***************************************************************************)
(* What the history and the backends of tickflow ask of a log of firings:  *)
(* a sequence, in append order, of records with at least the fields tick   *)
(* and node.                                                               *)
(***************************************************************************)
EXTENDS Integers, Sequences, FiniteSets, SequencesExt

\* The elements of s at the positions in I, in order.
Select(s, I) ==
  LET chosen[k \in 0 .. Len(s)] ==
        IF k = 0 THEN <<>>
        ELSE IF k \in I THEN Append(chosen[k - 1], s[k]) ELSE chosen[k - 1]
  IN chosen[Len(s)]

FiringsOf(s, n) == Select(s, {i \in DOMAIN s : s[i].node = n})
UpTo(s, t)      == Select(s, {i \in DOMAIN s : s[i].tick <= t})
LastOf(s)       == IF s = <<>> THEN {} ELSE {s[Len(s)]}

SameKey(f, g) == f.tick = g.tick /\ f.node = g.node

\* Replayed rows keep the first for each tick and node.
KeepFirst(s) == Select(s, {i \in DOMAIN s : \A j \in 1 .. i - 1 : ~SameKey(s[j], s[i])})

=============================================================================
