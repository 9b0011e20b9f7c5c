-------------------------- MODULE FiringLog_proofs --------------------------
(***************************************************************************)
(* Facts about logs of firings: what a selection from a sequence contains, *)
(* in which order, and when two of them are the same.                      *)
(*                                                                         *)
(* Induction is used in the form of the least-number principle NatMin, for *)
(* sets of naturals.                                                       *)
(***************************************************************************)
EXTENDS FiringLog, WellFoundedInduction, TLAPS

-----------------------------------------------------------------------------
(* Induction *)

LEMMA NatMin ==
  ASSUME NEW T \in SUBSET Nat, T # {}
  PROVE  \E x \in T : \A y \in T : x <= y
  <1> DEFINE R == {ss \in Nat \X Nat : ss[1] < ss[2]}
  <1>1. IsWellFoundedOn(R, Nat)
    BY NatLessThanWellFounded DEF OpToRel
  <1>2. \A x, y \in Nat : y < x => <<y, x>> \in R
    OBVIOUS
  <1>3. \E x \in T : \A y \in T : <<y, x>> \notin R
    <2> HIDE DEF R
    <2> QED BY <1>1, WFMin
  <1>4. PICK x \in T : \A y \in T : <<y, x>> \notin R
    BY <1>3
  <1>5. \A y \in T : ~(y < x)
    BY <1>2, <1>4
  <1>6. \A y \in T : x <= y
    BY <1>5
  <1> QED BY <1>6

\* What holds of 0 and with n also of n + 1, as long as that is in bounds,
\* holds up to the bound.
LEMMA UpInduction ==
  ASSUME NEW m \in Nat, NEW T, 0 \in T, \A n \in 0 .. m - 1 : n \in T => n + 1 \in T
  PROVE  0 .. m \subseteq T
  <1> DEFINE U == (0 .. m) \ T
  <1> SUFFICES ASSUME U # {} PROVE FALSE
    OBVIOUS
  <1>1. PICK x \in U : \A y \in U : x <= y
    <2>1. U \in SUBSET Nat
      OBVIOUS
    <2> HIDE DEF U
    <2> QED BY <2>1, NatMin
  <1>2. x # 0 /\ x - 1 \in 0 .. m - 1 /\ x - 1 \notin U
    BY <1>1
  <1> QED BY <1>1, <1>2

-----------------------------------------------------------------------------
(* Sequences *)

LEMMA SubSeqFacts ==
  ASSUME NEW S, NEW s \in Seq(S), NEW a \in 1 .. Len(s) + 1, NEW b \in a - 1 .. Len(s)
  PROVE  /\ SubSeq(s, a, b) \in Seq(S)
         /\ Len(SubSeq(s, a, b)) = b - a + 1
         /\ \A i \in 1 .. b - a + 1 : SubSeq(s, a, b)[i] = s[a + i - 1]
  <1>1. Len(SubSeq(s, a, b)) = b - a + 1
    OBVIOUS
  <1>2. SubSeq(s, a, b) \in Seq(S)
    OBVIOUS
  <1>3. \A i \in 1 .. b - a + 1 : SubSeq(s, a, b)[i] = s[a + i - 1]
    OBVIOUS
  <1> QED BY <1>1, <1>2, <1>3

LEMMA ElementsOf ==
  ASSUME NEW S, NEW s \in Seq(S)
  PROVE  /\ \A x : x \in ToSet(s) <=> \E i \in 1 .. Len(s) : s[i] = x
         /\ \A i \in 1 .. Len(s) : s[i] \in ToSet(s) /\ s[i] \in S
         /\ ToSet(s) \subseteq S
         /\ Len(s) \in Nat
  <1>1. DOMAIN s = 1 .. Len(s) /\ Len(s) \in Nat /\ \A i \in 1 .. Len(s) : s[i] \in S
    OBVIOUS
  <1> QED BY <1>1 DEF ToSet

LEMMA AppendElements ==
  ASSUME NEW S, NEW s \in Seq(S), NEW x \in S
  PROVE  /\ ToSet(Append(s, x)) = ToSet(s) \cup {x}
         /\ Append(s, x) \in Seq(S) /\ Len(Append(s, x)) = Len(s) + 1
         /\ Append(s, x)[Len(s) + 1] = x
         /\ \A i \in 1 .. Len(s) : Append(s, x)[i] = s[i]
  <1> DEFINE t == Append(s, x)
  <1>1. /\ t \in Seq(S) /\ Len(t) = Len(s) + 1 /\ Len(s) \in Nat
        /\ t[Len(s) + 1] = x /\ \A i \in 1 .. Len(s) : t[i] = s[i]
    OBVIOUS
  <1> HIDE DEF t
  <1>2. ToSet(t) = ToSet(s) \cup {x}
    <2>1. \A i \in 1 .. Len(s) + 1 : i \in 1 .. Len(s) \/ i = Len(s) + 1
      BY <1>1
    <2>2. \A i \in 1 .. Len(s) : i \in 1 .. Len(s) + 1
      BY <1>1
    <2>3. Len(s) + 1 \in 1 .. Len(s) + 1
      BY <1>1
    <2>4. \A y : y \in ToSet(t) <=> \E i \in 1 .. Len(s) + 1 : t[i] = y
      BY <1>1, ElementsOf
    <2>5. \A y : y \in ToSet(s) <=> \E i \in 1 .. Len(s) : s[i] = y
      BY ElementsOf
    <2> QED BY <1>1, <2>1, <2>2, <2>3, <2>4, <2>5
  <1> QED BY <1>1, <1>2 DEF t

LEMMA ConcatElements ==
  ASSUME NEW S, NEW s \in Seq(S), NEW t \in Seq(S)
  PROVE  /\ s \o t \in Seq(S) /\ Len(s \o t) = Len(s) + Len(t)
         /\ \A i \in 1 .. Len(s) : (s \o t)[i] = s[i]
         /\ \A i \in 1 .. Len(t) : (s \o t)[Len(s) + i] = t[i]
         /\ ToSet(s \o t) = ToSet(s) \cup ToSet(t)
  <1> DEFINE u == s \o t
  <1>1. /\ u \in Seq(S) /\ Len(u) = Len(s) + Len(t) /\ Len(s) \in Nat /\ Len(t) \in Nat
        /\ \A i \in 1 .. Len(s) : u[i] = s[i]
        /\ \A i \in 1 .. Len(t) : u[Len(s) + i] = t[i]
    OBVIOUS
  <1> HIDE DEF u
  <1>2. ToSet(u) = ToSet(s) \cup ToSet(t)
    <2>1. \A y : y \in ToSet(u) <=> \E i \in 1 .. Len(u) : u[i] = y
      BY <1>1, ElementsOf
    <2>2. \A y : y \in ToSet(s) <=> \E i \in 1 .. Len(s) : s[i] = y
      BY ElementsOf
    <2>3. \A y : y \in ToSet(t) <=> \E i \in 1 .. Len(t) : t[i] = y
      BY ElementsOf
    <2>4. ASSUME NEW y \in ToSet(u)
          PROVE  y \in ToSet(s) \cup ToSet(t)
      <3>1. PICK i \in 1 .. Len(u) : u[i] = y
        BY <2>1
      <3>2. CASE i <= Len(s)
        BY <1>1, <2>2, <3>1, <3>2
      <3>3. CASE ~(i <= Len(s))
        <4>1. i - Len(s) \in 1 .. Len(t) /\ Len(s) + (i - Len(s)) = i
          BY <1>1, <3>3
        <4> QED BY <1>1, <2>3, <3>1, <4>1
      <3> QED BY <3>2, <3>3
    <2>5. \A i \in 1 .. Len(s) : i \in 1 .. Len(u)
      BY <1>1
    <2>6. \A i \in 1 .. Len(t) : Len(s) + i \in 1 .. Len(u)
      BY <1>1
    <2> QED BY <1>1, <2>1, <2>2, <2>3, <2>4, <2>5, <2>6
  <1> QED BY <1>1, <1>2 DEF u

LEMMA EmptyElements == ToSet(<<>>) = {} /\ Len(<<>>) = 0 /\ \A S : <<>> \in Seq(S)
  BY DEF ToSet

-----------------------------------------------------------------------------
(* The recursion of Select *)

Steps(chosen, s, I) ==
  /\ chosen[0] = <<>>
  /\ \A k \in 1 .. Len(s) :
       chosen[k] = IF k \in I THEN Append(chosen[k - 1], s[k]) ELSE chosen[k - 1]

LEMMA SelectSteps ==
  ASSUME NEW S, NEW s \in Seq(S), NEW I
  PROVE  \E chosen : Steps(chosen, s, I) /\ Select(s, I) = chosen[Len(s)]
  <1> DEFINE Rec(F, k) == IF k = 0 THEN <<>>
                          ELSE IF k \in I THEN Append(F[k - 1], s[k]) ELSE F[k - 1]
             T == {m \in Nat : \E F : F = [k \in 0 .. m |-> Rec(F, k)]}
  <1>1. 0 \in T
    <2>1. [k \in 0 .. 0 |-> <<>>] = [k \in 0 .. 0 |-> Rec([j \in 0 .. 0 |-> <<>>], k)]
      OBVIOUS
    <2> QED BY <2>1
  <1>2. ASSUME NEW n \in Nat, n \in T
        PROVE  n + 1 \in T
    <2>1. PICK F : F = [k \in 0 .. n |-> Rec(F, k)]
      BY <1>2
    <2> DEFINE G == [k \in 0 .. n + 1 |-> IF k = n + 1 THEN Rec(F, k) ELSE F[k]]
    <2>2. \A k \in 0 .. n : G[k] = F[k]
      OBVIOUS
    <2>3. \A k \in 0 .. n : F[k] = Rec(F, k)
      BY <2>1
    <2>4. \A k \in 0 .. n + 1 : G[k] = Rec(G, k)
      <3> TAKE k \in 0 .. n + 1
      <3>1. CASE k = n + 1
        BY <3>1, <2>2
      <3>2. CASE k = 0
        BY <3>2, <2>2, <2>3
      <3>3. CASE k \in 1 .. n
        BY <3>3, <2>2, <2>3
      <3> QED BY <3>1, <3>2, <3>3
    <2>5. G = [k \in 0 .. n + 1 |-> G[k]]
      OBVIOUS
    <2>6. G = [k \in 0 .. n + 1 |-> Rec(G, k)]
      BY <2>4, <2>5
    <2> HIDE DEF G, Rec
    <2> QED BY <2>6
  <1>3. Len(s) \in T
    <2>1. Len(s) \in Nat
      OBVIOUS
    <2> HIDE DEF T
    <2>2. \A n \in 0 .. Len(s) - 1 : n \in T => n + 1 \in T
      BY <1>2, <2>1
    <2>3. 0 .. Len(s) \subseteq T
      BY <1>1, <2>1, <2>2, UpInduction
    <2> QED BY <2>1, <2>3
  <1>4. PICK F : F = [k \in 0 .. Len(s) |-> Rec(F, k)]
    BY <1>3
  <1> DEFINE C == CHOOSE chosen : chosen = [k \in 0 .. Len(s) |-> Rec(chosen, k)]
  <1>5. C = [k \in 0 .. Len(s) |-> Rec(C, k)]
    <2> HIDE DEF Rec
    <2> QED BY <1>4
  <1>6. Select(s, I) = C[Len(s)]
    BY DEF Select
  <1>7. \A k \in 0 .. Len(s) : C[k] = Rec(C, k)
    <2> HIDE DEF C, Rec
    <2> QED BY <1>5
  <1>8. Steps(C, s, I)
    <2> HIDE DEF C
    <2> QED BY <1>7 DEF Steps
  <1> QED BY <1>6, <1>8

LEMMA StepsAgree ==
  ASSUME NEW S, NEW s \in Seq(S), NEW t \in Seq(S), NEW I, NEW J, NEW F, NEW G,
         Steps(F, s, I), Steps(G, t, J),
         NEW m \in Nat, m <= Len(s), m <= Len(t),
         \A k \in 1 .. m : s[k] = t[k] /\ (k \in I <=> k \in J)
  PROVE  \A k \in 0 .. m : F[k] = G[k]
  <1> DEFINE T == {k \in Nat : F[k] = G[k]}
  <1>1. 0 \in T
    BY DEF Steps
  <1>2. ASSUME NEW n \in 0 .. m - 1, n \in T
        PROVE  n + 1 \in T
    <2>1. n + 1 \in 1 .. m /\ n + 1 \in 1 .. Len(s) /\ n + 1 \in 1 .. Len(t) /\ n + 1 - 1 = n
      OBVIOUS
    <2>2. F[n + 1] = IF n + 1 \in I THEN Append(F[n], s[n + 1]) ELSE F[n]
      BY <2>1 DEF Steps
    <2>3. G[n + 1] = IF n + 1 \in J THEN Append(G[n], t[n + 1]) ELSE G[n]
      BY <2>1 DEF Steps
    <2>4. F[n + 1] = G[n + 1]
      BY <1>2, <2>1, <2>2, <2>3
    <2> QED BY <2>4
  <1>3. 0 .. m \subseteq T
    <2> HIDE DEF T
    <2> QED BY <1>1, <1>2, UpInduction
  <1> QED BY <1>3

\* Only the positions there are matter.
LEMMA SelectSame ==
  ASSUME NEW S, NEW s \in Seq(S), NEW I, NEW J, I \cap (1 .. Len(s)) = J \cap (1 .. Len(s))
  PROVE  Select(s, I) = Select(s, J)
  <1>1. PICK F : Steps(F, s, I) /\ Select(s, I) = F[Len(s)]
    BY SelectSteps
  <1>2. PICK G : Steps(G, s, J) /\ Select(s, J) = G[Len(s)]
    BY SelectSteps
  <1>3. Len(s) \in Nat /\ \A k \in 1 .. Len(s) : s[k] = s[k] /\ (k \in I <=> k \in J)
    OBVIOUS
  <1>4. \A k \in 0 .. Len(s) : F[k] = G[k]
    BY <1>1, <1>2, <1>3, StepsAgree
  <1> QED BY <1>1, <1>2, <1>3, <1>4

LEMMA SelectEmpty ==
  ASSUME NEW I
  PROVE  Select(<<>>, I) = <<>>
  <1>1. <<>> \in Seq({})
    OBVIOUS
  <1>2. PICK F : Steps(F, <<>>, I) /\ Select(<<>>, I) = F[Len(<<>>)]
    BY <1>1, SelectSteps
  <1> QED BY <1>2 DEF Steps

LEMMA SelectAppend ==
  ASSUME NEW S, NEW s \in Seq(S), NEW x \in S, NEW I
  PROVE  Select(Append(s, x), I) =
           IF Len(s) + 1 \in I THEN Append(Select(s, I), x) ELSE Select(s, I)
  <1> DEFINE t == Append(s, x)
  <1>1. /\ t \in Seq(S) /\ Len(t) = Len(s) + 1 /\ Len(s) \in Nat
        /\ t[Len(s) + 1] = x /\ \A k \in 1 .. Len(s) : t[k] = s[k]
    OBVIOUS
  <1> HIDE DEF t
  <1>2. PICK F : Steps(F, s, I) /\ Select(s, I) = F[Len(s)]
    BY SelectSteps
  <1>3. PICK G : Steps(G, t, I) /\ Select(t, I) = G[Len(t)]
    BY <1>1, SelectSteps
  <1>4. \A k \in 0 .. Len(s) : F[k] = G[k]
    BY <1>1, <1>2, <1>3, StepsAgree
  <1>5. G[Len(s) + 1] = IF Len(s) + 1 \in I THEN Append(G[Len(s)], x) ELSE G[Len(s)]
    BY <1>1, <1>3 DEF Steps
  <1>6. Select(t, I) = IF Len(s) + 1 \in I THEN Append(Select(s, I), x) ELSE Select(s, I)
    BY <1>1, <1>2, <1>3, <1>4, <1>5
  <1> QED BY <1>6 DEF t

-----------------------------------------------------------------------------
(* What a selection is: the positions chosen, in increasing order *)

\* e[k] is the position in s of the k-th element of q.
Chosen(e, q, s, I) ==
  /\ Len(q) \in Nat
  /\ q = [k \in 1 .. Len(q) |-> s[e[k]]]
  /\ e \in [1 .. Len(q) -> I \cap (1 .. Len(s))]
  /\ \A k, l \in 1 .. Len(q) : k < l => e[k] < e[l]
  /\ \A i \in I \cap (1 .. Len(s)) : \E k \in 1 .. Len(q) : e[k] = i

LEMMA SelectChosen ==
  ASSUME NEW S, NEW s \in Seq(S), NEW I
  PROVE  Select(s, I) \in Seq(S) /\ \E e : Chosen(e, Select(s, I), s, I)
  <1>1. PICK F : Steps(F, s, I) /\ Select(s, I) = F[Len(s)]
    BY SelectSteps
  <1> DEFINE Upto(n) == I \cap (1 .. n)
             T == {n \in Nat : F[n] \in Seq(S) /\ \E e : Chosen(e, F[n], s, Upto(n))}
  <1>2. 0 \in T
    <2>1. F[0] = <<>>
      BY <1>1 DEF Steps
    <2>2. Chosen(<<>>, <<>>, s, Upto(0))
      BY DEF Chosen
    <2>3. <<>> \in Seq(S)
      OBVIOUS
    <2> HIDE DEF Upto
    <2> QED BY <2>1, <2>2, <2>3
  <1>3. ASSUME NEW n \in 0 .. Len(s) - 1, n \in T
        PROVE  n + 1 \in T
    <2>1. F[n] \in Seq(S) /\ n + 1 \in 1 .. Len(s) /\ n \in Nat /\ Len(s) \in Nat
      BY <1>3
    <2>2. PICK e : Chosen(e, F[n], s, Upto(n))
      BY <1>3
    <2>3. F[n + 1] = IF n + 1 \in I THEN Append(F[n], s[n + 1]) ELSE F[n]
      <3>1. n + 1 - 1 = n
        BY <2>1
      <3> QED BY <1>1, <2>1, <3>1 DEF Steps
    <2>4. CASE n + 1 \notin I
      <3>1. Upto(n + 1) = Upto(n)
        BY <2>1, <2>4
      <3> HIDE DEF Upto
      <3> QED BY <2>1, <2>2, <2>3, <2>4, <3>1
    <2>5. CASE n + 1 \in I
      <3> DEFINE q == F[n]
                 m == Len(q)
                 d == [k \in 1 .. m + 1 |-> IF k = m + 1 THEN n + 1 ELSE e[k]]
      <3>1. m \in Nat /\ q \in Seq(S)
        BY <2>1
      <3>2. F[n + 1] = Append(q, s[n + 1])
        BY <2>3, <2>5
      <3>3. /\ Append(q, s[n + 1]) \in Seq(S)
            /\ Len(Append(q, s[n + 1])) = m + 1
            /\ Append(q, s[n + 1]) = [k \in 1 .. m + 1 |-> IF k = m + 1 THEN s[n + 1] ELSE q[k]]
        BY <2>1, <3>1
      <3>4. /\ q = [k \in 1 .. m |-> s[e[k]]]
            /\ e \in [1 .. m -> Upto(n) \cap (1 .. Len(s))]
            /\ \A k, l \in 1 .. m : k < l => e[k] < e[l]
            /\ \A i \in Upto(n) \cap (1 .. Len(s)) : \E k \in 1 .. m : e[k] = i
        BY <2>2 DEF Chosen
      <3> HIDE DEF q, m
      <3>5. /\ \A k \in 1 .. m : d[k] = e[k] /\ e[k] \in 1 .. n /\ e[k] \in I
            /\ d[m + 1] = n + 1
        BY <3>1, <3>4
      <3>6. d \in [1 .. m + 1 -> Upto(n + 1) \cap (1 .. Len(s))]
        <4>1. \A k \in 1 .. m + 1 : k \in 1 .. m \/ k = m + 1
          BY <3>1
        <4>2. \A k \in 1 .. m : d[k] \in I /\ d[k] \in 1 .. n + 1 /\ d[k] \in 1 .. Len(s)
          <5> HIDE DEF d
          <5> TAKE k \in 1 .. m
          <5>1. d[k] \in I /\ d[k] \in 1 .. n
            BY <3>5
          <5> QED BY <2>1, <5>1
        <4>3. d[m + 1] \in I /\ d[m + 1] \in 1 .. n + 1 /\ d[m + 1] \in 1 .. Len(s)
          BY <2>1, <2>5, <3>5
        <4>4. \A k \in 1 .. m + 1 : d[k] \in Upto(n + 1) \cap (1 .. Len(s))
          BY <4>1, <4>2, <4>3
        <4>5. d = [k \in 1 .. m + 1 |-> d[k]]
          OBVIOUS
        <4> HIDE DEF d, Upto
        <4> QED BY <4>4, <4>5
      <3>7. \A k, l \in 1 .. m + 1 : k < l => d[k] < d[l]
        BY <2>1, <3>1, <3>4, <3>5
      <3>8. \A i \in Upto(n + 1) \cap (1 .. Len(s)) : \E k \in 1 .. m + 1 : d[k] = i
        <4> TAKE i \in Upto(n + 1) \cap (1 .. Len(s))
        <4>1. CASE i = n + 1
          BY <3>1, <3>5, <4>1
        <4>2. CASE i # n + 1
          <5>1. i \in Upto(n) \cap (1 .. Len(s))
            BY <2>1, <4>2
          <5> QED BY <3>1, <3>4, <3>5, <5>1
        <4> QED BY <4>1, <4>2
      <3>9. Append(q, s[n + 1]) = [k \in 1 .. m + 1 |-> s[d[k]]]
        BY <3>1, <3>3, <3>4, <3>5
      <3>10. Chosen(d, F[n + 1], s, Upto(n + 1))
        <4> DEFINE r == F[n + 1]
                   J == Upto(n + 1)
        <4>1. Len(r) = m + 1 /\ r = [k \in 1 .. m + 1 |-> s[d[k]]]
          BY <3>2, <3>3, <3>9
        <4>2. m + 1 \in Nat
          BY <3>1
        <4>3. /\ d \in [1 .. m + 1 -> J \cap (1 .. Len(s))]
              /\ \A i \in J \cap (1 .. Len(s)) : \E k \in 1 .. m + 1 : d[k] = i
          BY <3>6, <3>8
        <4> HIDE DEF d, r, J
        <4>4. Chosen(d, r, s, J)
          BY <3>7, <4>1, <4>2, <4>3 DEF Chosen
        <4> QED BY <4>4 DEF r, J
      <3> HIDE DEF d, Upto
      <3> QED BY <2>1, <3>2, <3>3, <3>10
    <2> QED BY <2>4, <2>5
  <1>4. Len(s) \in T
    <2>1. Len(s) \in Nat
      OBVIOUS
    <2> HIDE DEF T
    <2>2. 0 .. Len(s) \subseteq T
      BY <1>2, <1>3, <2>1, UpInduction
    <2> QED BY <2>1, <2>2
  <1>5. F[Len(s)] \in Seq(S)
    BY <1>4
  <1>6. PICK e : Chosen(e, F[Len(s)], s, Upto(Len(s)))
    BY <1>4
  <1>7. Upto(Len(s)) \cap (1 .. Len(s)) = I \cap (1 .. Len(s))
    OBVIOUS
  <1> HIDE DEF Upto
  <1>8. Chosen(e, F[Len(s)], s, I)
    BY <1>6, <1>7 DEF Chosen
  <1> QED BY <1>1, <1>5, <1>8

LEMMA SelectElements ==
  ASSUME NEW S, NEW s \in Seq(S), NEW I
  PROVE  ToSet(Select(s, I)) = {s[i] : i \in I \cap (1 .. Len(s))}
  <1> DEFINE q == Select(s, I)
  <1>1. q \in Seq(S) /\ \E e : Chosen(e, q, s, I)
    BY SelectChosen
  <1>2. PICK e : Chosen(e, q, s, I)
    BY <1>1
  <1> HIDE DEF q
  <1>3. /\ DOMAIN q = 1 .. Len(q)
        /\ \A k \in 1 .. Len(q) : q[k] = s[e[k]] /\ e[k] \in I \cap (1 .. Len(s))
    BY <1>1, <1>2 DEF Chosen
  <1>4. \A i \in I \cap (1 .. Len(s)) : \E k \in 1 .. Len(q) : e[k] = i
    BY <1>2 DEF Chosen
  <1>5. ToSet(q) = {q[k] : k \in 1 .. Len(q)}
    BY <1>3 DEF ToSet
  <1>6. \A k \in 1 .. Len(q) : q[k] \in {s[i] : i \in I \cap (1 .. Len(s))}
    BY <1>3
  <1>7. \A i \in I \cap (1 .. Len(s)) : \E k \in 1 .. Len(q) : q[k] = s[i]
    BY <1>3, <1>4
  <1>8. ToSet(q) = {s[i] : i \in I \cap (1 .. Len(s))}
    BY <1>5, <1>6, <1>7
  <1> QED BY <1>8 DEF q

\* Order is kept, in both directions.
KeepsOrder(q, s, I) ==
  /\ \A k, l \in 1 .. Len(q) : k < l =>
       \E i, j \in I \cap (1 .. Len(s)) : i < j /\ q[k] = s[i] /\ q[l] = s[j]
  /\ \A i, j \in I \cap (1 .. Len(s)) : i < j =>
       \E k, l \in 1 .. Len(q) : k < l /\ q[k] = s[i] /\ q[l] = s[j]

LEMMA SelectOrdered ==
  ASSUME NEW S, NEW s \in Seq(S), NEW I
  PROVE  KeepsOrder(Select(s, I), s, I)
  <1> DEFINE q == Select(s, I)
  <1>1. q \in Seq(S) /\ \E e : Chosen(e, q, s, I)
    BY SelectChosen
  <1>2. PICK e : Chosen(e, q, s, I)
    BY <1>1
  <1> HIDE DEF q
  <1>3. /\ \A k \in 1 .. Len(q) : q[k] = s[e[k]] /\ e[k] \in I \cap (1 .. Len(s))
        /\ \A k, l \in 1 .. Len(q) : k < l => e[k] < e[l]
        /\ \A i \in I \cap (1 .. Len(s)) : \E k \in 1 .. Len(q) : e[k] = i
        /\ Len(q) \in Nat
    BY <1>2 DEF Chosen
  <1>4. \A k, l \in 1 .. Len(q) : k < l =>
          \E i, j \in I \cap (1 .. Len(s)) : i < j /\ q[k] = s[i] /\ q[l] = s[j]
    BY <1>3
  <1>5. ASSUME NEW i \in I \cap (1 .. Len(s)), NEW j \in I \cap (1 .. Len(s)), i < j
        PROVE  \E k, l \in 1 .. Len(q) : k < l /\ q[k] = s[i] /\ q[l] = s[j]
    <2>1. PICK k \in 1 .. Len(q) : e[k] = i
      BY <1>3
    <2>2. PICK l \in 1 .. Len(q) : e[l] = j
      BY <1>3
    <2>3. ~(l < k) /\ l # k
      BY <1>3, <1>5, <2>1, <2>2
    <2> QED BY <1>3, <2>1, <2>2, <2>3
  <1> QED BY <1>4, <1>5 DEF q, KeepsOrder

\* A selection that is a prefix.
LEMMA SelectPrefix ==
  ASSUME NEW S, NEW s \in Seq(S), NEW I, NEW c \in 0 .. Len(s),
         I \cap (1 .. Len(s)) = 1 .. c
  PROVE  Select(s, I) = SubSeq(s, 1, c)
  <1>1. PICK F : Steps(F, s, I) /\ Select(s, I) = F[Len(s)]
    BY SelectSteps
  <1> DEFINE P(n) == /\ n <= c => F[n] = SubSeq(s, 1, n)
                     /\ c <= n => F[n] = SubSeq(s, 1, c)
             T == {n \in Nat : P(n)}
  <1>2. 0 \in T
    <2>1. F[0] = <<>> /\ SubSeq(s, 1, 0) = <<>>
      BY <1>1 DEF Steps
    <2>2. c <= 0 => c = 0
      OBVIOUS
    <2>3. P(0)
      BY <2>1, <2>2
    <2> HIDE DEF P
    <2> QED BY <2>3
  <1>3. ASSUME NEW n \in 0 .. Len(s) - 1, n \in T
        PROVE  n + 1 \in T
    <2>1. /\ n + 1 \in 1 .. Len(s) /\ n \in Nat /\ Len(s) \in Nat /\ n + 1 - 1 = n /\ c \in Nat
          /\ n + 1 \in I <=> n + 1 <= c
      OBVIOUS
    <2>2. F[n + 1] = IF n + 1 \in I THEN Append(F[n], s[n + 1]) ELSE F[n]
      BY <1>1, <2>1 DEF Steps
    <2>3. CASE n + 1 <= c
      <3>1. F[n] = SubSeq(s, 1, n)
        <4>1. P(n)
          <5> HIDE DEF P
          <5> QED BY <1>3
        <4> QED BY <2>1, <2>3, <4>1
      <3>2. SubSeq(s, 1, n + 1) = Append(SubSeq(s, 1, n), s[n + 1])
        BY <2>1
      <3>3. F[n + 1] = SubSeq(s, 1, n + 1)
        BY <2>1, <2>2, <2>3, <3>1, <3>2
      <3>4. c <= n + 1 => c = n + 1
        BY <2>1, <2>3
      <3>5. P(n + 1)
        BY <3>3, <3>4
      <3> HIDE DEF P
      <3> QED BY <2>1, <3>5
    <2>4. CASE ~(n + 1 <= c)
      <3>1. c <= n /\ (n <= c => n = c)
        BY <2>1, <2>4
      <3>2. F[n] = SubSeq(s, 1, c)
        <4>1. P(n)
          <5> HIDE DEF P
          <5> QED BY <1>3
        <4> QED BY <3>1, <4>1
      <3>3. F[n + 1] = SubSeq(s, 1, c)
        BY <2>1, <2>2, <2>4, <3>2
      <3>4. P(n + 1)
        BY <2>4, <3>3
      <3> HIDE DEF P
      <3> QED BY <2>1, <3>4
    <2> QED BY <2>3, <2>4
  <1>4. Len(s) \in T
    <2>1. Len(s) \in Nat
      OBVIOUS
    <2> HIDE DEF T
    <2>2. 0 .. Len(s) \subseteq T
      BY <1>2, <1>3, <2>1, UpInduction
    <2> QED BY <2>1, <2>2
  <1>5. c <= Len(s)
    OBVIOUS
  <1>6. P(Len(s))
    <2> HIDE DEF P
    <2> QED BY <1>4
  <1> QED BY <1>1, <1>5, <1>6

-----------------------------------------------------------------------------
(* Sorted sequences *)

\* R is a relation, as a set of pairs.
Asymmetric(R) == \A x, y : <<x, y>> \in R => <<y, x>> \notin R

Sorted(s, R) == \A i, j \in 1 .. Len(s) : i < j => <<s[i], s[j]>> \in R

LEMMA SelectSorted ==
  ASSUME NEW S, NEW s \in Seq(S), NEW I, NEW R, Sorted(s, R)
  PROVE  Sorted(Select(s, I), R)
  <1> DEFINE q == Select(s, I)
  <1>1. KeepsOrder(q, s, I)
    BY SelectOrdered
  <1> HIDE DEF q
  <1>2. ASSUME NEW k \in 1 .. Len(q), NEW l \in 1 .. Len(q), k < l
        PROVE  <<q[k], q[l]>> \in R
    <2>1. PICK i, j \in I \cap (1 .. Len(s)) : i < j /\ q[k] = s[i] /\ q[l] = s[j]
      BY <1>1, <1>2 DEF KeepsOrder
    <2> QED BY <2>1 DEF Sorted
  <1> QED BY <1>2 DEF Sorted, q

\* A sorted sequence is known by its elements.
LEMMA SortedUnique ==
  ASSUME NEW S, NEW s \in Seq(S), NEW t \in Seq(S), NEW R, Asymmetric(R),
         Sorted(s, R), Sorted(t, R), ToSet(s) = ToSet(t)
  PROVE  s = t
  <1>1. /\ Len(s) \in Nat /\ DOMAIN s = 1 .. Len(s) /\ s = [i \in 1 .. Len(s) |-> s[i]]
        /\ Len(t) \in Nat /\ DOMAIN t = 1 .. Len(t) /\ t = [i \in 1 .. Len(t) |-> t[i]]
    OBVIOUS
  <1>2. /\ \A i \in 1 .. Len(s) : \E j \in 1 .. Len(t) : s[i] = t[j]
        /\ \A i \in 1 .. Len(t) : \E j \in 1 .. Len(s) : t[i] = s[j]
    <2>1. {s[i] : i \in 1 .. Len(s)} = {t[i] : i \in 1 .. Len(t)}
      BY <1>1 DEF ToSet
    <2> QED BY <2>1
  <1> DEFINE T == {n \in Nat : n <= Len(t) /\ \A i \in 1 .. n : s[i] = t[i]}
  <1>3. 0 \in T
    BY <1>1
  <1>4. ASSUME NEW n \in 0 .. Len(s) - 1, n \in T
        PROVE  n + 1 \in T
    <2>1. n + 1 \in 1 .. Len(s) /\ n \in Nat /\ n <= Len(t) /\ \A i \in 1 .. n : s[i] = t[i]
      BY <1>1, <1>4
    <2>2. PICK j \in 1 .. Len(t) : s[n + 1] = t[j]
      BY <1>2, <2>1
    <2>3. ~(j <= n)
      <3> SUFFICES ASSUME j <= n PROVE FALSE
        OBVIOUS
      <3>1. j \in 1 .. n /\ j \in 1 .. Len(s) /\ j < n + 1 /\ s[j] = s[n + 1]
        BY <1>1, <2>1, <2>2
      <3>2. <<s[j], s[n + 1]>> \in R
        BY <2>1, <3>1 DEF Sorted
      <3> QED BY <3>1, <3>2 DEF Asymmetric
    <2>4. n + 1 \in 1 .. Len(t)
      BY <1>1, <2>1, <2>2, <2>3
    <2>5. PICK k \in 1 .. Len(s) : t[n + 1] = s[k]
      BY <1>2, <2>4
    <2>6. ~(k <= n)
      <3> SUFFICES ASSUME k <= n PROVE FALSE
        OBVIOUS
      <3>1. k \in 1 .. n /\ k \in 1 .. Len(t) /\ k < n + 1 /\ t[k] = t[n + 1]
        BY <1>1, <2>1, <2>5
      <3>2. <<t[k], t[n + 1]>> \in R
        BY <2>4, <3>1 DEF Sorted
      <3> QED BY <3>1, <3>2 DEF Asymmetric
    <2>7. s[n + 1] = t[n + 1]
      <3>1. CASE j = n + 1 \/ k = n + 1
        BY <3>1, <2>2, <2>5
      <3>2. CASE n + 1 < j /\ n + 1 < k
        <4>1. <<t[n + 1], t[j]>> \in R
          BY <2>4, <3>2 DEF Sorted
        <4>2. <<s[n + 1], s[k]>> \in R
          BY <2>1, <3>2 DEF Sorted
        <4> QED BY <2>2, <2>5, <4>1, <4>2 DEF Asymmetric
      <3> QED BY <1>1, <2>1, <2>2, <2>3, <2>5, <2>6, <3>1, <3>2
    <2>8. \A i \in 1 .. n + 1 : s[i] = t[i]
      BY <2>1, <2>7
    <2> QED BY <1>1, <2>1, <2>4, <2>8
  <1>5. Len(s) \in T
    <2> HIDE DEF T
    <2>1. 0 .. Len(s) \subseteq T
      BY <1>1, <1>3, <1>4, UpInduction
    <2> QED BY <1>1, <2>1
  <1>6. Len(t) <= Len(s)
    <2> SUFFICES ASSUME Len(s) < Len(t) PROVE FALSE
      BY <1>1
    <2>1. Len(s) + 1 \in 1 .. Len(t)
      BY <1>1
    <2>2. PICK j \in 1 .. Len(s) : t[Len(s) + 1] = s[j]
      BY <1>2, <2>1
    <2>3. t[Len(s) + 1] = t[j] /\ j < Len(s) + 1 /\ j \in 1 .. Len(t)
      BY <1>1, <1>5, <2>2
    <2> QED BY <2>1, <2>3 DEF Sorted, Asymmetric
  <1>7. Len(s) <= Len(t) /\ \A i \in 1 .. Len(s) : s[i] = t[i]
    BY <1>5
  <1>8. Len(s) = Len(t)
    <2>1. Len(s) \in Nat /\ Len(t) \in Nat
      OBVIOUS
    <2> QED BY <1>6, <1>7, <2>1
  <1> QED BY <1>1, <1>7, <1>8

\* ... and so is its prefix.
LEMMA SortedPrefix ==
  ASSUME NEW S, NEW p \in Seq(S), NEW q \in Seq(S), NEW R, Asymmetric(R),
         Sorted(p, R), Sorted(q, R), ToSet(p) \subseteq ToSet(q),
         \A i, j \in 1 .. Len(q) : i < j /\ q[j] \in ToSet(p) => q[i] \in ToSet(p)
  PROVE  IsPrefix(p, q)
  <1> DEFINE I == {i \in 1 .. Len(q) : q[i] \in ToSet(p)}
             U == {c \in Nat : c + 1 \in 1 .. Len(q) => c + 1 \notin I}
  <1>1. Len(q) \in Nat /\ Len(p) \in Nat
    OBVIOUS
  <1>2. Len(q) \in U
    BY <1>1
  <1>3. PICK c \in U : \A d \in U : c <= d
    <2>1. U \in SUBSET Nat /\ U # {}
      BY <1>2
    <2> HIDE DEF U
    <2> QED BY <2>1, NatMin
  <1>4. c \in 0 .. Len(q)
    BY <1>1, <1>2, <1>3
  <1>5. ASSUME NEW i \in 1 .. Len(q)
        PROVE  i <= c <=> i \in I
    <2>1. CASE i <= c
      <3>1. i - 1 \in Nat /\ ~(c <= i - 1) /\ i - 1 + 1 = i
        BY <1>1, <1>4, <2>1
      <3>2. i - 1 \notin U
        <4> HIDE DEF U
        <4> QED BY <1>3, <3>1
      <3> QED BY <2>1, <3>1, <3>2
    <2>2. CASE ~(i <= c)
      <3>1. c + 1 \in 1 .. Len(q) /\ (c + 1 < i \/ c + 1 = i)
        BY <1>1, <1>4, <2>2
      <3>2. c + 1 \notin I
        BY <1>3, <3>1
      <3> QED BY <2>2, <3>1, <3>2
    <2> QED BY <2>1, <2>2
  <1>6. I \cap (1 .. Len(q)) = 1 .. c
    BY <1>1, <1>4, <1>5
  <1> DEFINE t == SubSeq(q, 1, c)
  <1>7. Select(q, I) = t
    <2> HIDE DEF I
    <2> QED BY <1>4, <1>6, SelectPrefix
  <1>8. ToSet(Select(q, I)) = {q[i] : i \in I \cap (1 .. Len(q))}
    <2> HIDE DEF I
    <2> QED BY SelectElements
  <1>9. \A x \in ToSet(p) : \E i \in 1 .. Len(q) : q[i] = x
    BY ElementsOf
  <1>10. ToSet(t) = ToSet(p)
    <2>1. \A i \in I \cap (1 .. Len(q)) : q[i] \in ToSet(p)
      OBVIOUS
    <2>2. \A x \in ToSet(p) : \E i \in I \cap (1 .. Len(q)) : q[i] = x
      BY <1>9
    <2> HIDE DEF t, I
    <2> QED BY <1>7, <1>8, <2>1, <2>2
  <1>11. t \in Seq(S) /\ Sorted(t, R)
    <2> HIDE DEF t, I
    <2> QED BY <1>7, SelectChosen, SelectSorted
  <1>12. t = p
    <2> HIDE DEF t
    <2> QED BY <1>10, <1>11, SortedUnique
  <1>13. Len(t) = c
    <2>1. 1 \in 1 .. Len(q) + 1 /\ c \in 1 - 1 .. Len(q) /\ c - 1 + 1 = c
      BY <1>1, <1>4
    <2> QED BY <2>1, SubSeqFacts
  <1>14. SubSeq(p, 1, Len(p)) = p
    OBVIOUS
  <1> HIDE DEF t
  <1>15. Len(p) = c /\ Len(p) <= Len(q)
    BY <1>1, <1>4, <1>12, <1>13
  <1> QED BY <1>12, <1>14, <1>15 DEF IsPrefix, t

-----------------------------------------------------------------------------
(* Logs of firings *)

LEMMA LogsTyped ==
  ASSUME NEW S, NEW s \in Seq(S), NEW n, NEW t
  PROVE  FiringsOf(s, n) \in Seq(S) /\ UpTo(s, t) \in Seq(S) /\ KeepFirst(s) \in Seq(S)
  BY SelectChosen DEF FiringsOf, UpTo, KeepFirst

LEMMA LogsEmpty ==
  ASSUME NEW n, NEW t
  PROVE  FiringsOf(<<>>, n) = <<>> /\ UpTo(<<>>, t) = <<>> /\ KeepFirst(<<>>) = <<>>
  BY SelectEmpty DEF FiringsOf, UpTo, KeepFirst

LEMMA FiringsOfElements ==
  ASSUME NEW S, NEW s \in Seq(S), NEW n
  PROVE  ToSet(FiringsOf(s, n)) = {f \in ToSet(s) : f.node = n}
  <1> DEFINE I == {i \in DOMAIN s : s[i].node = n}
  <1>1. ToSet(Select(s, I)) = {s[i] : i \in I \cap (1 .. Len(s))}
    BY SelectElements
  <1>2. I \cap (1 .. Len(s)) = I /\ DOMAIN s = 1 .. Len(s)
    OBVIOUS
  <1>3. {s[i] : i \in I} = {f \in ToSet(s) : f.node = n}
    BY <1>2 DEF ToSet
  <1> QED BY <1>1, <1>2, <1>3 DEF FiringsOf

LEMMA UpToElements ==
  ASSUME NEW S, NEW s \in Seq(S), NEW t
  PROVE  ToSet(UpTo(s, t)) = {f \in ToSet(s) : f.tick <= t}
  <1> DEFINE I == {i \in DOMAIN s : s[i].tick <= t}
  <1>1. ToSet(Select(s, I)) = {s[i] : i \in I \cap (1 .. Len(s))}
    BY SelectElements
  <1>2. I \cap (1 .. Len(s)) = I /\ DOMAIN s = 1 .. Len(s)
    OBVIOUS
  <1>3. {s[i] : i \in I} = {f \in ToSet(s) : f.tick <= t}
    BY <1>2 DEF ToSet
  <1> QED BY <1>1, <1>2, <1>3 DEF UpTo

LEMMA FiringsOfAppend ==
  ASSUME NEW S, NEW s \in Seq(S), NEW x \in S, NEW n
  PROVE  FiringsOf(Append(s, x), n) =
           IF x.node = n THEN Append(FiringsOf(s, n), x) ELSE FiringsOf(s, n)
  <1> DEFINE t == Append(s, x)
             I == {i \in DOMAIN s : s[i].node = n}
             J == {i \in DOMAIN t : t[i].node = n}
  <1>1. /\ Len(t) = Len(s) + 1 /\ Len(s) \in Nat
        /\ DOMAIN t = 1 .. Len(s) + 1 /\ DOMAIN s = 1 .. Len(s)
        /\ t[Len(s) + 1] = x /\ \A k \in 1 .. Len(s) : t[k] = s[k]
    OBVIOUS
  <1>2. Select(t, J) = IF Len(s) + 1 \in J THEN Append(Select(s, J), x) ELSE Select(s, J)
    <2> HIDE DEF J
    <2> QED BY SelectAppend
  <1> HIDE DEF t
  <1>3. I \cap (1 .. Len(s)) = J \cap (1 .. Len(s))
    BY <1>1
  <1>4. Select(s, J) = Select(s, I)
    <2> HIDE DEF I, J
    <2> QED BY <1>3, SelectSame
  <1>5. Len(s) + 1 \in J <=> x.node = n
    BY <1>1
  <1>6. Select(t, J) = IF x.node = n THEN Append(Select(s, I), x) ELSE Select(s, I)
    <2> HIDE DEF I, J
    <2> QED BY <1>2, <1>4, <1>5
  <1> QED BY <1>6 DEF FiringsOf, t

\* In a log in the order of its ticks, what is not after t comes first.
LEMMA UpToPrefix ==
  ASSUME NEW S, NEW s \in Seq(S), \A x \in S : x.tick \in Int, NEW t \in Int,
         \A i, j \in 1 .. Len(s) : i < j => s[i].tick <= s[j].tick
  PROVE  \E c \in 0 .. Len(s) : /\ UpTo(s, t) = SubSeq(s, 1, c)
                                /\ \A i \in 1 .. Len(s) : i <= c <=> s[i].tick <= t
  <1> DEFINE I == {i \in DOMAIN s : s[i].tick <= t}
             U == {c \in Nat : c + 1 \in 1 .. Len(s) => t < s[c + 1].tick}
  <1>1. DOMAIN s = 1 .. Len(s) /\ Len(s) \in Nat /\ \A i \in 1 .. Len(s) : s[i].tick \in Int
    OBVIOUS
  <1>2. Len(s) \in U
    BY <1>1
  <1>3. PICK c \in U : \A d \in U : c <= d
    <2>1. U \in SUBSET Nat /\ U # {}
      BY <1>2
    <2> HIDE DEF U
    <2> QED BY <2>1, NatMin
  <1>4. c \in 0 .. Len(s)
    BY <1>1, <1>2, <1>3
  <1>5. ASSUME NEW i \in 1 .. Len(s)
        PROVE  i <= c <=> s[i].tick <= t
    <2>1. CASE i <= c
      <3>1. i - 1 \in Nat /\ i - 1 \notin U
        <4>1. i - 1 \in Nat /\ ~(c <= i - 1)
          <5>1. c \in Nat /\ i \in Nat /\ 1 <= i
            BY <1>1, <1>4
          <5> QED BY <2>1, <5>1
        <4> HIDE DEF U
        <4> QED BY <1>3, <4>1
      <3>2. i - 1 + 1 = i
        OBVIOUS
      <3> QED BY <1>1, <2>1, <3>1, <3>2
    <2>2. CASE ~(i <= c)
      <3>1. c + 1 \in 1 .. Len(s) /\ c + 1 <= i
        BY <1>1, <1>4, <2>2
      <3>2. t < s[c + 1].tick
        BY <1>3, <3>1
      <3>3. s[c + 1].tick <= s[i].tick
        BY <1>1, <3>1
      <3> QED BY <1>1, <2>2, <3>1, <3>2, <3>3
    <2> QED BY <2>1, <2>2
  <1>6. I \cap (1 .. Len(s)) = 1 .. c
    BY <1>1, <1>4, <1>5
  <1>7. Select(s, I) = SubSeq(s, 1, c)
    <2> HIDE DEF I
    <2> QED BY <1>4, <1>6, SelectPrefix
  <1> QED BY <1>4, <1>5, <1>7 DEF UpTo

LEMMA FiringsOfUpTo ==
  ASSUME NEW S, NEW s \in Seq(S), NEW R, Asymmetric(R), Sorted(s, R), NEW n, NEW t
  PROVE  FiringsOf(UpTo(s, t), n) = UpTo(FiringsOf(s, n), t)
  <1> DEFINE p == UpTo(s, t)
             q == FiringsOf(s, n)
  <1>1. p \in Seq(S) /\ q \in Seq(S) /\ Sorted(p, R) /\ Sorted(q, R)
    BY LogsTyped, SelectSorted DEF UpTo, FiringsOf
  <1>2. ToSet(p) = {f \in ToSet(s) : f.tick <= t} /\ ToSet(q) = {f \in ToSet(s) : f.node = n}
    BY UpToElements, FiringsOfElements
  <1> HIDE DEF p, q
  <1> DEFINE pn == FiringsOf(p, n)
             qt == UpTo(q, t)
  <1>3. pn \in Seq(S) /\ qt \in Seq(S) /\ Sorted(pn, R) /\ Sorted(qt, R)
    BY <1>1, LogsTyped, SelectSorted DEF UpTo, FiringsOf
  <1>4. ToSet(pn) = {f \in ToSet(p) : f.node = n} /\ ToSet(qt) = {f \in ToSet(q) : f.tick <= t}
    BY <1>1, UpToElements, FiringsOfElements
  <1> HIDE DEF pn, qt
  <1>5. ToSet(pn) = ToSet(qt)
    BY <1>2, <1>4
  <1>6. pn = qt
    BY <1>3, <1>5, SortedUnique
  <1> QED BY <1>6 DEF p, q, pn, qt

\* Where no two firings are of one tick, the last is the newest.
LEMMA LastIsNewest ==
  ASSUME NEW S, NEW s \in Seq(S), \A x \in S : x.tick \in Int,
         \A i, j \in 1 .. Len(s) : i < j => s[i].tick < s[j].tick
  PROVE  LastOf(s) = {f \in ToSet(s) : \A g \in ToSet(s) : g.tick <= f.tick}
  <1> DEFINE m == Len(s)
  <1>1. /\ DOMAIN s = 1 .. m /\ m \in Nat /\ \A i \in 1 .. m : s[i].tick \in Int
        /\ s = <<>> <=> m = 0
    OBVIOUS
  <1>2. \A i, j \in 1 .. m : i < j => s[i].tick < s[j].tick
    OBVIOUS
  <1>3. LastOf(s) = IF s = <<>> THEN {} ELSE {s[m]}
    BY DEF LastOf
  <1>4. ToSet(s) = {s[i] : i \in 1 .. m}
    BY <1>1 DEF ToSet
  <1> HIDE DEF m
  <1>5. CASE s = <<>>
    BY <1>1, <1>3, <1>4, <1>5
  <1>6. CASE s # <<>>
    <2>1. m \in 1 .. m
      BY <1>1, <1>6
    <2>2. \A i \in 1 .. m : s[i].tick <= s[m].tick /\ (s[m].tick <= s[i].tick => i = m)
      <3> TAKE i \in 1 .. m
      <3>1. i < m \/ i = m
        BY <1>1
      <3> QED BY <1>1, <1>2, <2>1, <3>1
    <2> QED BY <1>3, <1>4, <1>6, <2>1, <2>2
  <1> QED BY <1>5, <1>6

\* Without repetitions a log has the same firings ...
LEMMA KeepFirstElements ==
  ASSUME NEW S, NEW s \in Seq(S), \A x, y \in ToSet(s) : SameKey(x, y) => x = y
  PROVE  ToSet(KeepFirst(s)) = ToSet(s)
  <1> DEFINE I == {i \in DOMAIN s : \A j \in 1 .. i - 1 : ~SameKey(s[j], s[i])}
  <1>1. ToSet(Select(s, I)) = {s[i] : i \in I \cap (1 .. Len(s))}
    BY SelectElements
  <1>2. I \cap (1 .. Len(s)) = I /\ DOMAIN s = 1 .. Len(s) /\ Len(s) \in Nat
    OBVIOUS
  <1>3. ASSUME NEW f \in ToSet(s)
        PROVE  \E i \in I : s[i] = f
    <2> DEFINE U == {i \in 1 .. Len(s) : s[i] = f}
    <2>1. U \in SUBSET Nat /\ U # {}
      BY <1>2 DEF ToSet
    <2>2. PICK i \in U : \A j \in U : i <= j
      <3> HIDE DEF U
      <3> QED BY <2>1, NatMin
    <2>3. ASSUME NEW j \in 1 .. i - 1, SameKey(s[j], s[i])
          PROVE  FALSE
      <3>1. j \in 1 .. Len(s) /\ s[j] \in ToSet(s) /\ s[i] \in ToSet(s)
        BY <1>2, <2>2 DEF ToSet
      <3>2. j \in U
        BY <2>2, <2>3, <3>1
      <3> QED BY <2>2, <3>2
    <2> QED BY <1>2, <2>2, <2>3
  <1>4. {s[i] : i \in I} = ToSet(s)
    <2>1. \A i \in I : s[i] \in ToSet(s)
      BY <1>2 DEF ToSet
    <2> HIDE DEF I
    <2> QED BY <1>3, <2>1
  <1> HIDE DEF I
  <1>5. ToSet(Select(s, I)) = ToSet(s)
    BY <1>1, <1>2, <1>4
  <1> QED BY <1>5 DEF KeepFirst, I

LEMMA KeepFirstKeys ==
  ASSUME NEW S, NEW s \in Seq(S)
  PROVE  /\ ToSet(KeepFirst(s)) \subseteq ToSet(s)
         /\ \A x \in ToSet(s) : \E y \in ToSet(KeepFirst(s)) : SameKey(x, y)
  <1> DEFINE I == {i \in DOMAIN s : \A j \in 1 .. i - 1 : ~SameKey(s[j], s[i])}
  <1>1. ToSet(KeepFirst(s)) = {s[i] : i \in I \cap (1 .. Len(s))}
    BY SelectElements DEF KeepFirst
  <1>2. DOMAIN s = 1 .. Len(s) /\ Len(s) \in Nat /\ ToSet(s) = {s[i] : i \in 1 .. Len(s)}
    BY DEF ToSet
  <1>3. ASSUME NEW x \in ToSet(s)
        PROVE  \E i \in I : SameKey(x, s[i])
    <2> DEFINE T == {i \in 1 .. Len(s) : SameKey(x, s[i])}
    <2>1. T \in SUBSET Nat /\ T # {}
      BY <1>2 DEF SameKey
    <2>2. PICK i \in T : \A j \in T : i <= j
      BY <2>1, NatMin
    <2>3. ASSUME NEW j \in 1 .. i - 1, SameKey(s[j], s[i])
          PROVE  FALSE
      <3>1. j \in T
        BY <1>2, <2>3 DEF SameKey
      <3> QED BY <2>2, <3>1
    <2> QED BY <1>2, <2>3
  <1> QED BY <1>1, <1>2, <1>3

\* ... and is sorted, if no firing came before an earlier one.
LEMMA KeepFirstSorted ==
  ASSUME NEW S, NEW s \in Seq(S), NEW R,
         \A x, y \in ToSet(s) : <<x, y>> \in R \/ <<y, x>> \in R \/ SameKey(x, y),
         \A i \in 1 .. Len(s) : \A g \in ToSet(s) :
           <<g, s[i]>> \in R => \E j \in 1 .. i - 1 : SameKey(s[j], g)
  PROVE  Sorted(KeepFirst(s), R)
  <1> DEFINE I == {i \in DOMAIN s : \A j \in 1 .. i - 1 : ~SameKey(s[j], s[i])}
             q == Select(s, I)
  <1>1. KeepsOrder(q, s, I)
    BY SelectOrdered
  <1>2. DOMAIN s = 1 .. Len(s) /\ Len(s) \in Nat
    OBVIOUS
  <1> HIDE DEF q
  <1>3. ASSUME NEW k \in 1 .. Len(q), NEW l \in 1 .. Len(q), k < l
        PROVE  <<q[k], q[l]>> \in R
    <2>1. PICK i, j \in I \cap (1 .. Len(s)) : i < j /\ q[k] = s[i] /\ q[l] = s[j]
      <3> HIDE DEF I
      <3> QED BY <1>1, <1>3 DEF KeepsOrder
    <2>2. i \in 1 .. j - 1 /\ ~SameKey(s[i], s[j])
      BY <1>2, <2>1
    <2>3. s[i] \in ToSet(s) /\ s[j] \in ToSet(s)
      BY <1>2, <2>1 DEF ToSet
    <2>4. ASSUME <<s[j], s[i]>> \in R
          PROVE  FALSE
      <3>1. PICK h \in 1 .. i - 1 : SameKey(s[h], s[j])
        BY <2>1, <2>3, <2>4
      <3>2. h \in 1 .. j - 1 /\ SameKey(s[h], s[j])
        BY <2>2, <3>1 DEF SameKey
      <3>3. \A g \in 1 .. j - 1 : ~SameKey(s[g], s[j])
        BY <2>1
      <3> QED BY <3>2, <3>3
    <2> QED BY <2>1, <2>2, <2>3, <2>4
  <1>4. Sorted(q, R)
    BY <1>3 DEF Sorted
  <1> QED BY <1>4 DEF KeepFirst, q

LEMMA KeepFirstAppend ==
  ASSUME NEW S, NEW s \in Seq(S), NEW x \in S
  PROVE  KeepFirst(Append(s, x)) =
           IF \E y \in ToSet(s) : SameKey(y, x) THEN KeepFirst(s) ELSE Append(KeepFirst(s), x)
  <1> DEFINE t == Append(s, x)
             I == {i \in DOMAIN s : \A j \in 1 .. i - 1 : ~SameKey(s[j], s[i])}
             J == {i \in DOMAIN t : \A j \in 1 .. i - 1 : ~SameKey(t[j], t[i])}
  <1>1. /\ Len(t) = Len(s) + 1 /\ Len(s) \in Nat
        /\ DOMAIN t = 1 .. Len(s) + 1 /\ DOMAIN s = 1 .. Len(s)
        /\ t[Len(s) + 1] = x /\ \A k \in 1 .. Len(s) : t[k] = s[k]
    OBVIOUS
  <1>2. Select(t, J) = IF Len(s) + 1 \in J THEN Append(Select(s, J), x) ELSE Select(s, J)
    <2> HIDE DEF J
    <2> QED BY SelectAppend
  <1> HIDE DEF t
  <1>3. I \cap (1 .. Len(s)) = J \cap (1 .. Len(s))
    <2> SUFFICES ASSUME NEW i \in 1 .. Len(s)
                 PROVE  i \in I <=> i \in J
      BY <1>1
    <2>1. i \in DOMAIN s /\ i \in DOMAIN t /\ t[i] = s[i] /\ \A j \in 1 .. i - 1 : t[j] = s[j]
      BY <1>1
    <2> QED BY <2>1
  <1>4. Select(s, J) = Select(s, I)
    <2> HIDE DEF I, J
    <2> QED BY <1>3, SelectSame
  <1>5. Len(s) + 1 \in J <=> \A j \in 1 .. Len(s) : ~SameKey(s[j], x)
    BY <1>1
  <1>6. (\E y \in ToSet(s) : SameKey(y, x)) <=> \E j \in 1 .. Len(s) : SameKey(s[j], x)
    BY <1>1 DEF ToSet
  <1>7. Select(t, J) = IF \E y \in ToSet(s) : SameKey(y, x) THEN Select(s, I) ELSE Append(Select(s, I), x)
    <2> HIDE DEF I, J
    <2> QED BY <1>2, <1>4, <1>5, <1>6
  <1> QED BY <1>7 DEF KeepFirst, t, I, J

\* The firings of n at the first position of their tick.
Grouped(s, n) == Select(s, {i \in DOMAIN s : s[i].node = n /\ \A j \in 1 .. i - 1 : ~SameKey(s[j], s[i])})

\* Grouping by node and tick finds what the loop over the log finds.
LEMMA GroupingAgrees ==
  ASSUME NEW S, NEW s \in Seq(S), NEW n
  PROVE  Grouped(s, n) = KeepFirst(FiringsOf(s, n))
  <1> DEFINE Upto(k) == SubSeq(s, 1, k)
             T == {k \in Nat : Grouped(Upto(k), n) = KeepFirst(FiringsOf(Upto(k), n))}
  <1>1. Len(s) \in Nat
    OBVIOUS
  <1>2. 0 \in T
    <2>1. Upto(0) = <<>>
      OBVIOUS
    <2>2. Grouped(<<>>, n) = <<>>
      BY SelectEmpty DEF Grouped
    <2> QED BY <2>1, <2>2, LogsEmpty
  <1>3. ASSUME NEW k \in 0 .. Len(s) - 1, k \in T
        PROVE  k + 1 \in T
    <2> DEFINE p == Upto(k)
               x == s[k + 1]
               t == Append(p, x)
               I == {i \in DOMAIN p : p[i].node = n /\ \A j \in 1 .. i - 1 : ~SameKey(p[j], p[i])}
               J == {i \in DOMAIN t : t[i].node = n /\ \A j \in 1 .. i - 1 : ~SameKey(t[j], t[i])}
    <2>1. Upto(k + 1) = t
      <3>1. /\ Upto(k + 1) \in Seq(S) /\ Len(Upto(k + 1)) = k + 1
            /\ \A i \in 1 .. k + 1 : Upto(k + 1)[i] = s[i]
            /\ p \in Seq(S) /\ Len(p) = k /\ \A i \in 1 .. k : p[i] = s[i]
            /\ x \in S
        <4>1. 1 \in 1 .. Len(s) + 1 /\ k + 1 \in 0 .. Len(s) /\ k \in 0 .. Len(s)
          BY <1>1
        <4> QED BY <1>1, <4>1, SubSeqFacts
      <3> HIDE DEF x, Upto
      <3>2. t \in Seq(S) /\ Len(t) = k + 1 /\ t[k + 1] = x /\ \A i \in 1 .. k : t[i] = p[i]
        BY <3>1
      <3> HIDE DEF t, p
      <3>3. \A i \in 1 .. k + 1 : Upto(k + 1)[i] = t[i]
        BY <3>1, <3>2 DEF x
      <3> QED BY <3>1, <3>2, <3>3
    <2>2. p \in Seq(S) /\ x \in S /\ Len(p) = k
      <3>1. k \in 0 .. Len(s) /\ k + 1 \in 1 .. Len(s)
        BY <1>1
      <3> QED BY <1>1, <3>1, SubSeqFacts
    <2> HIDE DEF p, x
    <2>3. /\ Len(t) = Len(p) + 1 /\ Len(p) \in Nat
          /\ DOMAIN t = 1 .. Len(p) + 1 /\ DOMAIN p = 1 .. Len(p)
          /\ t[Len(p) + 1] = x /\ \A i \in 1 .. Len(p) : t[i] = p[i]
      BY <2>2
    <2>4. Select(t, J) = IF Len(p) + 1 \in J THEN Append(Select(p, J), x) ELSE Select(p, J)
      <3> HIDE DEF J
      <3> QED BY <2>2, SelectAppend
    <2>5. FiringsOf(t, n) = IF x.node = n THEN Append(FiringsOf(p, n), x) ELSE FiringsOf(p, n)
      BY <2>2, FiringsOfAppend
    <2> HIDE DEF t
    <2>6. I \cap (1 .. Len(p)) = J \cap (1 .. Len(p))
      <3> SUFFICES ASSUME NEW i \in 1 .. Len(p)
                   PROVE  i \in I <=> i \in J
        BY <2>3
      <3>1. i \in DOMAIN p /\ i \in DOMAIN t /\ t[i] = p[i] /\ \A j \in 1 .. i - 1 : t[j] = p[j]
        BY <2>3
      <3> QED BY <3>1
    <2>7. Select(p, J) = Select(p, I)
      <3> HIDE DEF I, J
      <3> QED BY <2>2, <2>6, SelectSame
    <2>8. FiringsOf(p, n) \in Seq(S) /\ ToSet(FiringsOf(p, n)) = {f \in ToSet(p) : f.node = n}
      BY <2>2, LogsTyped, FiringsOfElements
    <2>9. Len(p) + 1 \in J <=> x.node = n /\ ~ \E y \in ToSet(FiringsOf(p, n)) : SameKey(y, x)
      <3>1. Len(p) + 1 \in J <=> x.node = n /\ \A j \in 1 .. Len(p) : ~SameKey(p[j], x)
        BY <2>3
      <3>2. \A y : y \in ToSet(p) <=> \E j \in 1 .. Len(p) : p[j] = y
        BY <2>2, ElementsOf
      <3>3. \A y : SameKey(y, x) /\ x.node = n => y.node = n
        BY DEF SameKey
      <3> HIDE DEF J
      <3> QED BY <2>8, <3>1, <3>2, <3>3
    <2>10. Grouped(p, n) = KeepFirst(FiringsOf(p, n)) /\ Grouped(p, n) = Select(p, I)
      BY <1>3 DEF Grouped, p
    <2>11. Grouped(t, n) = Select(t, J)
      BY DEF Grouped
    <2> HIDE DEF I, J
    <2>12. ASSUME x.node = n
           PROVE  Grouped(t, n) = KeepFirst(FiringsOf(t, n))
      <3>1. KeepFirst(Append(FiringsOf(p, n), x)) =
              IF \E y \in ToSet(FiringsOf(p, n)) : SameKey(y, x)
              THEN KeepFirst(FiringsOf(p, n)) ELSE Append(KeepFirst(FiringsOf(p, n)), x)
        BY <2>2, <2>8, KeepFirstAppend
      <3>2. Grouped(t, n) = KeepFirst(FiringsOf(t, n))
        BY <2>4, <2>5, <2>7, <2>9, <2>10, <2>11, <2>12, <3>1
      <3> QED BY <3>2
    <2>13. ASSUME x.node # n
           PROVE  Grouped(t, n) = KeepFirst(FiringsOf(t, n))
      <3>1. Grouped(t, n) = KeepFirst(FiringsOf(t, n))
        BY <2>4, <2>5, <2>7, <2>9, <2>10, <2>11, <2>13
      <3> QED BY <3>1
    <2>14. k + 1 \in Nat
      BY <1>1
    <2> HIDE DEF Upto
    <2> QED BY <2>1, <2>12, <2>13, <2>14
  <1> HIDE DEF T
  <1>4. 0 .. Len(s) \subseteq T
    BY <1>1, <1>2, <1>3, UpInduction
  <1>5. Len(s) \in T
    BY <1>1, <1>4
  <1>6. Upto(Len(s)) = s
    OBVIOUS
  <1> QED BY <1>5, <1>6 DEF T

=============================================================================
