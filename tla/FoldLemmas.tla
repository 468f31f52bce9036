------------------------------ MODULE FoldLemmas ------------------------------
(***************************************************************************)
(* Induction over numbers and over sequences, for proofs about folds.  The *)
(* backends cannot apply a theorem to a predicate or an operator: the      *)
(* induction is stated of sets, and a module that folds an operator over a *)
(* sequence takes this one as an instance for that operator.               *)
(***************************************************************************)
EXTENDS SequencesExt, NaturalsInduction, WellFoundedInduction, TLAPS

CONSTANT Op(_, _)

\* Induction over the numbers: a set that has zero and with a number the next has all.
LEMMA NumbersFollow ==
  ASSUME NEW T, 0 \in T, \A n \in Nat : n \in T => n + 1 \in T
  PROVE  Nat \subseteq T
<1> DEFINE Less == OpToRel(<, Nat)
           Gap  == Nat \ T
<1> SUFFICES ASSUME Gap # {} PROVE FALSE
  OBVIOUS
<1>1. IsWellFoundedOn(Less, Nat)
  BY NatLessThanWellFounded
<1>2. \A x, y \in Nat : y < x => <<y, x>> \in Less
  BY DEF OpToRel
<1> HIDE DEF Less
<1>3. PICK x \in Gap : \A y \in Gap : ~(<<y, x>> \in Less)
  <2>1. Gap \subseteq Nat
    OBVIOUS
  <2> HIDE DEF Gap
  <2>2. QED
    BY <1>1, <2>1, WFMin
<1>4. x # 0 /\ x - 1 \in Nat /\ x - 1 < x /\ (x - 1) + 1 = x
  OBVIOUS
<1>5. x - 1 \in T
  BY <1>2, <1>3, <1>4
<1>6. QED
  BY <1>3, <1>4, <1>5

\* Induction up to a bound.
LEMMA UpToFollows ==
  ASSUME NEW N \in Nat, NEW T, 0 \in T, \A k \in 1 .. N : k - 1 \in T => k \in T
  PROVE  0 .. N \subseteq T
<1> DEFINE U == {n \in Nat : n <= N => n \in T}
<1>1. 0 \in U
  OBVIOUS
<1>2. ASSUME NEW n \in Nat, n \in U
      PROVE  n + 1 \in U
  <2>1. n + 1 <= N => n + 1 \in 1 .. N /\ n \in T
    BY <1>2
  <2>2. QED
    BY <2>1
<1> HIDE DEF U
<1>3. Nat \subseteq U
  BY <1>1, <1>2, NumbersFollow
<1>4. QED
  BY <1>3 DEF U

\* A set of places has a first and a last.
LEMMA SomeFirst ==
  ASSUME NEW n \in Nat, NEW P \in SUBSET (1 .. n), P # {}
  PROVE  \E x \in P : \A y \in P : x <= y
<1> DEFINE T == {k \in Nat : (\E i \in P : i <= k) => \E x \in P : \A y \in P : x <= y}
<1>1. 0 \in T
  OBVIOUS
<1>2. ASSUME NEW k \in 1 .. n, k - 1 \in T
      PROVE  k \in T
  <2>1. CASE \E i \in P : i <= k - 1
    BY <1>2, <2>1
  <2>2. CASE ~\E i \in P : i <= k - 1
    <3>1. \A i \in P : i >= k
      BY <2>2
    <3>2. (\E i \in P : i <= k) => k \in P
      BY <3>1
    <3>3. QED
      BY <3>1, <3>2
  <2>3. QED
    BY <2>1, <2>2
<1> HIDE DEF T
<1>3. n \in T
  BY <1>1, <1>2, UpToFollows
<1>4. (\E i \in P : i <= n) => \E x \in P : \A y \in P : x <= y
  BY <1>3 DEF T
<1>5. \E i \in P : i <= n
  <2>1. PICK i : i \in P
    OBVIOUS
  <2>2. i \in 1 .. n
    BY <2>1
  <2>3. QED
    BY <2>1, <2>2
<1>6. QED
  BY <1>4, <1>5

LEMMA SomeLast ==
  ASSUME NEW n \in Nat, NEW P \in SUBSET (1 .. n), P # {}
  PROVE  \E x \in P : \A y \in P : x >= y
<1> DEFINE Q == {i \in 1 .. n : n + 1 - i \in P}
<1>1. Q \in SUBSET (1 .. n) /\ Q # {}
  <2>1. PICK i \in P : TRUE
    OBVIOUS
  <2>2. n + 1 - i \in 1 .. n /\ n + 1 - (n + 1 - i) = i
    OBVIOUS
  <2>3. QED
    BY <2>2
<1> HIDE DEF Q
<1>2. PICK m \in Q : \A i \in Q : m <= i
  BY <1>1, SomeFirst
<1> DEFINE x == n + 1 - m
<1>3. x \in P /\ m \in 1 .. n
  BY <1>2 DEF Q
<1>4. ASSUME NEW y \in P
      PROVE  x >= y
  <2>1. n + 1 - y \in 1 .. n /\ n + 1 - (n + 1 - y) = y
    OBVIOUS
  <2>2. n + 1 - y \in Q
    BY <2>1 DEF Q
  <2>3. m <= n + 1 - y
    BY <1>2, <2>2
  <2>4. QED
    BY <1>3, <2>1, <2>3
<1> HIDE DEF x
<1>5. QED
  BY <1>3, <1>4

-------------------------------------------------------------------------------
LEMMA LargestOfPrefix ==
  ASSUME NEW n \in Nat \ {0}, NEW S \in SUBSET (1 .. n), n \in S
  PROVE  Max(S) = n
<1>1. \A y \in S : n >= y
  OBVIOUS
<1>2. \A x \in S : (\A y \in S : x >= y) => x = n
  OBVIOUS
<1>3. \E x \in S : \A y \in S : x >= y
  BY <1>1
<1>4. QED
  BY <1>2, <1>3 DEF Max

\* What FoldLeft recurs by: a set of places is folded after all but the last of them.
IsFold(f, base, s, n) ==
  f = [t \in SUBSET (1 .. n) |->
         IF t = {} THEN base ELSE Op(f[t \ {Max(t)}], s[Max(t)])]

LEMMA FoldExists ==
  ASSUME NEW base, NEW s, NEW N \in Nat
  PROVE  \E f : IsFold(f, base, s, N)
<1> DEFINE T == {n \in Nat : \E f : IsFold(f, base, s, n)}
<1>1. 0 \in T
  <2> DEFINE f == [t \in SUBSET (1 .. 0) |-> base]
  <2>1. \A t \in SUBSET (1 .. 0) : t = {}
    OBVIOUS
  <2>2. IsFold(f, base, s, 0)
    BY <2>1 DEF IsFold
  <2>3. QED
    BY <2>2
<1>2. ASSUME NEW n \in Nat, n \in T
      PROVE  n + 1 \in T
  <2>1. PICK f : IsFold(f, base, s, n)
    BY <1>2
  <2> DEFINE g == [t \in SUBSET (1 .. n + 1) |->
                     IF n + 1 \in t THEN Op(f[t \ {n + 1}], s[n + 1]) ELSE f[t]]
             h == [t \in SUBSET (1 .. n + 1) |->
                     IF t = {} THEN base ELSE Op(g[t \ {Max(t)}], s[Max(t)])]
  <2>2. ASSUME NEW t \in SUBSET (1 .. n + 1)
        PROVE  g[t] = h[t]
    <3>1. h[t] = IF t = {} THEN base ELSE Op(g[t \ {Max(t)}], s[Max(t)])
      OBVIOUS
    <3>2. CASE n + 1 \in t
      <4>1. Max(t) = n + 1
        BY <3>2, LargestOfPrefix
      <4>2. t \ {n + 1} \in SUBSET (1 .. n + 1) /\ n + 1 \notin t \ {n + 1}
        OBVIOUS
      <4>3. g[t \ {n + 1}] = f[t \ {n + 1}]
        BY <4>2
      <4>4. g[t] = Op(f[t \ {n + 1}], s[n + 1])
        BY <3>2
      <4> HIDE DEF g, h
      <4>5. QED
        BY <3>1, <3>2, <4>1, <4>3, <4>4
    <3>3. CASE n + 1 \notin t
      <4>1. t \in SUBSET (1 .. n)
        BY <3>3
      <4>2. t \ {Max(t)} \in SUBSET (1 .. n + 1) /\ n + 1 \notin t \ {Max(t)}
        BY <3>3
      <4>3. g[t] = f[t] /\ g[t \ {Max(t)}] = f[t \ {Max(t)}]
        BY <3>3, <4>2
      <4> HIDE DEF g, h
      <4>4. f[t] = IF t = {} THEN base ELSE Op(f[t \ {Max(t)}], s[Max(t)])
        BY <2>1, <4>1 DEF IsFold
      <4>5. QED
        BY <3>1, <4>3, <4>4
    <3>4. QED
      BY <3>2, <3>3
  <2>3. g = h
    BY <2>2
  <2>4. IsFold(g, base, s, n + 1)
    BY <2>3 DEF IsFold
  <2>5. QED
    BY <2>4
<1> HIDE DEF T
<1>3. N \in T
  BY <1>1, <1>2, NumbersFollow
<1>4. QED
  BY <1>3 DEF T

\* FoldLeft goes through a sequence from its first place to its last.
Folded(base, s) == FoldLeft(Op, base, s)

LEMMA FoldLeftSteps ==
  ASSUME NEW E, NEW s \in Seq(E), NEW base
  PROVE  \E g : /\ g[0] = base
                /\ \A k \in 1 .. Len(s) : g[k] = Op(g[k - 1], s[k])
                /\ Folded(base, s) = g[Len(s)]
<1> DEFINE N  == Len(s)
           it == CHOOSE f : f = [t \in SUBSET DOMAIN s |->
                                   IF t = {} THEN base ELSE Op(f[t \ {Max(t)}], s[Max(t)])]
           g  == [k \in 0 .. N |-> it[1 .. k]]
<1>1. N \in Nat /\ DOMAIN s = 1 .. N
  OBVIOUS
<1>2. Folded(base, s) = it[DOMAIN s]
  BY DEF Folded, FoldLeft, MapThenFoldSet
<1>3. IsFold(it, base, s, N)
  <2>1. \E f : IsFold(f, base, s, Len(s))
    BY <1>1, FoldExists
  <2>2. \E f : f = [t \in SUBSET DOMAIN s |->
                    IF t = {} THEN base ELSE Op(f[t \ {Max(t)}], s[Max(t)])]
    BY <1>1, <2>1 DEF IsFold
  <2>3. it = [t \in SUBSET DOMAIN s |->
                IF t = {} THEN base ELSE Op(it[t \ {Max(t)}], s[Max(t)])]
    BY <2>2
  <2> HIDE DEF it
  <2>4. QED
    BY <1>1, <2>3 DEF IsFold
<1> HIDE DEF it
<1>4. \A k \in 0 .. N : 1 .. k \in SUBSET (1 .. N)
  BY <1>1
<1>5. g[0] = base
  <2>1. 1 .. 0 = {}
    OBVIOUS
  <2>2. QED
    BY <1>1, <1>3, <1>4, <2>1 DEF IsFold
<1>6. ASSUME NEW k \in 1 .. N
      PROVE  g[k] = Op(g[k - 1], s[k])
  <2>1. k \in Nat \ {0} /\ k \in 1 .. k /\ (1 .. k) \ {k} = 1 .. k - 1 /\ k - 1 \in 0 .. N
        /\ k \in 0 .. N
    BY <1>1
  <2>2. Max(1 .. k) = k
    BY <2>1, LargestOfPrefix
  <2>3. it[1 .. k] = Op(it[(1 .. k) \ {Max(1 .. k)}], s[Max(1 .. k)])
    BY <1>3, <1>4, <2>1 DEF IsFold
  <2>4. QED
    BY <2>1, <2>2, <2>3
<1>7. g[N] = it[DOMAIN s]
  BY <1>1
<1>8. QED
  BY <1>2, <1>5, <1>6, <1>7
===============================================================================
