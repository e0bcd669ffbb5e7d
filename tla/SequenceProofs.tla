----------------------------- MODULE SequenceProofs -----------------------------
(***************************************************************************)
(* Lemmas about finite sets, folds and queues of signals that the proofs   *)
(* share.                                                                  *)
(*                                                                         *)
(* A fold over a group, over actions or over events is a function that is  *)
(* defined on the subsets of the elements: FoldExists shows that there is  *)
(* one, SubsetInduction what holds of its values.                          *)
(*                                                                         *)
(* A daemon that learns of a change from a signal that may wait behind     *)
(* others lags behind.  The last of the signals that wait about a thing    *)
(* tells how it is now (LastTells), and if none waits the daemon knows it  *)
(* already.                                                                *)
(***************************************************************************)
EXTENDS SequencesExt, SequenceTheorems, FiniteSetTheorems, WellFoundedInduction, TLAPS

-----------------------------------------------------------------------------
(* Finite sets and folds                                                   *)

LEMMA NotEmpty ==
    ASSUME NEW P, {} \in P, NEW s, s \notin P
    PROVE  s # {}
  BY Zenon

\* What holds of {}, and of a set if it holds of the set without some
\* element, holds of all subsets of a finite set.
LEMMA SubsetInduction ==
    ASSUME NEW S, IsFiniteSet(S), NEW P, {} \in P,
           \A s \in SUBSET S : s # {} => \E x \in s : s \ {x} \in P => s \in P
    PROVE  \A s \in SUBSET S : s \in P
  <1> SUFFICES ASSUME NEW r \in SUBSET S, r \notin P
               PROVE  FALSE
    OBVIOUS
  <1> DEFINE T == {n \in Nat : \E s \in SUBSET S : s \notin P /\ Cardinality(s) = n}
  <1>1. \A s \in SUBSET S : IsFiniteSet(s) /\ Cardinality(s) \in Nat
    BY FS_Subset, FS_CardinalityType
  <1>2. T # {} /\ T \subseteq Nat
    BY <1>1
  <1>3. PICK n \in T : \A k \in T : <<k, n>> \notin OpToRel(<, Nat)
    BY <1>2, WFMin, NatLessThanWellFounded
  <1>4. \A k \in T : ~(k < n)
    BY <1>2, <1>3 DEF OpToRel
  <1>5. PICK s \in SUBSET S : s \notin P /\ Cardinality(s) = n
    BY <1>3
  <1>6. PICK x \in s : s \ {x} \in P => s \in P
    <2>1. s # {}
      BY <1>5, NotEmpty
    <2> QED
      BY <2>1
  <1>7. Cardinality(s \ {x}) = n - 1
    BY <1>1, <1>5, FS_RemoveElement
  <1>8. s \ {x} \in SUBSET S /\ s \ {x} \notin P
    BY <1>5, <1>6
  <1>9. n - 1 \in T
    BY <1>1, <1>2, <1>7, <1>8
  <1> QED
    BY <1>2, <1>4, <1>9

\* A finite set of numbers has a highest one.
LEMMA MaxExists ==
    ASSUME NEW S \in SUBSET Int, IsFiniteSet(S), S # {}
    PROVE  Max(S) \in S /\ \A y \in S : Max(S) >= y
  <1> DEFINE P == {s \in SUBSET S : s = {} \/ \E m \in s : \A y \in s : m >= y}
  <1>1. ASSUME NEW s \in SUBSET S, s # {}
        PROVE  \E x \in s : s \ {x} \in P => s \in P
    <2> PICK x \in s : TRUE
      BY <1>1
    <2>1. CASE s \ {x} = {}
      <3>1. \A y \in s : x >= y
        BY <2>1
      <3> QED
        BY <3>1
    <2>2. CASE \E m \in s \ {x} : \A y \in s \ {x} : m >= y
      <3>1. PICK m \in s \ {x} : \A y \in s \ {x} : m >= y
        BY <2>2
      <3>2. (\A y \in s : m >= y) \/ \A y \in s : x >= y
        BY <3>1
      <3> QED
        BY <3>1, <3>2
    <2> QED
      BY <2>1, <2>2
  <1>2. {} \in P
    OBVIOUS
  <1>3. \A s \in SUBSET S : s \in P
    <2> HIDE DEF P
    <2> QED
      BY <1>1, <1>2, SubsetInduction
  <1>4. S \in P
    BY <1>3
  <1>5. \E m \in S : \A y \in S : m >= y
    BY <1>4
  <1> QED
    BY <1>5 DEF Max

\* A finite set of numbers has a lowest one.
LEMMA MinExists ==
    ASSUME NEW S \in SUBSET Int, IsFiniteSet(S), S # {}
    PROVE  Min(S) \in S /\ \A y \in S : Min(S) <= y
  <1> DEFINE P == {s \in SUBSET S : s = {} \/ \E m \in s : \A y \in s : m <= y}
  <1>1. ASSUME NEW s \in SUBSET S, s # {}
        PROVE  \E x \in s : s \ {x} \in P => s \in P
    <2> PICK x \in s : TRUE
      BY <1>1
    <2>1. CASE s \ {x} = {}
      <3>1. \A y \in s : x <= y
        BY <2>1
      <3> QED
        BY <3>1
    <2>2. CASE \E m \in s \ {x} : \A y \in s \ {x} : m <= y
      <3>1. PICK m \in s \ {x} : \A y \in s \ {x} : m <= y
        BY <2>2
      <3>2. (\A y \in s : m <= y) \/ \A y \in s : x <= y
        BY <3>1
      <3> QED
        BY <3>1, <3>2
    <2> QED
      BY <2>1, <2>2
  <1>2. {} \in P
    OBVIOUS
  <1>3. \A s \in SUBSET S : s \in P
    <2> HIDE DEF P
    <2> QED
      BY <1>1, <1>2, SubsetInduction
  <1>4. S \in P
    BY <1>3
  <1>5. \E m \in S : \A y \in S : m <= y
    BY <1>4
  <1> QED
    BY <1>5 DEF Min

\* The values of a function on a finite set are finitely many.
LEMMA ImageFinite ==
    ASSUME NEW f, NEW S, IsFiniteSet(S)
    PROVE  IsFiniteSet({f[x] : x \in S})
  <1> DEFINE T == {f[x] : x \in S}
             g == [x \in S |-> f[x]]
  <1>1. g \in Surjection(S, T)
    BY DEF Surjection
  <1> HIDE DEF T, g
  <1>2. IsFiniteSet(T)
    BY <1>1, FS_Surjection
  <1> QED
    BY <1>2 DEF T

\* The elements of a sequence are finitely many.
LEMMA RangeFinite ==
    ASSUME NEW T, NEW s \in Seq(T)
    PROVE  IsFiniteSet(DOMAIN s) /\ IsFiniteSet(Range(s)) /\ Range(s) \subseteq T
  <1>1. DOMAIN s = 1..Len(s) /\ Len(s) \in Nat
    OBVIOUS
  <1>2. IsFiniteSet(DOMAIN s)
    BY <1>1, FS_Interval
  <1>3. IsFiniteSet(Range(s))
    BY <1>2, ImageFinite DEF Range
  <1> QED
    BY <1>2, <1>3 DEF Range

\* A function with the values of a fold: base for {}, and for another set a
\* step from the value of the set without a chosen element.
IsFold(h, S, X, base, c, step) ==
    /\ h \in [SUBSET S -> X]
    /\ \A s \in SUBSET S : h[s] = IF s = {} THEN base ELSE step[c[s]][h[s \ {c[s]}]]
Picks(c, S) == \A s \in SUBSET S : s # {} => c[s] \in s
Closed(step, S, X) == \A x \in S, v \in X : step[x][v] \in X

\* There is such a function.
LEMMA FoldExists ==
    ASSUME NEW S, IsFiniteSet(S), NEW X, NEW base \in X,
           NEW c, Picks(c, S), NEW step, Closed(step, S, X)
    PROVE  \E h : IsFold(h, S, X, base, c, step)
  <1> USE DEF Picks, Closed
  <1> DEFINE Up(h, s) == h[s] = IF s = {} THEN base ELSE step[c[s]][h[s \ {c[s]}]]
             Good(n) == \E h \in [SUBSET S -> X] :
                           \A s \in SUBSET S : Cardinality(s) <= n => Up(h, s)
             N == {n \in Nat : ~Good(n)}
  <1>1. \A s \in SUBSET S : IsFiniteSet(s) /\ Cardinality(s) \in Nat
    BY FS_Subset, FS_CardinalityType
  <1>2. \A s \in SUBSET S : Cardinality(s) <= 0 => s = {}
    BY <1>1, FS_EmptySet
  <1>3. \A s \in SUBSET S : s # {} => /\ s \ {c[s]} \in SUBSET S
                                      /\ Cardinality(s \ {c[s]}) = Cardinality(s) - 1
    BY <1>1, FS_RemoveElement
  <1>4. Good(0)
    <2>1. [s \in SUBSET S |-> base] \in [SUBSET S -> X]
      OBVIOUS
    <2>2. \A s \in SUBSET S : Cardinality(s) <= 0 => Up([r \in SUBSET S |-> base], s)
      BY <1>2
    <2> QED
      BY <2>1, <2>2
  <1>5. ASSUME NEW n \in Nat, NEW m \in Nat, m = n + 1, Good(n)
        PROVE  Good(m)
    <2>1. PICK h \in [SUBSET S -> X] : \A s \in SUBSET S : Cardinality(s) <= n => Up(h, s)
      BY <1>5
    <2> DEFINE g == [s \in SUBSET S |-> IF s = {} THEN base ELSE step[c[s]][h[s \ {c[s]}]]]
    <2>2. g \in [SUBSET S -> X]
      BY <1>3
    <2>3. ASSUME NEW s \in SUBSET S, Cardinality(s) <= n
          PROVE  g[s] = h[s]
      BY <2>1, <2>3
    <2>4. ASSUME NEW s \in SUBSET S, Cardinality(s) <= m
          PROVE  Up(g, s)
      <3>1. CASE s = {}
        BY <3>1
      <3>2. CASE s # {}
        <4>1. s \ {c[s]} \in SUBSET S /\ Cardinality(s \ {c[s]}) <= n
          BY <1>1, <1>3, <1>5, <2>4, <3>2
        <4>2. g[s \ {c[s]}] = h[s \ {c[s]}]
          BY <2>3, <4>1
        <4>3. g[s] = step[c[s]][h[s \ {c[s]}]]
          BY <3>2
        <4> QED
          BY <3>2, <4>2, <4>3
      <3> QED
        BY <3>1, <3>2
    <2> HIDE DEF g, Up
    <2> QED
      BY <2>2, <2>4
  <1> HIDE DEF Good
  <1>6. N = {}
    <2> SUFFICES ASSUME N # {} PROVE FALSE
      OBVIOUS
    <2>1. PICK n \in N : \A k \in N : <<k, n>> \notin OpToRel(<, Nat)
      BY WFMin, NatLessThanWellFounded
    <2>2. \A k \in N : ~(k < n)
      BY <2>1 DEF OpToRel
    <2>3. n # 0 /\ n - 1 \in Nat /\ n - 1 \notin N
      BY <1>4, <2>2
    <2>4. Good(n - 1)
      BY <2>3, Zenon
    <2>5. n \in Nat
      BY <2>1, Zenon
    <2>6. n = n - 1 + 1
      BY <2>5
    <2>7. Good(n)
      BY <1>5, <2>3, <2>4, <2>5, <2>6
    <2> QED
      BY <2>1, <2>7, Zenon
  <1>7. Good(Cardinality(S)) /\ Cardinality(S) \in Nat
    BY <1>1, <1>6
  <1>8. \A s \in SUBSET S : Cardinality(s) <= Cardinality(S)
    BY FS_Subset
  <1> QED
    BY <1>7, <1>8 DEF Good, IsFold

\* FoldLeft steps from the last element of a sequence.
LastOf(S) == [s \in SUBSET S |-> Max(s)]

LEMMA LeftFoldExists ==
    ASSUME NEW T, NEW q \in Seq(T), NEW X, NEW base \in X,
           NEW step, Closed(step, DOMAIN q, X)
    PROVE  \E h : IsFold(h, DOMAIN q, X, base, LastOf(DOMAIN q), step)
  <1>1. DOMAIN q \subseteq Int /\ IsFiniteSet(DOMAIN q)
    BY RangeFinite
  <1>2. \A s \in SUBSET DOMAIN q : s # {} => Max(s) \in s
    BY <1>1, MaxExists, FS_Subset
  <1>3. Picks(LastOf(DOMAIN q), DOMAIN q)
    BY <1>2 DEF Picks, LastOf
  <1> QED
    BY <1>1, <1>3, FoldExists

\* What holds of {}, and of a set of positions if it holds of the set without
\* the last one, holds of all positions.
LEMMA LeftInduction ==
    ASSUME NEW T, NEW q \in Seq(T), NEW P, {} \in P,
           \A s \in SUBSET DOMAIN q : s # {} /\ s \ {Max(s)} \in P => s \in P
    PROVE  DOMAIN q \in P
  <1>1. DOMAIN q \subseteq Int /\ IsFiniteSet(DOMAIN q)
    BY RangeFinite
  <1>2. \A s \in SUBSET DOMAIN q : s # {} => Max(s) \in s
    BY <1>1, MaxExists, FS_Subset
  <1>3. \A s \in SUBSET DOMAIN q : s # {} => \E x \in s : s \ {x} \in P => s \in P
    BY <1>2
  <1>4. \A s \in SUBSET DOMAIN q : s \in P
    BY <1>1, <1>3, SubsetInduction
  <1> QED
    BY <1>4

LEMMA LeftFoldIn ==
    ASSUME NEW T, NEW q \in Seq(T), NEW X, NEW h, h[{}] \in X,
           \A s \in SUBSET DOMAIN q : s # {} /\ h[s \ {Max(s)}] \in X => h[s] \in X
    PROVE  h[DOMAIN q] \in X
  <1> DEFINE S == DOMAIN q
             P == {s \in SUBSET S : h[s] \in X}
  <1>1. S \subseteq Int /\ IsFiniteSet(S)
    BY RangeFinite
  <1>2. ASSUME NEW s \in SUBSET S, s # {}
        PROVE  \E x \in s : s \ {x} \in P => s \in P
    <2>1. Max(s) \in s
      BY <1>1, <1>2, MaxExists, FS_Subset
    <2> QED
      BY <1>2, <2>1
  <1>3. {} \in P
    OBVIOUS
  <1>4. \A s \in SUBSET S : s \in P
    <2> HIDE DEF P, S
    <2> QED
      BY <1>1, <1>2, <1>3, SubsetInduction
  <1> QED
    BY <1>4

\* h is the fold of the steps over a sequence with the positions S.
FoldsBy(h, S, X, step) ==
    /\ h[{}] \in X
    /\ \A s \in SUBSET S :
          s # {} /\ h[s \ {Max(s)}] \in X => h[s] = step[Max(s)][h[s \ {Max(s)}]]

\* A fold over a sequence stays in a set that its steps do not leave, and
\* comes to one that a step leads to and the others do not leave.
LEMMA LeftFoldReaches ==
    ASSUME NEW T, NEW q \in Seq(T), NEW X, NEW h, NEW step,
           Closed(step, DOMAIN q, X), FoldsBy(h, DOMAIN q, X, step)
    PROVE  /\ h[DOMAIN q] \in X
           /\ \A k \in DOMAIN q, Y \in SUBSET X :
                 (\A g \in X : step[k][g] \in Y) /\ Closed(step, DOMAIN q, Y) => h[DOMAIN q] \in Y
  <1> DEFINE S == DOMAIN q
  <1>1. \A s \in SUBSET S : s # {} => Max(s) \in s /\ Max(s) \in S
    BY RangeFinite, MaxExists, FS_Subset
  <1>2. h[S] \in X
    <2>1. \A s \in SUBSET S : s # {} /\ h[s \ {Max(s)}] \in X => h[s] \in X
      BY <1>1 DEF Closed, FoldsBy
    <2> QED
      BY <2>1, LeftFoldIn DEF FoldsBy
  <1>3. ASSUME NEW k \in S, NEW Y \in SUBSET X, \A g \in X : step[k][g] \in Y, Closed(step, S, Y)
        PROVE  h[S] \in Y
    <2> DEFINE P == {s \in SUBSET S : h[s] \in X /\ (k \in s => h[s] \in Y)}
    <2>1. {} \in P
      BY DEF FoldsBy
    <2>2. ASSUME NEW s \in SUBSET S, s # {}, s \ {Max(s)} \in P
          PROVE  s \in P
      <3> DEFINE m == Max(s)
                 g == h[s \ {m}]
      <3>1. m \in S /\ m \in s /\ h[s] = step[m][g]
        BY <1>1, <2>2 DEF FoldsBy
      <3>2. g \in X /\ (k \in s \ {m} => g \in Y)
        BY <2>2
      <3> HIDE DEF m, g
      <3>3. h[s] \in X
        BY <3>1, <3>2 DEF Closed
      <3>4. ASSUME k \in s
            PROVE  h[s] \in Y
        <4>1. CASE k = m
          BY <1>3, <3>1, <3>2, <4>1
        <4>2. CASE k # m
          BY <1>3, <3>1, <3>2, <3>4, <4>2 DEF Closed
        <4> QED
          BY <4>1, <4>2
      <3> QED
        BY <3>3, <3>4
    <2> HIDE DEF P
    <2>3. S \in P
      BY <2>1, <2>2, LeftInduction
    <2> QED
      BY <2>3 DEF P
  <1> QED
    BY <1>2, <1>3

-----------------------------------------------------------------------------
(* Queues of signals                                                       *)

\* A signal of the set M waits in q.
Waits(q, M) == \E i \in DOMAIN q : q[i] \in M

\* The last signal of M that waits in q is one of T.
LastTells(q, M, T) ==
    \A i \in DOMAIN q :
      q[i] \in M /\ (\A j \in DOMAIN q : j > i => q[j] \notin M) => q[i] \in T

\* The elements of a queue after an append.
LEMMA AppendedAt ==
    ASSUME NEW S, NEW q \in Seq(S), NEW m \in S
    PROVE  /\ DOMAIN Append(q, m) = DOMAIN q \cup {Len(q) + 1}
           /\ DOMAIN q = 1..Len(q)
           /\ Len(q) \in Nat
           /\ \A i \in DOMAIN q : Append(q, m)[i] = q[i]
           /\ Append(q, m)[Len(q) + 1] = m
  <1>1. Append(q, m) \in Seq(S) /\ Len(Append(q, m)) = Len(q) + 1
    BY AppendProperties
  <1>2. DOMAIN Append(q, m) = 1..(Len(q) + 1) /\ DOMAIN q = 1..Len(q) /\ Len(q) \in Nat
    BY <1>1, LenProperties
  <1> QED
    BY <1>2, AppendProperties

\* A signal that is sent waits, as do those that waited.
LEMMA AppendWaits ==
    ASSUME NEW S, NEW q \in Seq(S), NEW m \in S, NEW M
    PROVE  Waits(Append(q, m), M) <=> Waits(q, M) \/ m \in M
  <1>1. ASSUME Waits(q, M) PROVE Waits(Append(q, m), M)
    BY <1>1, AppendedAt DEF Waits
  <1>2. ASSUME m \in M PROVE Waits(Append(q, m), M)
    BY <1>2, AppendedAt DEF Waits
  <1>3. ASSUME Waits(Append(q, m), M) PROVE Waits(q, M) \/ m \in M
    BY <1>3, AppendedAt DEF Waits
  <1> QED
    BY <1>1, <1>2, <1>3

\* A signal of M that is sent is the last one, and has to be right.
LEMMA AppendTells ==
    ASSUME NEW S, NEW q \in Seq(S), NEW m \in S, NEW M, NEW T, m \in M => m \in T
    PROVE  /\ m \in M => LastTells(Append(q, m), M, T)
           /\ m \notin M /\ LastTells(q, M, T) => LastTells(Append(q, m), M, T)
  <1> DEFINE r == Append(q, m)
             n == Len(q) + 1
  <1>1. /\ DOMAIN r = DOMAIN q \cup {n}
        /\ DOMAIN q = 1..Len(q) /\ Len(q) \in Nat
        /\ \A i \in DOMAIN q : r[i] = q[i] /\ n > i
        /\ r[n] = m
    BY AppendedAt
  <1> HIDE DEF r, n
  <1>2. ASSUME m \in M PROVE LastTells(r, M, T)
    BY <1>1, <1>2 DEF LastTells
  <1>3. ASSUME m \notin M, LastTells(q, M, T) PROVE LastTells(r, M, T)
    <2> SUFFICES ASSUME NEW i \in DOMAIN r, r[i] \in M,
                        \A j \in DOMAIN r : j > i => r[j] \notin M
                 PROVE  r[i] \in T
      BY DEF LastTells
    <2>1. i \in DOMAIN q /\ q[i] = r[i]
      BY <1>1, <1>3
    <2>2. \A j \in DOMAIN q : j > i => q[j] \notin M
      BY <1>1
    <2> QED
      BY <1>3, <2>1, <2>2 DEF LastTells
  <1> QED
    BY <1>2, <1>3 DEF r

\* A signal is sent of what has changed; those of T were right before it, and
\* those of U are now.
LEMMA AppendTold ==
    ASSUME NEW S, NEW q \in Seq(S), NEW m \in S, NEW M, NEW T, NEW U,
           LastTells(q, M, T), m \in M => m \in U, m \notin M => U = T
    PROVE  /\ Append(q, m) \in Seq(S)
           /\ Waits(Append(q, m), M) <=> Waits(q, M) \/ m \in M
           /\ LastTells(Append(q, m), M, U)
  <1>1. Append(q, m) \in Seq(S) /\ (Waits(Append(q, m), M) <=> Waits(q, M) \/ m \in M)
    BY AppendProperties, AppendWaits
  <1>2. CASE m \in M
    BY <1>1, <1>2, AppendTells
  <1>3. CASE m \notin M
    BY <1>1, <1>3, AppendTells
  <1> QED
    BY <1>2, <1>3

\* The elements of a queue without its first.
LEMMA TailAt ==
    ASSUME NEW S, NEW q \in Seq(S), q # <<>>
    PROVE  /\ Head(q) \in S /\ Head(q) = q[1] /\ 1 \in DOMAIN q
           /\ Tail(q) \in Seq(S)
           /\ DOMAIN q \subseteq Nat \ {0}
           /\ \A i \in DOMAIN q : i = 1 \/ (i - 1 \in DOMAIN Tail(q) /\ i \in Nat \ {0})
           /\ \A i \in DOMAIN Tail(q) : i \in Nat /\ i + 1 \in DOMAIN q /\ Tail(q)[i] = q[i + 1]
  <1>1. /\ DOMAIN q = 1..Len(q) /\ Len(q) \in Nat \ {0}
        /\ Head(q) \in S /\ Tail(q) \in Seq(S) /\ Len(Tail(q)) = Len(q) - 1
        /\ \A i \in 1..Len(Tail(q)) : Tail(q)[i] = q[i + 1]
    BY LenProperties, EmptySeq, HeadTailProperties
  <1>2. DOMAIN Tail(q) = 1..(Len(q) - 1)
    BY <1>1, LenProperties
  <1> QED
    BY <1>1, <1>2

\* The first signal is handled: what waits then waited before, and whatever
\* waited, and is not the first, still does.
LEMMA TailWaits ==
    ASSUME NEW S, NEW q \in Seq(S), q # <<>>, NEW M
    PROVE  /\ Waits(q, M) <=> Head(q) \in M \/ Waits(Tail(q), M)
           /\ Head(q) \in M => Waits(q, M)
  <1>1. ASSUME Waits(q, M), Head(q) \notin M PROVE Waits(Tail(q), M)
    <2>1. PICK i \in DOMAIN q : q[i] \in M
      BY <1>1 DEF Waits
    <2>2. i - 1 \in DOMAIN Tail(q) /\ Tail(q)[i - 1] = q[i]
      BY <1>1, <2>1, TailAt
    <2> QED
      BY <2>1, <2>2 DEF Waits
  <1>2. ASSUME Waits(Tail(q), M) PROVE Waits(q, M)
    BY <1>2, TailAt DEF Waits
  <1>3. ASSUME Head(q) \in M PROVE Waits(q, M)
    BY <1>3, TailAt DEF Waits
  <1> QED
    BY <1>1, <1>2, <1>3

\* The last signal that waits is right after the first is handled, and if the
\* first was the last, it was right.
LEMMA TailTells ==
    ASSUME NEW S, NEW q \in Seq(S), q # <<>>, NEW M, NEW T, LastTells(q, M, T)
    PROVE  /\ LastTells(Tail(q), M, T)
           /\ Head(q) \in M /\ ~Waits(Tail(q), M) => Head(q) \in T
  <1>1. LastTells(Tail(q), M, T)
    <2> SUFFICES ASSUME NEW i \in DOMAIN Tail(q), Tail(q)[i] \in M,
                        \A j \in DOMAIN Tail(q) : j > i => Tail(q)[j] \notin M
                 PROVE  Tail(q)[i] \in T
      BY DEF LastTells
    <2>1. i \in Nat /\ i + 1 \in DOMAIN q /\ Tail(q)[i] = q[i + 1]
      BY TailAt
    <2>2. ASSUME NEW j \in DOMAIN q, j > i + 1 PROVE q[j] \notin M
      <3>1. j - 1 \in DOMAIN Tail(q) /\ j \in Nat /\ Tail(q)[j - 1] = q[j]
        BY <2>1, <2>2, TailAt
      <3> QED
        BY <2>1, <2>2, <3>1
    <2> QED
      BY <2>1, <2>2 DEF LastTells
  <1>2. ASSUME Head(q) \in M, ~Waits(Tail(q), M) PROVE Head(q) \in T
    <2>1. ASSUME NEW j \in DOMAIN q, j > 1 PROVE q[j] \notin M
      <3>1. j - 1 \in DOMAIN Tail(q) /\ Tail(q)[j - 1] = q[j]
        BY <2>1, TailAt
      <3> QED
        BY <1>2, <3>1 DEF Waits
    <2> QED
      BY <1>2, <2>1, TailAt DEF LastTells
  <1> QED
    BY <1>1, <1>2

\* Nothing waits in an empty queue.
LEMMA EmptyTells ==
    ASSUME NEW M, NEW T
    PROVE  ~Waits(<<>>, M) /\ LastTells(<<>>, M, T)
  BY DEF Waits, LastTells

\* Signals that are sent together, and all right, come after those that waited.
LEMMA ConcatTells ==
    ASSUME NEW S, NEW q \in Seq(S), NEW r \in Seq(S), NEW M, NEW T,
           \A i \in DOMAIN r : r[i] \in M => r[i] \in T,
           Waits(r, M) \/ LastTells(q, M, T)
    PROVE  /\ q \o r \in Seq(S)
           /\ Waits(q \o r, M) <=> Waits(q, M) \/ Waits(r, M)
           /\ LastTells(q \o r, M, T)
  <1> DEFINE c == q \o r
             m == Len(q)
             n == Len(r)
  <1>1. /\ c \in Seq(S) /\ DOMAIN c = 1..(m + n) /\ m \in Nat /\ n \in Nat
        /\ DOMAIN q = 1..m /\ DOMAIN r = 1..n
        /\ \A i \in 1..(m + n) : c[i] = IF i <= m THEN q[i] ELSE r[i - m]
    <2>1. /\ c \in Seq(S) /\ Len(c) = m + n
          /\ \A i \in 1..(m + n) : c[i] = IF i <= m THEN q[i] ELSE r[i - m]
      BY ConcatProperties
    <2>2. /\ DOMAIN c = 1..Len(c) /\ m \in Nat /\ n \in Nat
          /\ DOMAIN q = 1..m /\ DOMAIN r = 1..n
      BY <2>1, LenProperties
    <2> QED
      BY <2>1, <2>2
  <1> HIDE DEF c, m, n
  <1>2. \A i \in DOMAIN q : i \in DOMAIN c /\ c[i] = q[i]
    BY <1>1
  <1>3. \A i \in DOMAIN r : i + m \in DOMAIN c /\ c[i + m] = r[i] /\ i + m > m
    BY <1>1
  <1>4. \A i \in DOMAIN c :
          \/ i \in DOMAIN q /\ c[i] = q[i] /\ i <= m
          \/ i - m \in DOMAIN r /\ c[i] = r[i - m]
    <2> SUFFICES ASSUME NEW i \in DOMAIN c
                 PROVE  \/ i \in DOMAIN q /\ c[i] = q[i] /\ i <= m
                        \/ i - m \in DOMAIN r /\ c[i] = r[i - m]
      OBVIOUS
    <2>1. i \in 1..(m + n)
      BY <1>1
    <2>2. CASE i <= m
      BY <1>1, <2>1, <2>2
    <2>3. CASE i > m
      <3>1. i - m \in 1..n
        BY <1>1, <2>1, <2>3
      <3> QED
        BY <1>1, <2>1, <2>3, <3>1
    <2> QED
      BY <1>1, <2>1, <2>2, <2>3
  <1>5. Waits(c, M) <=> Waits(q, M) \/ Waits(r, M)
    BY <1>2, <1>3, <1>4 DEF Waits
  <1>6. LastTells(c, M, T)
    <2> SUFFICES ASSUME NEW i \in DOMAIN c, c[i] \in M,
                        \A j \in DOMAIN c : j > i => c[j] \notin M
                 PROVE  c[i] \in T
      BY DEF LastTells
    <2>1. CASE i - m \in DOMAIN r /\ c[i] = r[i - m]
      BY <2>1
    <2>2. CASE i \in DOMAIN q /\ c[i] = q[i] /\ i <= m
      <3>1. ~Waits(r, M)
        <4>1. \A j \in DOMAIN r : j + m \in DOMAIN c /\ c[j + m] = r[j] /\ j + m > i
          BY <1>1, <1>3, <2>2
        <4> QED
          BY <4>1 DEF Waits
      <3>2. \A j \in DOMAIN q : j > i => q[j] \notin M
        BY <1>2
      <3> QED
        BY <2>2, <3>1, <3>2 DEF LastTells
    <2> QED
      BY <1>4, <2>1, <2>2
  <1> QED
    BY <1>1, <1>5, <1>6 DEF c

=============================================================================
