----------------------------- MODULE FoldLemmas -----------------------------
(***************************************************************************)
(* What the proofs about numbers and sequences share: induction over the   *)
(* natural numbers, stated for sets, and the table of the intermediate     *)
(* results from which FoldLeft of SequencesExt takes its value.            *)
(***************************************************************************)
EXTENDS Integers, Sequences, SequencesExt, FiniteSetTheorems, TLAPS

\* A set of numbers has a least one: the well-founded sets are those below it.
LEMMA LeastNatural ==
    ASSUME NEW T, T \subseteq Nat, T # {}
    PROVE  \E m \in T : \A n \in T : m <= n
<1>1. PICK k \in T : TRUE
  OBVIOUS
<1> DEFINE S == 0 .. k
           U == {0 .. i : i \in {j \in T : j <= k}}
<1>2. IsFiniteSet(S)
  BY <1>1, FS_Interval
<1>3. IsWellFoundedOn(StrictSubsetOrdering(S), SUBSET S)
  BY <1>2, FS_StrictSubsetOrderingWellFounded, FS_FiniteSubsetsOfFinite
<1>4. U \subseteq SUBSET S
  BY <1>1
<1>5. U # {}
  BY <1>1
<1> HIDE DEF U
<1>6. PICK x \in U : \A y \in U : ~ (<<y, x>> \in StrictSubsetOrdering(S))
  BY <1>3, <1>4, <1>5, WFMin
<1>7. PICK m \in T : m <= k /\ x = 0 .. m
  BY <1>6 DEF U
<1>8. ASSUME NEW n \in T, n < m PROVE FALSE
  <2>1. 0 .. n \in U
    BY <1>7, <1>8, <1>1 DEF U
  <2>2. 0 .. n \subseteq 0 .. m /\ 0 .. n # 0 .. m
    <3>1. m \in 0 .. m /\ m \notin 0 .. n
      BY <1>8
    <3> QED BY <3>1, <1>8
  <2> QED BY <2>1, <2>2, <1>6, <1>7, <1>4 DEF StrictSubsetOrdering
<1> QED BY <1>7, <1>8

\* Induction: what holds of 0, and of a number after the one before it, holds of all.
LEMMA SetInduction ==
    ASSUME NEW T, 0 \in T, \A n \in Nat : n \in T => n + 1 \in T
    PROVE  Nat \subseteq T
<1> SUFFICES ASSUME NEW n \in Nat, n \notin T PROVE FALSE
  OBVIOUS
<1>1. PICK m \in Nat \ T : \A k \in Nat \ T : m <= k
  BY LeastNatural
<1>2. m # 0 /\ m - 1 \in Nat /\ m - 1 \in T
  BY <1>1
<1> QED BY <1>1, <1>2

\* The largest element of a set of numbers that has the upper bound in it.
LEMMA MaxOfBounded ==
    ASSUME NEW n \in Nat, NEW t \in SUBSET (1 .. n), n \in t
    PROVE  Max(t) = n
<1>1. \A x \in t : n >= x
  OBVIOUS
<1> DEFINE c == CHOOSE x \in t : \A y \in t : x >= y
<1>2. c \in t /\ \A y \in t : c >= y
  BY <1>1
<1> HIDE DEF c
<1>3. c = n
  BY <1>1, <1>2
<1> QED BY <1>3 DEF Max, c

\* A non-empty set of numbers up to a bound has a largest element.
LEMMA MaxIsIn ==
    ASSUME NEW n \in Nat, NEW t \in SUBSET (1 .. n), t # {}
    PROVE  Max(t) \in t
<1> DEFINE T == {n - x : x \in t}
<1>1. T \subseteq Nat /\ T # {}
  <2>1. \A x \in t : n - x \in Nat
    OBVIOUS
  <2> QED BY <2>1
<1>2. PICK d \in T : \A e \in T : d <= e
  BY <1>1, LeastNatural
<1>3. PICK m \in t : d = n - m
  OBVIOUS
<1>4. \A y \in t : m >= y
  <2> SUFFICES ASSUME NEW y \in t PROVE m >= y
    OBVIOUS
  <2>1. d <= n - y
    BY <1>2
  <2> QED BY <1>3, <2>1
<1>5. (CHOOSE x \in t : \A y \in t : x >= y) \in t
  BY <1>4
<1> QED BY <1>5 DEF Max

\* The positions up to k are those up to the one before, and k, the largest.
LEMMA Positions ==
    ASSUME NEW n \in Nat, NEW k \in 1 .. n
    PROVE  /\ k \in Nat /\ 1 .. k \in SUBSET (1 .. n) /\ 1 .. k # {}
           /\ Max(1 .. k) = k
           /\ (1 .. k) \ {k} = 1 .. (k - 1)
<1>1. k \in Nat /\ k >= 1 /\ k <= n
  OBVIOUS
<1>2. \A x \in Int : x \in 1 .. k => x \in 1 .. n
  BY <1>1
<1>3. k \in 1 .. k
  BY <1>1
<1>4. 1 .. k \in SUBSET (1 .. n)
  BY <1>2
<1>5. \A x \in Int : x \in (1 .. k) \ {k} <=> x \in 1 .. (k - 1)
  BY <1>1
<1>6. (1 .. k) \ {k} = 1 .. (k - 1)
  <2>1. (1 .. k) \ {k} \subseteq Int /\ 1 .. (k - 1) \subseteq Int
    BY <1>1
  <2> QED BY <1>5, <2>1
<1>7. 1 .. k \in SUBSET (1 .. k)
  OBVIOUS
<1>8. Max(1 .. k) = k
  BY <1>1, <1>3, <1>7, MaxOfBounded
<1> QED BY <1>1, <1>3, <1>4, <1>6, <1>8

\* f combines a result in T with an element in S; s has n elements, in S.
Combines(f, S, T) == f \in [T \X S -> T]
HasElements(s, n, S) == s \in [1 .. n -> S]

\* h holds the result of folding f over the positions of every set.
IsTable(h, f, base, n, s, T) ==
    /\ h \in [SUBSET (1 .. n) -> T]
    /\ \A t \in SUBSET (1 .. n) :
          h[t] = IF t = {} THEN base ELSE f[<<h[t \ {Max(t)}], s[Max(t)]>>]

\* A fold has such a table: its result for a set is the one before the largest
\* position of it, combined with the element there.
LEMMA FoldTable ==
    ASSUME NEW S, NEW T, NEW f, Combines(f, S, T), NEW base \in T,
           NEW n \in Nat, NEW s, HasElements(s, n, S)
    PROVE  \E h : IsTable(h, f, base, n, s, T)
<1>0. f \in [T \X S -> T] /\ s \in [1 .. n -> S]
  BY DEF Combines, HasElements
<1> DEFINE Table(m, h) == IsTable(h, f, base, m, s, T)
           Good == {m \in Nat : m <= n => \E h : Table(m, h)}
<1>1. 0 \in Good
  <2> DEFINE h == [t \in SUBSET (1 .. 0) |-> base]
  <2>1. \A t \in SUBSET (1 .. 0) : t = {}
    OBVIOUS
  <2>2. Table(0, h)
    BY <2>1 DEF IsTable
  <2> HIDE DEF Table
  <2> QED BY <2>2
<1>2. ASSUME NEW m \in Nat, m + 1 <= n, \E h : Table(m, h) PROVE \E h : Table(m + 1, h)
  <2>1. PICK h : Table(m, h)
    BY <1>2
  <2>0. /\ h \in [SUBSET (1 .. m) -> T]
        /\ \A t \in SUBSET (1 .. m) :
             h[t] = IF t = {} THEN base ELSE f[<<h[t \ {Max(t)}], s[Max(t)]>>]
    BY <2>1 DEF IsTable
  <2> DEFINE x == m + 1
             g == [t \in SUBSET (1 .. x) |-> IF x \in t THEN f[<<h[t \ {x}], s[x]>>] ELSE h[t]]
  <2>2. x \in 1 .. n /\ s[x] \in S /\ x \in Nat
    <3>1. x \in 1 .. n /\ x \in Nat
      BY <1>2
    <3> QED BY <1>0, <3>1
  <2>3. ASSUME NEW t \in SUBSET (1 .. x)
        PROVE  /\ t \ {x} \in SUBSET (1 .. m)
               /\ x \notin t => t \in SUBSET (1 .. m)
    OBVIOUS
  <2>4. g \in [SUBSET (1 .. x) -> T]
    <3>1. ASSUME NEW t \in SUBSET (1 .. x) PROVE g[t] \in T
      <4>1. h[t \ {x}] \in T /\ (x \notin t => h[t] \in T)
        BY <2>0, <2>3
      <4>2. <<h[t \ {x}], s[x]>> \in T \X S
        BY <2>2, <4>1
      <4> QED BY <1>0, <4>1, <4>2
    <3> QED BY <3>1
  <2>5. ASSUME NEW t \in SUBSET (1 .. x)
        PROVE  g[t] = IF t = {} THEN base ELSE f[<<g[t \ {Max(t)}], s[Max(t)]>>]
    <3>1. CASE x \in t
      <4>1. Max(t) = x
        BY <2>2, <3>1, MaxOfBounded
      <4>2. g[t \ {x}] = h[t \ {x}]
        BY <2>3
      <4> QED BY <3>1, <4>1, <4>2
    <3>2. CASE x \notin t
      <4>1. t \in SUBSET (1 .. m) /\ g[t] = h[t]
        BY <2>3, <3>2
      <4>2. CASE t = {}
        BY <2>0, <4>1, <4>2
      <4>3. CASE t # {}
        <5>1. Max(t) \in t
          BY <4>1, <4>3, MaxIsIn
        <5>2. t \ {Max(t)} \in SUBSET (1 .. x) /\ x \notin t \ {Max(t)}
          BY <3>2
        <5>3. g[t \ {Max(t)}] = h[t \ {Max(t)}]
          BY <5>2
        <5> QED BY <2>0, <4>1, <4>3, <5>3
      <4> QED BY <4>2, <4>3
    <3> QED BY <3>1, <3>2
  <2>6. Table(x, g)
    BY <2>4, <2>5 DEF IsTable
  <2> QED BY <2>6
<1> HIDE DEF Table
<1>3. \A m \in Nat : m \in Good => m + 1 \in Good
  BY <1>2
<1>4. n \in Good
  <2> HIDE DEF Good
  <2> QED BY <1>1, <1>3, SetInduction
<1>5. PICK h : Table(n, h)
  BY <1>4
<1> QED BY <1>5 DEF Table


\* r holds, for every set of positions, the result for the set without its largest
\* position combined with the element there, where that result is one of T.
Follows(r, f, base, n, s, T) ==
    /\ r[{}] = base
    /\ \A t \in SUBSET (1 .. n) :
          t # {} /\ r[t \ {Max(t)}] \in T => r[t] = f[<<r[t \ {Max(t)}], s[Max(t)]>>]

\* g holds the result after each element.
IsRun(g, f, base, n, s, T) ==
    /\ g \in [0 .. n -> T]
    /\ g[0] = base
    /\ \A k \in 1 .. n : g[k] = f[<<g[k - 1], s[k]>>]

\* The results of a fold for the first positions are those after each element.
LEMMA FoldRun ==
    ASSUME NEW S, NEW T, NEW f, Combines(f, S, T), NEW base \in T,
           NEW n \in Nat, NEW s, HasElements(s, n, S), NEW r, Follows(r, f, base, n, s, T)
    PROVE  \E g : IsRun(g, f, base, n, s, T) /\ g[n] = r[1 .. n]
<1>0. f \in [T \X S -> T] /\ s \in [1 .. n -> S]
  BY DEF Combines, HasElements
<1>1. r[{}] = base /\ 1 .. 0 = {}
  BY DEF Follows
<1>2. ASSUME NEW k \in 1 .. n, r[1 .. (k - 1)] \in T
      PROVE  r[1 .. k] = f[<<r[1 .. (k - 1)], s[k]>>] /\ r[1 .. k] \in T
  <2>1. 1 .. k \in SUBSET (1 .. n) /\ 1 .. k # {} /\ Max(1 .. k) = k /\ (1 .. k) \ {k} = 1 .. (k - 1)
    BY Positions
  <2>2. r[1 .. k] = f[<<r[1 .. (k - 1)], s[k]>>]
    BY <1>2, <2>1 DEF Follows
  <2>3. <<r[1 .. (k - 1)], s[k]>> \in T \X S
    BY <1>0, <1>2
  <2> QED BY <1>0, <2>2, <2>3
<1> DEFINE Good == {k \in Nat : k <= n => r[1 .. k] \in T}
<1>3. 0 \in Good
  BY <1>1
<1>4. ASSUME NEW k \in Nat, k \in Good PROVE k + 1 \in Good
  <2> SUFFICES ASSUME k + 1 <= n PROVE r[1 .. (k + 1)] \in T
    OBVIOUS
  <2>1. k + 1 \in 1 .. n /\ (k + 1) - 1 = k /\ r[1 .. k] \in T
    BY <1>4
  <2> QED BY <1>2, <2>1
<1> HIDE DEF Good
<1>5. Nat \subseteq Good
  BY <1>3, <1>4, SetInduction
<1>6. \A k \in 0 .. n : r[1 .. k] \in T
  BY <1>5 DEF Good
<1> DEFINE g == [k \in 0 .. n |-> r[1 .. k]]
<1>7. 0 \in 0 .. n /\ n \in 0 .. n
  OBVIOUS
<1>8. g \in [0 .. n -> T] /\ g[0] = base /\ g[n] = r[1 .. n]
  BY <1>1, <1>6, <1>7
<1>9. ASSUME NEW k \in 1 .. n PROVE g[k] = f[<<g[k - 1], s[k]>>]
  <2>1. k \in 0 .. n /\ k - 1 \in 0 .. n
    OBVIOUS
  <2>2. r[1 .. k] = f[<<r[1 .. (k - 1)], s[k]>>]
    BY <1>2, <1>6, <2>1
  <2> QED BY <2>1, <2>2
<1> HIDE DEF g
<1>10. IsRun(g, f, base, n, s, T)
  BY <1>8, <1>9 DEF IsRun
<1> QED BY <1>8, <1>10
=============================================================================
