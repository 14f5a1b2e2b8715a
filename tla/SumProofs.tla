----------------------------- MODULE SumProofs -----------------------------
(***************************************************************************)
(* Induction over the naturals, and what follows from it about sums over   *)
(* finite sets (SumFunctionOnSet of the community module Functions) and    *)
(* about counts.  Induction is stated for a set S of naturals instead of a *)
(* predicate, and comes from the least element that a set has which is not *)
(* all of Nat: a fact that takes no operator as a parameter.               *)
(***************************************************************************)
EXTENDS Integers, Sequences, Functions, FiniteSets, WellFoundedInduction, TLAPS

-----------------------------------------------------------------------------
(* Induction *)

\* A set with 0 and the successor of each of its naturals has all of them.
LEMMA NatInSet ==
    ASSUME NEW S, 0 \in S, \A n \in Nat : n \in S => n + 1 \in S
    PROVE  \A n \in Nat : n \in S
<1> DEFINE T == {n \in Nat : n \notin S}
           R == {ss \in Nat \X Nat : ss[1] < ss[2]}
<1> SUFFICES ASSUME T # {} PROVE FALSE
  OBVIOUS
<1>1. PICK x \in T : \A y \in T : ~ (<<y, x>> \in R)
  <2>1. IsWellFoundedOn(R, Nat)
    BY NatLessThanWellFounded DEF OpToRel
  <2>2. T \subseteq Nat
    OBVIOUS
  <2> HIDE DEF R, T
  <2> QED
    BY <2>1, <2>2, WFMin, Zenon
<1>2. x \in Nat /\ x # 0 /\ x - 1 \in Nat
  OBVIOUS
<1>3. x - 1 \in T
  BY <1>2
<1>4. <<x - 1, x>> \in R
  BY <1>2
<1> QED
  BY <1>1, <1>3, <1>4

\* A nonempty set of naturals has a least element.
LEMMA LeastExists ==
    ASSUME NEW S, S \subseteq Nat, S # {}
    PROVE  \E x \in S : \A y \in S : x <= y
<1> DEFINE R == {ss \in Nat \X Nat : ss[1] < ss[2]}
<1>1. IsWellFoundedOn(R, Nat)
  BY NatLessThanWellFounded DEF OpToRel
<1> HIDE DEF R
<1>2. PICK x \in S : \A y \in S : ~ (<<y, x>> \in R)
  BY <1>1, WFMin, Zenon
<1>3. ASSUME NEW y \in S PROVE x <= y
  <2>1. x \in Nat /\ y \in Nat
    OBVIOUS
  <2>2. y < x => <<y, x>> \in R
    BY <2>1 DEF R
  <2> QED
    BY <1>2, <2>1, <2>2
<1> QED
  BY <1>3

-----------------------------------------------------------------------------
(* Finite sets *)

LEMMA EmptyFinite == IsFiniteSet({})
<1>1. <<>> \in Seq({})
  OBVIOUS
<1> QED
  BY <1>1, Zenon DEF IsFiniteSet

LEMMA SubsetFinite ==
    ASSUME NEW S, IsFiniteSet(S), NEW T \in SUBSET S
    PROVE  IsFiniteSet(T)
<1>1. PICK q \in Seq(S) : \A s \in S : \E n \in 1..Len(q) : q[n] = s
  BY DEF IsFiniteSet
<1>2. CASE T = {}
  BY <1>2, EmptyFinite
<1>3. CASE T # {}
  <2>1. PICK t : t \in T
    BY <1>3
  <2> DEFINE r == [n \in 1..Len(q) |-> IF q[n] \in T THEN q[n] ELSE t]
  <2>2. r \in Seq(T) /\ Len(r) = Len(q)
    BY <2>1
  <2>3. \A s \in T : \E n \in 1..Len(r) : r[n] = s
    BY <1>1, <2>2, SMTT(30)
  <2> HIDE DEF r
  <2> QED
    BY <2>2, <2>3 DEF IsFiniteSet
<1> QED
  BY <1>2, <1>3

LEMMA IntervalFinite ==
    ASSUME NEW a \in Int, NEW b \in Int
    PROVE  IsFiniteSet(a..b)
<1>1. CASE a > b
  <2>1. a..b = {}
    BY <1>1
  <2> QED
    BY <2>1, EmptyFinite
<1>2. CASE a <= b
  <2> DEFINE n == b - a + 1
             q == [k \in 1..n |-> a + k - 1]
  <2>1. n \in Nat
    BY <1>2
  <2>2. \A k \in 1..n : a + k - 1 \in a..b
    OBVIOUS
  <2>3. q \in Seq(a..b) /\ Len(q) = n
    <3> HIDE DEF n
    <3> QED
      BY <2>1, <2>2
  <2>4. \A s \in a..b : s - a + 1 \in 1..Len(q) /\ q[s - a + 1] = s
    BY <2>3
  <2> HIDE DEF q, n
  <2> QED
    BY <2>3, <2>4 DEF IsFiniteSet
<1> QED
  BY <1>1, <1>2

\* The sets that Q must have before it has all subsets of S.
Grows(Q, S) ==
    /\ {} \in Q
    /\ \A T \in SUBSET S : T # {} /\ (\A x \in T : T \ {x} \in Q) => T \in Q

\* Finite sets are built by adding elements one at a time.
LEMMA FiniteInSet ==
    ASSUME NEW S, IsFiniteSet(S), NEW Q, {} \in Q,
           \A T \in SUBSET S : T # {} /\ (\A x \in T : T \ {x} \in Q) => T \in Q
    PROVE  \A T \in SUBSET S : T \in Q
<1>1. PICK q \in Seq(S) : \A s \in S : \E n \in 1..Len(q) : q[n] = s
  BY DEF IsFiniteSet
<1> DEFINE First(n) == {q[k] : k \in 1..n}
           N == {n \in Nat : n <= Len(q) =>
                   \A P \in SUBSET SUBSET S : Grows(P, S) => SUBSET First(n) \subseteq P}
<1>2. 0 \in N
  <2>1. First(0) = {}
    OBVIOUS
  <2> QED
    BY <2>1, Zenon DEF Grows
<1>3. ASSUME NEW n \in Nat, n \in N PROVE n + 1 \in N
  <2> SUFFICES ASSUME n + 1 <= Len(q), NEW P \in SUBSET SUBSET S, Grows(P, S),
                      NEW T \in SUBSET First(n + 1)
               PROVE  T \in P
    OBVIOUS
  <2> DEFINE x == q[n + 1]
             R == {U \in SUBSET S : U \in P /\ U \cup {x} \in P}
  <2>1. x \in S /\ First(n + 1) = First(n) \cup {x} /\ First(n) \subseteq S
    OBVIOUS
  <2> HIDE DEF x, First
  <2>2. Grows(R, S)
    <3>1. {} \in R
      <4>1. {x} \in SUBSET S /\ \A y \in {x} : {x} \ {y} = {}
        BY <2>1
      <4> QED
        BY <4>1, Zenon DEF Grows
    <3>2. ASSUME NEW U \in SUBSET S, U # {}, \A y \in U : U \ {y} \in R PROVE U \in R
      <4>1. U \in P
        BY <3>2, Zenon DEF Grows
      <4>2. CASE x \in U
        <5>1. U \cup {x} = U
          BY <4>2
        <5> QED
          BY <4>1, <5>1, Zenon
      <4>3. CASE x \notin U
        <5> DEFINE V == U \cup {x}
        <5>1. V \in SUBSET S /\ V # {}
          BY <2>1
        <5>2. ASSUME NEW y \in V PROVE V \ {y} \in P
          <6>1. CASE y = x
            <7>1. V \ {y} = U
              BY <4>3, <6>1
            <7> QED
              BY <4>1, <7>1, Zenon
          <6>2. CASE y # x
            <7>1. y \in U /\ V \ {y} = (U \ {y}) \cup {x}
              BY <6>2
            <7> QED
              BY <3>2, <7>1, Zenon
          <6> QED
            BY <6>1, <6>2
        <5>3. V \in P
          <6> HIDE DEF V
          <6> QED
            BY <5>1, <5>2, Zenon DEF Grows
        <5> QED
          BY <4>1, <5>3
      <4> QED
        BY <4>2, <4>3
    <3> HIDE DEF R
    <3> QED
      BY <3>1, <3>2, Zenon DEF Grows
  <2>3. SUBSET First(n) \subseteq R
    <3>1. R \in SUBSET SUBSET S /\ n <= Len(q)
      OBVIOUS
    <3> HIDE DEF R
    <3> QED
      BY <1>3, <2>2, <3>1
  <2>4. T \ {x} \in SUBSET First(n)
    BY <2>1
  <2>5. T \ {x} \in P /\ (T \ {x}) \cup {x} \in P
    BY <2>3, <2>4, Zenon
  <2>6. CASE x \in T
    <3>1. (T \ {x}) \cup {x} = T
      BY <2>6
    <3> QED
      BY <2>5, <3>1, Zenon
  <2>7. CASE x \notin T
    <3>1. T \ {x} = T
      BY <2>7
    <3> QED
      BY <2>5, <3>1, Zenon
  <2> QED
    BY <2>6, <2>7
<1>4. \A n \in Nat : n \in N
  <2> HIDE DEF N
  <2> QED
    BY <1>2, <1>3, NatInSet
<1>5. First(Len(q)) = S
  BY <1>1
<1> DEFINE P == Q \cap SUBSET S
<1>6. Grows(P, S) /\ P \in SUBSET SUBSET S
  <2>1. {} \in P
    OBVIOUS
  <2>2. ASSUME NEW T \in SUBSET S, T # {}, \A x \in T : T \ {x} \in P PROVE T \in P
    BY <2>2
  <2> QED
    BY <2>1, <2>2, Zenon DEF Grows
<1>7. Len(q) \in Nat
  OBVIOUS
<1> HIDE DEF First, P
<1> QED
  BY <1>4, <1>5, <1>6, <1>7 DEF P
-----------------------------------------------------------------------------
(* The recursion behind a sum *)

Pick(s) == CHOOSE x \in s : TRUE

\* g is the running sum of f over the subsets of S.
IsSum(g, f, S) == g = [s \in SUBSET S |-> IF s = {} THEN 0 ELSE f[Pick(s)] + g[s \ {Pick(s)}]]

LEMMA SumUnfold ==
    ASSUME NEW f, NEW S
    PROVE  SumFunctionOnSet(f, S) = (CHOOSE g : IsSum(g, f, S))[S]
BY DEF SumFunctionOnSet, FoldFunctionOnSet, MapThenFoldSet, IsSum, Pick

LEMMA PickIn == ASSUME NEW s, s # {} PROVE Pick(s) \in s
BY DEF Pick

\* Running sums of functions that agree on the sets' intersection agree there.
LEMMA SumAgree ==
    ASSUME NEW A, NEW B, IsFiniteSet(B), NEW f, NEW e, \A x \in A \cap B : f[x] = e[x],
           NEW g, IsSum(g, f, A), NEW h, IsSum(h, e, B)
    PROVE  \A s \in SUBSET (A \cap B) : g[s] = h[s]
<1> DEFINE C == A \cap B
           Q == {s \in SUBSET C : g[s] = h[s]}
<1>1. IsFiniteSet(C) /\ C \in SUBSET A /\ C \in SUBSET B
  BY SubsetFinite
<1> HIDE DEF C
<1>2. {} \in Q
  BY <1>1 DEF IsSum
<1>3. ASSUME NEW s \in SUBSET C, s # {}, \A x \in s : s \ {x} \in Q PROVE s \in Q
  <2> DEFINE x == Pick(s)
             r == s \ {x}
  <2>1. x \in s /\ s \in SUBSET A /\ s \in SUBSET B
    BY <1>1, <1>3, PickIn
  <2>2. g[r] = h[r]
    BY <1>3, <2>1
  <2>3. g[s] = f[x] + g[r]
    BY <1>3, <2>1, Zenon DEF IsSum
  <2>4. h[s] = e[x] + h[r]
    BY <1>3, <2>1, Zenon DEF IsSum
  <2>5. f[x] = e[x]
    BY <2>1
  <2> QED
    BY <2>2, <2>3, <2>4, <2>5
<1>4. \A s \in SUBSET C : s \in Q
  <2> HIDE DEF Q
  <2> QED
    BY <1>1, <1>2, <1>3, FiniteInSet, Zenon
<1> QED
  BY <1>4 DEF C

\* Over a finite set the running sum exists: it is put together from those of
\* the sets with one element less.
LEMMA SumExists ==
    ASSUME NEW f, NEW S, IsFiniteSet(S)
    PROVE  \E g : IsSum(g, f, S)
<1> DEFINE Q == {T \in SUBSET S : \E g : IsSum(g, f, T)}
<1>1. {} \in Q
  <2> DEFINE g == [s \in SUBSET {} |-> 0]
  <2>1. IsSum(g, f, {})
    BY DEF IsSum
  <2> QED
    BY <2>1, Zenon
<1>2. ASSUME NEW T \in SUBSET S, T # {}, \A x \in T : T \ {x} \in Q PROVE T \in Q
  <2> DEFINE G(x) == CHOOSE g : IsSum(g, f, T \ {x})
             p == Pick(T)
             h == [s \in SUBSET T |-> IF s = T THEN f[p] + G(p)[T \ {p}] ELSE G(Pick(T \ s))[s]]
  <2>1. \A x \in T : IsSum(G(x), f, T \ {x})
    BY <1>2, Zenon
  <2>2. p \in T
    BY <1>2, PickIn
  <2>3. ASSUME NEW s \in SUBSET T, s # T
        PROVE  Pick(T \ s) \in T \ s /\ h[s] = G(Pick(T \ s))[s]
    <3>1. T \ s # {}
      BY <2>3
    <3> QED
      BY <2>3, <3>1, PickIn, Zenon
  <2>4. h[T] = f[p] + G(p)[T \ {p}]
    BY Zenon
  <2> HIDE DEF h, G, p
  <2>5. ASSUME NEW x \in T, NEW y \in T, NEW r \in SUBSET (T \ {x}), r \in SUBSET (T \ {y})
        PROVE  G(x)[r] = G(y)[r]
    <3> DEFINE A == T \ {x}
               B == T \ {y}
               gx == G(x)
               gy == G(y)
    <3>1. r \in SUBSET (A \cap B)
      BY <2>5
    <3>5. IsFiniteSet(B)
      BY SubsetFinite
    <3>2. IsSum(gx, f, A) /\ IsSum(gy, f, B)
      BY <2>1
    <3>3. \A z \in A \cap B : f[z] = f[z]
      OBVIOUS
    <3> HIDE DEF A, B, gx, gy
    <3>4. \A s \in SUBSET (A \cap B) : gx[s] = gy[s]
      BY <3>2, <3>3, <3>5, SumAgree
    <3> QED
      BY <3>1, <3>4, Zenon DEF gx, gy
  <2>6. ASSUME NEW s \in SUBSET T
        PROVE  h[s] = IF s = {} THEN 0 ELSE f[Pick(s)] + h[s \ {Pick(s)}]
    <3>1. CASE s = T
      <4> DEFINE r == T \ {p}
      <4>1. r \in SUBSET T /\ r # T /\ T \ r = {p}
        BY <2>2
      <4>2. Pick(T \ r) = p
        BY <4>1, PickIn
      <4>3. h[r] = G(p)[r]
        BY <2>3, <4>1, <4>2
      <4> QED
        BY <1>2, <2>4, <3>1, <4>3 DEF p
    <3>2. CASE s # T
      <4> DEFINE x == Pick(T \ s)
      <4>1. x \in T /\ s \in SUBSET (T \ {x}) /\ h[s] = G(x)[s]
        BY <2>3, <3>2
      <4>2. IsSum(G(x), f, T \ {x})
        BY <2>1, <4>1
      <4> HIDE DEF x
      <4>3. G(x)[s] = IF s = {} THEN 0 ELSE f[Pick(s)] + G(x)[s \ {Pick(s)}]
        BY <4>1, <4>2, Zenon DEF IsSum
      <4>4. CASE s = {}
        BY <4>1, <4>3, <4>4
      <4>5. CASE s # {}
        <5> DEFINE r == s \ {Pick(s)}
                   y == Pick(T \ r)
        <5>1. r \in SUBSET T /\ r # T /\ r \in SUBSET (T \ {x})
          BY <4>1, <4>5, PickIn
        <5>2. y \in T \ r /\ h[r] = G(y)[r]
          BY <2>3, <5>1
        <5>3. G(x)[r] = G(y)[r]
          <6> HIDE DEF r, y
          <6>1. r \in SUBSET (T \ {y})
            BY <5>1, <5>2
          <6> QED
            BY <2>5, <4>1, <5>1, <5>2, <6>1
        <5> QED
          BY <4>1, <4>3, <4>5, <5>2, <5>3
      <4> QED
        BY <4>4, <4>5
    <3> QED
      BY <3>1, <3>2
  <2>7. IsSum(h, f, T)
    <3>1. h = [s \in SUBSET T |-> h[s]]
      BY DEF h
    <3> QED
      BY <2>6, <3>1, Zenon DEF IsSum
  <2> QED
    BY <2>7, Zenon
<1>3. \A T \in SUBSET S : T \in Q
  <2> HIDE DEF Q
  <2> QED
    BY <1>1, <1>2, FiniteInSet, Zenon
<1> QED
  BY <1>3

LEMMA SumIsSum ==
    ASSUME NEW f, NEW S, IsFiniteSet(S)
    PROVE  \E g : IsSum(g, f, S) /\ SumFunctionOnSet(f, S) = g[S]
<1> DEFINE g == CHOOSE g : IsSum(g, f, S)
<1>1. IsSum(g, f, S)
  BY SumExists
<1>2. SumFunctionOnSet(f, S) = g[S]
  BY SumUnfold
<1> QED
  BY <1>1, <1>2, Zenon

\* Running sums of functions that agree on the smaller set agree there.
LEMMA SumUnique ==
    ASSUME NEW S, IsFiniteSet(S), NEW T \in SUBSET S, NEW f, NEW e, \A x \in T : f[x] = e[x],
           NEW g, IsSum(g, f, S), NEW h, IsSum(h, e, T)
    PROVE  \A s \in SUBSET T : g[s] = h[s]
<1>1. S \cap T = T /\ IsFiniteSet(T)
  BY SubsetFinite
<1>2. \A s \in SUBSET (S \cap T) : g[s] = h[s]
  BY <1>1, SumAgree
<1> QED
  BY <1>1, <1>2

-----------------------------------------------------------------------------
(* What a sum over a finite set satisfies *)

LEMMA SumEmpty == ASSUME NEW f PROVE SumFunctionOnSet(f, {}) = 0
<1>1. IsFiniteSet({})
  BY EmptyFinite
<1>2. PICK g : IsSum(g, f, {}) /\ SumFunctionOnSet(f, {}) = g[{}]
  BY <1>1, SumIsSum
<1> QED
  BY <1>2 DEF IsSum

\* A sum depends only on the values of the function on the set.
LEMMA SumSame ==
    ASSUME NEW S, IsFiniteSet(S), NEW f, NEW e, \A x \in S : f[x] = e[x]
    PROVE  SumFunctionOnSet(f, S) = SumFunctionOnSet(e, S)
<1>1. PICK g : IsSum(g, f, S) /\ SumFunctionOnSet(f, S) = g[S]
  BY SumIsSum
<1>2. PICK h : IsSum(h, e, S) /\ SumFunctionOnSet(e, S) = h[S]
  BY SumIsSum
<1>3. \A s \in SUBSET S : g[s] = h[s]
  BY <1>1, <1>2, SumUnique
<1> QED
  BY <1>1, <1>2, <1>3

\* The sum takes the chosen element first.
LEMMA SumPick ==
    ASSUME NEW S, IsFiniteSet(S), S # {}, NEW f
    PROVE  SumFunctionOnSet(f, S) = f[Pick(S)] + SumFunctionOnSet(f, S \ {Pick(S)})
<1> DEFINE R == S \ {Pick(S)}
<1>1. PICK g : IsSum(g, f, S) /\ SumFunctionOnSet(f, S) = g[S]
  BY SumIsSum
<1>2. IsFiniteSet(R)
  BY SubsetFinite
<1>3. PICK h : IsSum(h, f, R) /\ SumFunctionOnSet(f, R) = h[R]
  BY <1>2, SumIsSum
<1>4. \A s \in SUBSET R : g[s] = h[s]
  <2> HIDE DEF R
  <2>1. R \in SUBSET S
    BY DEF R
  <2> QED
    BY <1>1, <1>3, <2>1, SumUnique
<1>5. g[S] = f[Pick(S)] + g[R]
  BY <1>1, Zenon DEF IsSum
<1> QED
  BY <1>1, <1>3, <1>4, <1>5

LEMMA SumInt ==
    ASSUME NEW S, IsFiniteSet(S), NEW f, \A x \in S : f[x] \in Int
    PROVE  SumFunctionOnSet(f, S) \in Int
<1> DEFINE P == {T \in SUBSET S : SumFunctionOnSet(f, T) \in Int}
<1>1. {} \in P
  BY SumEmpty
<1>2. ASSUME NEW T \in SUBSET S, T # {}, \A x \in T : T \ {x} \in P PROVE T \in P
  <2>1. Pick(T) \in T
    BY <1>2, PickIn
  <2>2. SumFunctionOnSet(f, T) = f[Pick(T)] + SumFunctionOnSet(f, T \ {Pick(T)})
    BY <1>2, SumPick, SubsetFinite, Zenon
  <2> QED
    BY <1>2, <2>1, <2>2
<1>3. \A T \in SUBSET S : T \in P
  <2> HIDE DEF P
  <2> QED
    BY <1>1, <1>2, FiniteInSet, Zenon
<1> QED
  BY <1>3

\* The sum takes out any element.
LEMMA SumSplit ==
    ASSUME NEW S, IsFiniteSet(S), NEW f, \A x \in S : f[x] \in Int, NEW y \in S
    PROVE  SumFunctionOnSet(f, S) = f[y] + SumFunctionOnSet(f, S \ {y})
<1> DEFINE Sum(T) == SumFunctionOnSet(f, T)
           P == {T \in SUBSET S : \A x \in T : Sum(T) = f[x] + Sum(T \ {x})}
<1>1. {} \in P
  OBVIOUS
<1>2. ASSUME NEW T \in SUBSET S, T # {}, \A x \in T : T \ {x} \in P PROVE T \in P
  <2> DEFINE p == Pick(T)
  <2>1. p \in T /\ IsFiniteSet(T)
    BY <1>2, PickIn, SubsetFinite
  <2>2. Sum(T) = f[p] + Sum(T \ {p})
    BY <1>2, <2>1, SumPick
  <2> HIDE DEF p
  <2> SUFFICES ASSUME NEW x \in T, x # p PROVE Sum(T) = f[x] + Sum(T \ {x})
    BY <2>2
  <2> DEFINE R == T \ {p, x}
  <2>3. (T \ {p}) \ {x} = R /\ (T \ {x}) \ {p} = R
    OBVIOUS
  <2>4. Sum(T \ {p}) = f[x] + Sum(R)
    BY <1>2, <2>1, <2>3
  <2>5. Sum(T \ {x}) = f[p] + Sum(R)
    BY <1>2, <2>1, <2>3
  <2>6. Sum(R) \in Int /\ f[x] \in Int /\ f[p] \in Int
    BY <2>1, SubsetFinite, SumInt, Zenon
  <2> QED
    BY <2>2, <2>4, <2>5, <2>6
<1>3. \A T \in SUBSET S : T \in P
  <2> HIDE DEF P
  <2> QED
    BY <1>1, <1>2, FiniteInSet, Zenon
<1> QED
  BY <1>3

\* When one value changes the sum changes by as much.
LEMMA SumUpdate ==
    ASSUME NEW S, IsFiniteSet(S), NEW y \in S,
           NEW f, \A x \in S : f[x] \in Int, NEW e, e[y] \in Int, \A x \in S \ {y} : e[x] = f[x]
    PROVE  SumFunctionOnSet(e, S) = SumFunctionOnSet(f, S) + e[y] - f[y]
<1> DEFINE R == S \ {y}
<1>1. IsFiniteSet(R)
  BY SubsetFinite
<1>2. SumFunctionOnSet(f, S) = f[y] + SumFunctionOnSet(f, R)
  BY SumSplit
<1>3. SumFunctionOnSet(e, S) = e[y] + SumFunctionOnSet(e, R)
  BY SumSplit
<1>4. SumFunctionOnSet(e, R) = SumFunctionOnSet(f, R)
  BY <1>1, SumSame
<1>5. SumFunctionOnSet(f, R) \in Int
  BY <1>1, SumInt
<1> QED
  BY <1>2, <1>3, <1>4, <1>5

\* A sum of naturals is at least each of its terms.
LEMMA SumBound ==
    ASSUME NEW S, IsFiniteSet(S), NEW f, \A x \in S : f[x] \in Nat
    PROVE  /\ SumFunctionOnSet(f, S) \in Nat
           /\ \A y \in S : f[y] <= SumFunctionOnSet(f, S)
<1> DEFINE P == {T \in SUBSET S : SumFunctionOnSet(f, T) \in Nat}
<1>1. {} \in P
  BY SumEmpty
<1>2. ASSUME NEW T \in SUBSET S, T # {}, \A x \in T : T \ {x} \in P PROVE T \in P
  <2>1. Pick(T) \in T
    BY <1>2, PickIn
  <2>2. SumFunctionOnSet(f, T) = f[Pick(T)] + SumFunctionOnSet(f, T \ {Pick(T)})
    BY <1>2, SumPick, SubsetFinite, Zenon
  <2> QED
    BY <1>2, <2>1, <2>2
<1>3. \A T \in SUBSET S : T \in P
  <2> HIDE DEF P
  <2> QED
    BY <1>1, <1>2, FiniteInSet, Zenon
<1>4. ASSUME NEW y \in S PROVE f[y] <= SumFunctionOnSet(f, S)
  <2>1. SumFunctionOnSet(f, S) = f[y] + SumFunctionOnSet(f, S \ {y})
    BY SumSplit
  <2>2. SumFunctionOnSet(f, S \ {y}) \in Nat
    BY <1>3
  <2> QED
    BY <2>1, <2>2
<1> QED
  BY <1>3, <1>4

\* A sum of zeros is zero.
LEMMA SumZero ==
    ASSUME NEW S, IsFiniteSet(S), NEW f, \A x \in S : f[x] = 0
    PROVE  SumFunctionOnSet(f, S) = 0
<1> DEFINE P == {T \in SUBSET S : SumFunctionOnSet(f, T) = 0}
<1>1. {} \in P
  BY SumEmpty
<1>2. ASSUME NEW T \in SUBSET S, T # {}, \A x \in T : T \ {x} \in P PROVE T \in P
  <2>1. Pick(T) \in T
    BY <1>2, PickIn
  <2>2. SumFunctionOnSet(f, T) = f[Pick(T)] + SumFunctionOnSet(f, T \ {Pick(T)})
    BY <1>2, SumPick, SubsetFinite, Zenon
  <2> QED
    BY <1>2, <2>1, <2>2
<1>3. \A T \in SUBSET S : T \in P
  <2> HIDE DEF P
  <2> QED
    BY <1>1, <1>2, FiniteInSet, Zenon
<1> QED
  BY <1>3

\* The sum of two functions is the sum of their sums.
LEMMA SumAdd ==
    ASSUME NEW S, IsFiniteSet(S), NEW f, NEW e, NEW h,
           \A x \in S : f[x] \in Int /\ e[x] \in Int /\ h[x] = f[x] + e[x]
    PROVE  SumFunctionOnSet(h, S) = SumFunctionOnSet(f, S) + SumFunctionOnSet(e, S)
<1> DEFINE P == {T \in SUBSET S :
                   SumFunctionOnSet(h, T) = SumFunctionOnSet(f, T) + SumFunctionOnSet(e, T)}
<1>1. {} \in P
  BY SumEmpty
<1>2. ASSUME NEW T \in SUBSET S, T # {}, \A x \in T : T \ {x} \in P PROVE T \in P
  <2> DEFINE p == Pick(T)
             R == T \ {p}
  <2>1. p \in T /\ IsFiniteSet(T) /\ IsFiniteSet(R)
    BY <1>2, PickIn, SubsetFinite, Zenon
  <2>2. /\ SumFunctionOnSet(f, T) = f[p] + SumFunctionOnSet(f, R)
        /\ SumFunctionOnSet(e, T) = e[p] + SumFunctionOnSet(e, R)
        /\ SumFunctionOnSet(h, T) = h[p] + SumFunctionOnSet(h, R)
    BY <1>2, <2>1, SumPick, Zenon
  <2> HIDE DEF p
  <2>3. SumFunctionOnSet(h, R) = SumFunctionOnSet(f, R) + SumFunctionOnSet(e, R)
    BY <1>2, <2>1
  <2>4. \A x \in R : f[x] \in Int /\ e[x] \in Int
    OBVIOUS
  <2>5. SumFunctionOnSet(f, R) \in Int /\ SumFunctionOnSet(e, R) \in Int
    <3> HIDE DEF R
    <3> QED
      BY <2>1, <2>4, SumInt, Zenon
  <2>6. f[p] \in Int /\ e[p] \in Int /\ h[p] = f[p] + e[p]
    BY <2>1
  <2> QED
    BY <2>2, <2>3, <2>5, <2>6
<1>3. \A T \in SUBSET S : T \in P
  <2> HIDE DEF P
  <2> QED
    BY <1>1, <1>2, FiniteInSet, Zenon
<1> QED
  BY <1>3

\* The steps of a sequence of numbers add up to the way from its first to its
\* last.
LEMMA SumTelescope ==
    ASSUME NEW n \in Nat, NEW c, \A i \in 1..(n + 1) : c[i] \in Int,
           NEW d, \A i \in 1..n : d[i] = c[i + 1] - c[i]
    PROVE  SumFunctionOnSet(d, 1..n) = c[n + 1] - c[1]
<1> DEFINE N == {m \in Nat : m <= n => SumFunctionOnSet(d, 1..m) = c[m + 1] - c[1]}
<1>1. 0 \in N
  <2>1. 1..0 = {} /\ c[1] \in Int
    OBVIOUS
  <2> QED
    BY <2>1, SumEmpty
<1>2. ASSUME NEW m \in Nat, m \in N PROVE m + 1 \in N
  <2> SUFFICES ASSUME m + 1 <= n PROVE SumFunctionOnSet(d, 1..(m + 1)) = c[m + 2] - c[1]
    OBVIOUS
  <2> DEFINE S == 1..(m + 1)
  <2>1. IsFiniteSet(S) /\ m + 1 \in S
    BY IntervalFinite
  <2>2. S \ {m + 1} = 1..m
    OBVIOUS
  <2>3. \A i \in S : d[i] \in Int
    OBVIOUS
  <2> HIDE DEF S
  <2>4. SumFunctionOnSet(d, S) = d[m + 1] + SumFunctionOnSet(d, S \ {m + 1})
    BY <2>1, <2>3, SumSplit, Zenon
  <2>5. SumFunctionOnSet(d, 1..m) = c[m + 1] - c[1]
    BY <1>2
  <2>6. d[m + 1] = c[m + 2] - c[m + 1]
    BY DEF S
  <2>7. c[1] \in Int /\ c[m + 1] \in Int /\ c[m + 2] \in Int
    OBVIOUS
  <2>8. SumFunctionOnSet(d, S \ {m + 1}) = c[m + 1] - c[1]
    BY <2>2, <2>5, Zenon
  <2>9. SumFunctionOnSet(d, S) = c[m + 2] - c[1]
    BY <2>4, <2>6, <2>7, <2>8
  <2> QED
    BY <2>9, Zenon DEF S
<1> HIDE DEF N
<1>3. \A m \in Nat : m \in N
  BY <1>1, <1>2, NatInSet
<1> QED
  BY <1>3 DEF N

-----------------------------------------------------------------------------
(* Counting *)

\* The cardinality of a finite set is a sum of ones.
LEMMA CardinalityIsSum ==
    ASSUME NEW S, IsFiniteSet(S), NEW f, \A x \in S : f[x] = 1
    PROVE  Cardinality(S) = SumFunctionOnSet(f, S)
<1> DEFINE Rec(g) == g = [s \in SUBSET S |-> IF s = {} THEN 0
                                             ELSE 1 + g[s \ {CHOOSE x : x \in s}]]
           c == CHOOSE g : Rec(g)
<1>1. ASSUME NEW g PROVE Rec(g) <=> IsSum(g, f, S)
  <2>1. ASSUME NEW s \in SUBSET S, s # {}
        PROVE  (CHOOSE x : x \in s) = Pick(s) /\ f[Pick(s)] = 1
    <3>1. Pick(s) \in s
      BY <2>1, PickIn
    <3>2. (CHOOSE x : x \in s) = Pick(s)
      BY DEF Pick
    <3> QED
      BY <3>1, <3>2
  <2>2. \A s \in SUBSET S :
          (IF s = {} THEN 0 ELSE 1 + g[s \ {CHOOSE x : x \in s}])
            = (IF s = {} THEN 0 ELSE f[Pick(s)] + g[s \ {Pick(s)}])
    <3> SUFFICES ASSUME NEW s \in SUBSET S, s # {}
                 PROVE  1 + g[s \ {CHOOSE x : x \in s}] = f[Pick(s)] + g[s \ {Pick(s)}]
      BY Zenon
    <3> QED
      BY <2>1, Zenon
  <2>3. [s \in SUBSET S |-> IF s = {} THEN 0 ELSE 1 + g[s \ {CHOOSE x : x \in s}]]
          = [s \in SUBSET S |-> IF s = {} THEN 0 ELSE f[Pick(s)] + g[s \ {Pick(s)}]]
    BY <2>2, Zenon
  <2> QED
    BY <2>3, Zenon DEF IsSum
<1>2. \E g : IsSum(g, f, S)
  BY SumExists
<1>3. Cardinality(S) = c[S]
  BY DEF Cardinality
<1> HIDE DEF Rec
<1>4. Rec(c)
  BY <1>1, <1>2, Zenon
<1> HIDE DEF c
<1>5. IsSum(c, f, S)
  BY <1>1, <1>4
<1>6. PICK g : IsSum(g, f, S) /\ SumFunctionOnSet(f, S) = g[S]
  BY SumIsSum
<1>7. \A s \in SUBSET S : g[s] = c[s]
  BY <1>5, <1>6, SumUnique
<1> QED
  BY <1>3, <1>6, <1>7

\* A count is a sum of ones and zeros.
LEMMA CountIsSum ==
    ASSUME NEW S, IsFiniteSet(S), NEW f, \A x \in S : f[x] \in {0, 1}
    PROVE  Cardinality({x \in S : f[x] = 1}) = SumFunctionOnSet(f, S)
<1> DEFINE C(T) == {x \in T : f[x] = 1}
           Sum(T) == SumFunctionOnSet(f, T)
           P == {T \in SUBSET S : Sum(C(T)) = Sum(T)}
<1>1. {} \in P
  <2>1. C({}) = {}
    OBVIOUS
  <2> QED
    BY <2>1
<1>2. ASSUME NEW T \in SUBSET S, T # {}, \A x \in T : T \ {x} \in P PROVE T \in P
  <2> DEFINE p == Pick(T)
             R == T \ {p}
  <2>1. p \in T /\ f[p] \in {0, 1} /\ R \in P
    BY <1>2, PickIn
  <2>2. /\ IsFiniteSet(T) /\ \A x \in T : f[x] \in Int
        /\ IsFiniteSet(C(T)) /\ \A x \in C(T) : f[x] \in Int
    BY SubsetFinite
  <2> HIDE DEF p
  <2>3. Sum(T) = f[p] + Sum(R)
    BY <2>1, <2>2, SumSplit, Zenon
  <2>4. IsFiniteSet(R) /\ \A x \in R : f[x] \in Int
    BY SubsetFinite
  <2>5. Sum(R) \in Int
    BY <2>4, SumInt, Zenon
  <2>6. CASE f[p] = 0
    <3>1. C(T) = C(R)
      BY <2>1, <2>6
    <3>2. Sum(C(T)) = Sum(R)
      BY <2>1, <3>1, Zenon
    <3>3. Sum(R) = Sum(T)
      <4> HIDE DEF Sum
      <4> QED
        BY <2>3, <2>5, <2>6
    <3> QED
      BY <3>2, <3>3, Zenon
  <2>7. CASE f[p] = 1
    <3>1. p \in C(T) /\ C(T) \ {p} = C(R)
      BY <2>1, <2>7
    <3>2. Sum(C(T)) = f[p] + Sum(C(T) \ {p})
      <4> HIDE DEF C
      <4> QED
        BY <2>2, <3>1, SumSplit, Zenon
    <3> QED
      BY <2>1, <2>3, <3>1, <3>2
  <2> QED
    BY <2>1, <2>6, <2>7
<1>3. \A T \in SUBSET S : T \in P
  <2> HIDE DEF P
  <2> QED
    BY <1>1, <1>2, FiniteInSet, Zenon
<1>4. IsFiniteSet(C(S)) /\ \A x \in C(S) : f[x] = 1
  BY SubsetFinite
<1>5. Cardinality(C(S)) = Sum(C(S))
  <2> HIDE DEF C
  <2> QED
    BY <1>4, CardinalityIsSum, Zenon
<1> QED
  BY <1>3, <1>5

\* Only the empty set counts zero elements.
LEMMA CountFacts ==
    ASSUME NEW S, IsFiniteSet(S)
    PROVE  Cardinality(S) \in Nat /\ (Cardinality(S) = 0 <=> S = {})
<1> DEFINE f == [x \in S |-> 1]
<1>1. \A x \in S : f[x] = 1 /\ f[x] \in Nat
  OBVIOUS
<1> HIDE DEF f
<1>2. Cardinality(S) = SumFunctionOnSet(f, S)
  BY <1>1, CardinalityIsSum, Zenon
<1>3. SumFunctionOnSet(f, S) \in Nat /\ \A y \in S : f[y] <= SumFunctionOnSet(f, S)
  BY <1>1, SumBound, Zenon
<1>4. S = {} => SumFunctionOnSet(f, S) = 0
  BY SumEmpty
<1> QED
  BY <1>1, <1>2, <1>3, <1>4

\* One more element counts one more.
LEMMA CountAdd ==
    ASSUME NEW S, IsFiniteSet(S), NEW x, x \notin S
    PROVE  IsFiniteSet(S \cup {x}) /\ Cardinality(S \cup {x}) = Cardinality(S) + 1
<1> DEFINE T == S \cup {x}
           f == [y \in T |-> 1]
<1>1. IsFiniteSet(T)
  <2>1. PICK q \in Seq(S) : \A s \in S : \E n \in 1..Len(q) : q[n] = s
    BY DEF IsFiniteSet
  <2> DEFINE r == Append(q, x)
  <2>2. /\ r \in Seq(T) /\ Len(r) = Len(q) + 1 /\ r[Len(q) + 1] = x /\ Len(q) \in Nat
        /\ \A n \in 1..Len(q) : r[n] = q[n]
    OBVIOUS
  <2> HIDE DEF r
  <2>3. \A s \in T : \E n \in 1..Len(r) : r[n] = s
    <3>1. \E n \in 1..Len(r) : r[n] = x
      BY <2>2
    <3>2. ASSUME NEW s \in S PROVE \E n \in 1..Len(r) : r[n] = s
      BY <2>1, <2>2
    <3> QED
      BY <3>1, <3>2
  <2> HIDE DEF T
  <2> QED
    BY <2>2, <2>3, Zenon DEF IsFiniteSet
<1>2. /\ x \in T /\ T \ {x} = S /\ \A y \in T : f[y] = 1 /\ f[y] \in Int
      /\ \A y \in S : f[y] = 1
  OBVIOUS
<1> HIDE DEF T, f
<1>3. Cardinality(T) = SumFunctionOnSet(f, T) /\ Cardinality(S) = SumFunctionOnSet(f, S)
  BY <1>1, <1>2, CardinalityIsSum, Zenon
<1>4. SumFunctionOnSet(f, T) = f[x] + SumFunctionOnSet(f, T \ {x})
  BY <1>1, <1>2, SumSplit, Zenon
<1>5. Cardinality(S) \in Nat
  BY CountFacts
<1>6. Cardinality(T) = Cardinality(S) + 1
  BY <1>2, <1>3, <1>4, <1>5
<1> QED
  BY <1>1, <1>6 DEF T

\* A set that maps one to one into a finite set is finite and no larger.
LEMMA CountInjected ==
    ASSUME NEW S, IsFiniteSet(S), NEW W, NEW f, \A w \in W : f[w] \in S,
           \A v, w \in W : f[v] = f[w] => v = w
    PROVE  IsFiniteSet(W) /\ Cardinality(W) <= Cardinality(S)
<1> DEFINE V(T) == {w \in W : f[w] \in T}
           Q == {T \in SUBSET S : IsFiniteSet(V(T)) /\ Cardinality(V(T)) <= Cardinality(T)}
<1>1. {} \in Q
  <2>1. V({}) = {}
    OBVIOUS
  <2>2. Cardinality({}) = 0
    BY EmptyFinite, CountFacts, Zenon
  <2> QED
    BY <2>1, <2>2, EmptyFinite
<1>2. ASSUME NEW T \in SUBSET S, T # {}, \A x \in T : T \ {x} \in Q PROVE T \in Q
  <2>1. PICK x : x \in T
    BY <1>2
  <2> DEFINE R == T \ {x}
  <2>2. IsFiniteSet(R) /\ x \notin R /\ R \cup {x} = T /\ R \in Q
    BY <1>2, <2>1, SubsetFinite
  <2>3. IsFiniteSet(V(R)) /\ Cardinality(V(R)) <= Cardinality(R)
    BY <2>2
  <2>4. Cardinality(T) = Cardinality(R) + 1
    <3> HIDE DEF R
    <3> QED
      BY <2>2, CountAdd
  <2>5. Cardinality(V(R)) \in Nat /\ Cardinality(R) \in Nat
    <3> HIDE DEF V, R
    <3> QED
      BY <2>2, <2>3, CountFacts
  <2>6. CASE \A w \in W : f[w] # x
    <3>1. V(T) = V(R)
      BY <2>6
    <3> HIDE DEF V, R
    <3> QED
      BY <2>3, <2>4, <2>5, <3>1
  <2>7. CASE \E w \in W : f[w] = x
    <3>1. PICK w \in W : f[w] = x
      BY <2>7
    <3>2. V(T) = V(R) \cup {w} /\ w \notin V(R)
      BY <2>1, <3>1
    <3> HIDE DEF V, R
    <3>3. IsFiniteSet(V(T)) /\ Cardinality(V(T)) = Cardinality(V(R)) + 1
      BY <2>3, <3>2, CountAdd
    <3> QED
      BY <2>3, <2>4, <2>5, <3>3
  <2> QED
    BY <2>6, <2>7
<1>3. \A T \in SUBSET S : T \in Q
  <2> HIDE DEF Q
  <2> QED
    BY <1>1, <1>2, FiniteInSet, Zenon
<1>4. V(S) = W
  OBVIOUS
<1> QED
  BY <1>3, <1>4

\* A subset counts no more than the set.
LEMMA CountSubset ==
    ASSUME NEW S, IsFiniteSet(S), NEW T \in SUBSET S
    PROVE  IsFiniteSet(T) /\ Cardinality(T) \in Nat /\ Cardinality(T) <= Cardinality(S)
<1> DEFINE f == [x \in T |-> x]
<1>1. (\A w \in T : f[w] \in S) /\ (\A v, w \in T : f[v] = f[w] => v = w)
  OBVIOUS
<1> HIDE DEF f
<1>2. IsFiniteSet(T) /\ Cardinality(T) <= Cardinality(S)
  BY <1>1, CountInjected, Zenon
<1> QED
  BY <1>2, CountFacts

LEMMA CountInterval ==
    ASSUME NEW n \in Nat PROVE IsFiniteSet(1..n) /\ Cardinality(1..n) = n
<1> DEFINE c == [i \in 1..(n + 1) |-> i]
           d == [i \in 1..n |-> 1]
<1>1. /\ \A i \in 1..(n + 1) : c[i] \in Int /\ c[i] = i
      /\ \A i \in 1..n : d[i] = c[i + 1] - c[i] /\ d[i] = 1
  OBVIOUS
<1>2. IsFiniteSet(1..n)
  BY IntervalFinite
<1> HIDE DEF c, d
<1>3. SumFunctionOnSet(d, 1..n) = c[n + 1] - c[1]
  BY <1>1, SumTelescope
<1>4. Cardinality(1..n) = SumFunctionOnSet(d, 1..n)
  BY <1>1, <1>2, CardinalityIsSum
<1> QED
  BY <1>1, <1>2, <1>3, <1>4
=============================================================================
