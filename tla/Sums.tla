-------------------------------- MODULE Sums --------------------------------
(***************************************************************************)
(* Facts about SumFunctionOnSet, the sum of a function over a finite set,  *)
(* which the balances, the awards and the rebuilt budget are computed      *)
(* with.  The library's facts about folds and its induction principles     *)
(* take operators as parameters; these are proved from least               *)
(* counterexamples.                                                        *)
(***************************************************************************)
EXTENDS Functions, FiniteSetTheorems, WellFoundedInduction, TLAPS

LessThan == OpToRel(<, Nat)

\* A set of natural numbers has a least one.
LEMMA LeastNumber ==
  ASSUME NEW B, B \subseteq Nat, B # {}
  PROVE  \E n \in B : \A m \in B : n <= m
<1>1. IsWellFoundedOn(LessThan, Nat)
  BY NatLessThanWellFounded DEF LessThan
<1>2. PICK n \in B : \A m \in B : ~(<<m, n>> \in LessThan)
  BY <1>1, WFMin
<1>3. ASSUME NEW m \in B PROVE n <= m
  <2>1. n \in Nat /\ m \in Nat /\ ~(<<m, n>> \in LessThan)
    BY <1>2
  <2>2. m < n => <<m, n>> \in LessThan
    BY <2>1 DEF LessThan, OpToRel
  <2>3. QED
    BY <2>1, <2>2
<1>4. QED
  BY <1>3

\* A set of finite sets has a smallest one.
LEMMA SmallestSet ==
  ASSUME NEW B, B # {}, \A s \in B : IsFiniteSet(s)
  PROVE  \E s \in B : \A t \in B : Cardinality(s) <= Cardinality(t)
<1> DEFINE C == {Cardinality(s) : s \in B}
<1>1. C \subseteq Nat
  BY FS_CardinalityType
<1>2. C # {}
  OBVIOUS
<1>3. PICK n \in C : \A m \in C : n <= m
  BY <1>1, <1>2, LeastNumber, Zenon
<1>4. QED
  BY <1>3

Chosen(s) == CHOOSE x \in s : TRUE

\* What the library's recursion says of its function g, for a sum of f over S.
IsSum(g, f, S) ==
  g = [s \in SUBSET S |->
         IF s = {} THEN 0 ELSE f[Chosen(s)] + g[s \ {Chosen(s)}]]

LEMMA SumIsRecursive ==
  ASSUME NEW f, NEW S
  PROVE  SumFunctionOnSet(f, S) = (CHOOSE g : IsSum(g, f, S))[S]
BY DEF SumFunctionOnSet, FoldFunctionOnSet, MapThenFoldSet, IsSum, Chosen

LEMMA ChosenRemoved ==
  ASSUME NEW s, IsFiniteSet(s), s # {}
  PROVE  /\ Chosen(s) \in s
         /\ IsFiniteSet(s \ {Chosen(s)})
         /\ Cardinality(s \ {Chosen(s)}) = Cardinality(s) - 1
         /\ Cardinality(s) \in Nat /\ Cardinality(s) > 0
<1>1. Chosen(s) \in s
  BY DEF Chosen
<1>2. Cardinality(s) \in Nat /\ Cardinality(s) # 0
  BY FS_CardinalityType, FS_EmptySet
<1>3. IsFiniteSet(s \ {Chosen(s)}) /\ Cardinality(s \ {Chosen(s)}) = Cardinality(s) - 1
  BY <1>1, FS_RemoveElement
<1>4. QED
  BY <1>1, <1>2, <1>3

\* The recursion has a solution for the sets of up to n elements, every n.
UpTo(S, n) == {s \in SUBSET S : Cardinality(s) <= n}

IsSumUpTo(g, f, S, n) ==
  g = [s \in UpTo(S, n) |->
         IF s = {} THEN 0 ELSE f[Chosen(s)] + g[s \ {Chosen(s)}]]

LEMMA SumUpToExists ==
  ASSUME NEW f, NEW S, IsFiniteSet(S), NEW n \in Nat
  PROVE  \E g : IsSumUpTo(g, f, S, n)
<1> DEFINE B == {m \in Nat : ~ \E g : IsSumUpTo(g, f, S, m)}
<1> SUFFICES ASSUME B # {} PROVE FALSE
  OBVIOUS
<1>1. PICK m \in B : \A k \in B : m <= k
  BY LeastNumber
<1>2. \A s \in SUBSET S : IsFiniteSet(s)
  BY FS_Subset
<1>3. CASE m = 0
  <2> DEFINE g == [s \in UpTo(S, 0) |-> 0]
  <2>1. \A s \in UpTo(S, 0) : s = {}
    <3> SUFFICES ASSUME NEW s \in SUBSET S, Cardinality(s) <= 0 PROVE s = {}
      BY DEF UpTo
    <3>1. IsFiniteSet(s) /\ Cardinality(s) \in Nat
      BY <1>2, FS_CardinalityType
    <3>2. Cardinality(s) = 0
      BY <3>1
    <3>3. QED
      BY <3>1, <3>2, FS_EmptySet
  <2>2. IsSumUpTo(g, f, S, 0)
    BY <2>1 DEF IsSumUpTo
  <2>3. QED
    BY <1>3, <2>2
<1>4. CASE m # 0
  <2> DEFINE k == m - 1
  <2>1. k \in Nat /\ k < m /\ k + 1 = m
    BY <1>4
  <2>2. PICK g : IsSumUpTo(g, f, S, k)
    BY <1>1, <2>1
  <2> DEFINE h == [s \in UpTo(S, m) |->
                     IF s = {} THEN 0 ELSE f[Chosen(s)] + g[s \ {Chosen(s)}]]
  <2>3. ASSUME NEW s \in UpTo(S, m), s # {}
        PROVE  s \ {Chosen(s)} \in UpTo(S, k)
    <3>1. s \in SUBSET S /\ IsFiniteSet(s) /\ Cardinality(s) <= m
      BY <1>2 DEF UpTo
    <3>2. Cardinality(s \ {Chosen(s)}) <= k
      BY <2>1, <2>3, <3>1, ChosenRemoved
    <3>3. QED
      BY <3>1, <3>2 DEF UpTo
  <2>4. ASSUME NEW t \in UpTo(S, k) PROVE t \in UpTo(S, m) /\ h[t] = g[t]
    <3>1. t \in SUBSET S /\ Cardinality(t) <= k /\ Cardinality(t) \in Nat
      BY <1>2, FS_CardinalityType DEF UpTo
    <3>2. t \in UpTo(S, m)
      BY <2>1, <3>1 DEF UpTo
    <3>3. g[t] = IF t = {} THEN 0 ELSE f[Chosen(t)] + g[t \ {Chosen(t)}]
      BY <2>2, <2>4 DEF IsSumUpTo
    <3>4. QED
      BY <3>2, <3>3
  <2>5. \A s \in UpTo(S, m) : s # {} => h[s \ {Chosen(s)}] = g[s \ {Chosen(s)}]
    BY <2>3, <2>4
  <2>6. h = [s \in UpTo(S, m) |->
               IF s = {} THEN 0 ELSE f[Chosen(s)] + h[s \ {Chosen(s)}]]
    <3> HIDE DEF h, k
    <3> DEFINE i == [s \in UpTo(S, m) |->
                       IF s = {} THEN 0 ELSE f[Chosen(s)] + h[s \ {Chosen(s)}]]
    <3>1. h = [s \in UpTo(S, m) |->
                 IF s = {} THEN 0 ELSE f[Chosen(s)] + g[s \ {Chosen(s)}]]
      BY DEF h
    <3>2. QED
      BY <2>5, <3>1
  <2>7. IsSumUpTo(h, f, S, m)
    BY <2>6, Zenon DEF IsSumUpTo
  <2>8. QED
    BY <2>7
<1>5. QED
  BY <1>3, <1>4

LEMMA SumExists ==
  ASSUME NEW f, NEW S, IsFiniteSet(S)
  PROVE  IsSum(CHOOSE g : IsSum(g, f, S), f, S)
<1> DEFINE n == Cardinality(S)
<1>1. n \in Nat
  BY FS_CardinalityType
<1>2. UpTo(S, n) = SUBSET S
  BY FS_Subset DEF UpTo
<1>3. PICK g : IsSumUpTo(g, f, S, n)
  BY <1>1, SumUpToExists
<1>4. IsSum(g, f, S)
  BY <1>2, <1>3, Zenon DEF IsSum, IsSumUpTo
<1>5. QED
  BY <1>4, Zenon

Agree(f, e, S) == \A x \in S : f[x] = e[x]

\* Two such functions agree wherever both are defined, also if they sum
\* functions that agree.
LEMMA SumsAgree ==
  ASSUME NEW S, NEW T, IsFiniteSet(T), T \in SUBSET S,
         NEW f, NEW g, IsSum(g, f, S), NEW e, NEW h, IsSum(h, e, T),
         Agree(f, e, T)
  PROVE  g[T] = h[T]
<1> DEFINE B == {s \in SUBSET T : g[s] # h[s]}
<1> SUFFICES ASSUME B # {} PROVE FALSE
  OBVIOUS
<1>1. \A s \in B : IsFiniteSet(s)
  BY FS_Subset
<1>2. PICK s \in B : \A t \in B : Cardinality(s) <= Cardinality(t)
  BY <1>1, SmallestSet
<1>3. /\ g[s] = IF s = {} THEN 0 ELSE f[Chosen(s)] + g[s \ {Chosen(s)}]
      /\ h[s] = IF s = {} THEN 0 ELSE e[Chosen(s)] + h[s \ {Chosen(s)}]
  <2>1. s \in SUBSET S /\ s \in SUBSET T
    OBVIOUS
  <2>2. QED
    BY <2>1 DEF IsSum
<1>4. s # {} /\ Chosen(s) \in T
  BY <1>3 DEF Chosen
<1>5. s \ {Chosen(s)} \notin B
  <2>1. IsFiniteSet(s)
    BY <1>1
  <2>2. /\ Cardinality(s \ {Chosen(s)}) = Cardinality(s) - 1
        /\ Cardinality(s) \in Nat
    BY <1>4, <2>1, ChosenRemoved
  <2>3. QED
    BY <1>2, <2>2
<1>6. QED
  BY <1>3, <1>4, <1>5 DEF Agree
-----------------------------------------------------------------------------
LEMMA SumEmpty ==
  ASSUME NEW f
  PROVE  SumFunctionOnSet(f, {}) = 0
<1>1. IsSum(CHOOSE g : IsSum(g, f, {}), f, {})
  BY SumExists, FS_EmptySet
<1> DEFINE g == CHOOSE g : IsSum(g, f, {})
<1>2. SumFunctionOnSet(f, {}) = g[{}]
  BY SumIsRecursive
<1> HIDE DEF g
<1>3. QED
  BY <1>1, <1>2 DEF IsSum, g

\* A sum reads the function on its set only.
LEMMA SumReads ==
  ASSUME NEW f, NEW e, NEW S, IsFiniteSet(S), \A x \in S : f[x] = e[x]
  PROVE  SumFunctionOnSet(f, S) = SumFunctionOnSet(e, S)
<1> DEFINE g == CHOOSE g : IsSum(g, f, S)
           h == CHOOSE h : IsSum(h, e, S)
<1>1. IsSum(g, f, S) /\ IsSum(h, e, S)
  BY SumExists
<1>2. SumFunctionOnSet(f, S) = g[S] /\ SumFunctionOnSet(e, S) = h[S]
  BY SumIsRecursive
<1> HIDE DEF g, h
<1>3. S \in SUBSET S /\ Agree(f, e, S)
  BY DEF Agree
<1>4. g[S] = h[S]
  BY <1>1, <1>3, SumsAgree
<1>5. QED
  BY <1>2, <1>4

LEMMA SumChosen ==
  ASSUME NEW f, NEW S, IsFiniteSet(S), S # {}
  PROVE  SumFunctionOnSet(f, S) =
           f[Chosen(S)] + SumFunctionOnSet(f, S \ {Chosen(S)})
<1> DEFINE R == S \ {Chosen(S)}
           g == CHOOSE g : IsSum(g, f, S)
           h == CHOOSE h : IsSum(h, f, R)
<1>7. R \in SUBSET S
  OBVIOUS
<1>8. Agree(f, f, R)
  BY DEF Agree
<1>1. IsFiniteSet(R)
  BY FS_Subset
<1>2. IsSum(g, f, S) /\ IsSum(h, f, R)
  BY <1>1, SumExists
<1>3. SumFunctionOnSet(f, S) = g[S] /\ SumFunctionOnSet(f, R) = h[R]
  BY SumIsRecursive
<1> HIDE DEF g, h
<1> HIDE DEF R
<1>4. g[R] = h[R]
  BY <1>1, <1>2, <1>7, <1>8, SumsAgree
<1>5. g[S] = f[Chosen(S)] + g[R]
  BY <1>2 DEF IsSum, R
<1>6. QED
  BY <1>3, <1>4, <1>5 DEF R

\* A sum of integers is an integer.
LEMMA SumTyped ==
  ASSUME NEW f, NEW S, IsFiniteSet(S), \A x \in S : f[x] \in Int
  PROVE  SumFunctionOnSet(f, S) \in Int
<1> DEFINE B == {s \in SUBSET S : SumFunctionOnSet(f, s) \notin Int}
<1> SUFFICES ASSUME B # {} PROVE FALSE
  OBVIOUS
<1>1. \A s \in B : IsFiniteSet(s)
  BY FS_Subset
<1>2. PICK s \in B : \A t \in B : Cardinality(s) <= Cardinality(t)
  BY <1>1, SmallestSet
<1>3. s # {}
  BY SumEmpty
<1>4. IsFiniteSet(s)
  BY <1>1
<1> DEFINE t == s \ {Chosen(s)}
<1>5. /\ Chosen(s) \in S /\ Cardinality(t) = Cardinality(s) - 1
      /\ Cardinality(s) \in Nat
  BY <1>3, <1>4, ChosenRemoved
<1>6. t \notin B
  BY <1>2, <1>5
<1>7. SumFunctionOnSet(f, s) = f[Chosen(s)] + SumFunctionOnSet(f, t)
  BY <1>3, <1>4, SumChosen
<1>8. QED
  BY <1>5, <1>6, <1>7

\* Any element may be taken off first.
LEMMA SumRemoves ==
  ASSUME NEW f, NEW S, IsFiniteSet(S), \A x \in S : f[x] \in Int, NEW a \in S
  PROVE  SumFunctionOnSet(f, S) = f[a] + SumFunctionOnSet(f, S \ {a})
<1> DEFINE Sum(s) == SumFunctionOnSet(f, s)
           B == {s \in SUBSET S : \E x \in s : Sum(s) # f[x] + Sum(s \ {x})}
<1> SUFFICES ASSUME B # {} PROVE FALSE
  OBVIOUS
<1>1. \A s \in SUBSET S : IsFiniteSet(s)
  BY FS_Subset
<1>2. PICK s \in B : \A t \in B : Cardinality(s) <= Cardinality(t)
  BY <1>1, SmallestSet
<1>3. PICK x \in s : Sum(s) # f[x] + Sum(s \ {x})
  OBVIOUS
<1> DEFINE c == Chosen(s)
<1>4. /\ c \in s /\ Cardinality(s \ {c}) = Cardinality(s) - 1
      /\ Cardinality(s) \in Nat /\ IsFiniteSet(s)
  BY <1>1, <1>3, ChosenRemoved
<1>5. Sum(s) = f[c] + Sum(s \ {c})
  BY <1>3, <1>4, SumChosen
<1> HIDE DEF c
<1>6. x # c
  BY <1>3, <1>5
<1>7. s \ {c} \notin B
  BY <1>2, <1>4
<1>8. Sum(s \ {c}) = f[x] + Sum((s \ {c}) \ {x})
  BY <1>6, <1>7
<1>9. s \ {x} \notin B
  <2>1. Cardinality(s \ {x}) = Cardinality(s) - 1
    BY <1>4, FS_RemoveElement
  <2>2. ~(Cardinality(s) <= Cardinality(s \ {x}))
    BY <1>4, <2>1
  <2>3. QED
    BY <1>2, <2>2
<1>10. Sum(s \ {x}) = f[c] + Sum((s \ {x}) \ {c})
  BY <1>4, <1>6, <1>9
<1>11. (s \ {x}) \ {c} = (s \ {c}) \ {x}
  OBVIOUS
<1>12. Sum((s \ {c}) \ {x}) \in Int
  BY <1>1, SumTyped
<1>13. f[x] \in Int /\ f[c] \in Int
  BY <1>4
<1>14. Sum(s \ {x}) = f[c] + Sum((s \ {c}) \ {x})
  BY <1>10, <1>11
<1> DEFINE all == Sum(s)
           notc == Sum(s \ {c})
           notx == Sum(s \ {x})
           rest == Sum((s \ {c}) \ {x})
           fx == f[x]
           fc == f[c]
<1>15. /\ all # fx + notx /\ all = fc + notc /\ notc = fx + rest
       /\ notx = fc + rest /\ rest \in Int /\ fx \in Int /\ fc \in Int
  BY <1>3, <1>5, <1>8, <1>12, <1>13, <1>14
<1> HIDE DEF all, notc, notx, rest, fx, fc
<1>16. QED
  BY <1>15

LEMMA SumAdds ==
  ASSUME NEW f, NEW S, IsFiniteSet(S), NEW a, a \notin S,
         \A x \in S \cup {a} : f[x] \in Int
  PROVE  SumFunctionOnSet(f, S \cup {a}) = SumFunctionOnSet(f, S) + f[a]
<1>1. IsFiniteSet(S \cup {a}) /\ (S \cup {a}) \ {a} = S
  BY FS_AddElement
<1>2. SumFunctionOnSet(f, S) \in Int
  BY SumTyped
<1>3. SumFunctionOnSet(f, S \cup {a}) = f[a] + SumFunctionOnSet(f, S)
  BY <1>1, SumRemoves
<1>4. QED
  BY <1>2, <1>3

\* A sum of natural numbers is one, and not less than one of them.
LEMMA SumNatural ==
  ASSUME NEW f, NEW S, IsFiniteSet(S), \A x \in S : f[x] \in Nat
  PROVE  /\ SumFunctionOnSet(f, S) \in Nat
         /\ \A x \in S : f[x] <= SumFunctionOnSet(f, S)
<1> DEFINE B == {s \in SUBSET S : SumFunctionOnSet(f, s) \notin Nat}
<1>1. B = {}
  <2> SUFFICES ASSUME B # {} PROVE FALSE
    OBVIOUS
  <2>1. \A s \in B : IsFiniteSet(s)
    BY FS_Subset
  <2>2. PICK s \in B : \A t \in B : Cardinality(s) <= Cardinality(t)
    BY <2>1, SmallestSet
  <2>3. s # {} /\ IsFiniteSet(s)
    BY <2>1, SumEmpty
  <2> DEFINE t == s \ {Chosen(s)}
  <2>4. /\ Chosen(s) \in S /\ Cardinality(t) = Cardinality(s) - 1
        /\ Cardinality(s) \in Nat
    BY <2>3, ChosenRemoved
  <2>5. t \notin B
    BY <2>2, <2>4
  <2>6. SumFunctionOnSet(f, s) = f[Chosen(s)] + SumFunctionOnSet(f, t)
    BY <2>3, SumChosen
  <2>7. QED
    BY <2>4, <2>5, <2>6
<1>2. ASSUME NEW x \in S PROVE f[x] <= SumFunctionOnSet(f, S)
  <2>1. SumFunctionOnSet(f, S) = f[x] + SumFunctionOnSet(f, S \ {x})
    BY SumRemoves
  <2>2. SumFunctionOnSet(f, S \ {x}) \in Nat
    BY <1>1
  <2>3. QED
    BY <2>1, <2>2
<1>3. QED
  BY <1>1, <1>2

\* A sum of zeros is zero.
LEMMA SumZero ==
  ASSUME NEW f, NEW S, IsFiniteSet(S), \A x \in S : f[x] = 0
  PROVE  SumFunctionOnSet(f, S) = 0
<1> DEFINE B == {s \in SUBSET S : SumFunctionOnSet(f, s) # 0}
<1> SUFFICES ASSUME B # {} PROVE FALSE
  OBVIOUS
<1>1. \A s \in B : IsFiniteSet(s)
  BY FS_Subset
<1>2. PICK s \in B : \A t \in B : Cardinality(s) <= Cardinality(t)
  BY <1>1, SmallestSet
<1>3. s # {} /\ IsFiniteSet(s)
  BY <1>1, SumEmpty
<1> DEFINE t == s \ {Chosen(s)}
<1>4. /\ Chosen(s) \in S /\ Cardinality(t) = Cardinality(s) - 1
      /\ Cardinality(s) \in Nat
  BY <1>3, ChosenRemoved
<1>5. t \notin B
  BY <1>2, <1>4
<1>6. SumFunctionOnSet(f, s) = f[Chosen(s)] + SumFunctionOnSet(f, t)
  BY <1>3, SumChosen
<1>7. QED
  BY <1>4, <1>5, <1>6
=============================================================================
