--------------------------------- MODULE Sums ---------------------------------
(***************************************************************************)
(* Sums of a function's values over a finite set, SumFunctionOnSet: the    *)
(* exposure of a set of tickers, the lots of a set of orders.              *)
(*                                                                         *)
(* The facts follow by induction over the set.  Its form here is that a    *)
(* set of finite sets that is not empty has a member with the fewest       *)
(* elements: the smallest counterexample, where there is one.              *)
(***************************************************************************)
EXTENDS FiniteSetsExt, Functions, FiniteSetTheorems, WellFoundedInduction, TLAPS

LEMMA SmallestNumber ==
    ASSUME NEW T, T \subseteq Nat, T # {}
    PROVE  \E n \in T : \A m \in T : n <= m
    <1> DEFINE R == OpToRel(<, Nat)
    <1>1. IsWellFoundedOn(R, Nat)
        BY NatLessThanWellFounded
    <1>2. \A x, y \in Nat : <<x, y>> \in R <=> x < y
        BY DEF OpToRel
    <1> HIDE DEF R
    <1>3. PICK x \in T : \A y \in T : ~(<<y, x>> \in R)
        BY <1>1, WFMin
    <1>4. ASSUME NEW y \in T
          PROVE  x <= y
        <2>1. x \in Nat /\ y \in Nat
            OBVIOUS
        <2>2. ~(y < x)
            BY <1>2, <1>3, <2>1
        <2> QED
            BY <2>1, <2>2
    <1> QED
        BY <1>4

\* Induction over finite sets.
LEMMA SmallestSet ==
    ASSUME NEW F, F # {}, \A s \in F : IsFiniteSet(s)
    PROVE  \E s \in F : \A u \in F : Cardinality(s) <= Cardinality(u)
    <1> DEFINE sizes == {Cardinality(s) : s \in F}
    <1>1. sizes \subseteq Nat /\ sizes # {}
        BY FS_CardinalityType
    <1>2. PICK n \in sizes : \A m \in sizes : n <= m
        BY <1>1, SmallestNumber
    <1>3. PICK s \in F : n = Cardinality(s)
        OBVIOUS
    <1> QED
        BY <1>2, <1>3

\* One element less.
LEMMA Smaller ==
    ASSUME NEW s, IsFiniteSet(s), NEW x \in s
    PROVE  /\ IsFiniteSet(s \ {x})
           /\ Cardinality(s \ {x}) \in Nat /\ Cardinality(s) \in Nat
           /\ Cardinality(s \ {x}) = Cardinality(s) - 1
           /\ Cardinality(s \ {x}) < Cardinality(s)
    <1>1. IsFiniteSet(s \ {x}) /\ Cardinality(s \ {x}) = Cardinality(s) - 1
        BY FS_RemoveElement
    <1>2. Cardinality(s \ {x}) \in Nat /\ Cardinality(s) \in Nat
        BY <1>1, FS_CardinalityType
    <1> QED
        BY <1>1, <1>2

-----------------------------------------------------------------------------
(***************************************************************************)
(* The recursive function that the sum over S is defined with, and that    *)
(* there is one: it is built up by the number of elements.                 *)
(***************************************************************************)
Pick(s) == CHOOSE x \in s : TRUE

Step(f, g, s) == IF s = {} THEN 0 ELSE f[Pick(s)] + g[s \ {Pick(s)}]

Iter(f, S) == CHOOSE g : g = [s \in SUBSET S |-> Step(f, g, s)]

UpTo(S, n) == {s \in SUBSET S : Cardinality(s) <= n}

LEMMA PickIn == ASSUME NEW s, s # {} PROVE Pick(s) \in s
    BY DEF Pick

LEMMA SumIsIter == ASSUME NEW f, NEW S PROVE SumFunctionOnSet(f, S) = Iter(f, S)[S]
    BY DEF SumFunctionOnSet, FoldFunctionOnSet, MapThenFoldSet, Iter, Pick, Step

LEMMA IterUpTo ==
    ASSUME NEW f, NEW S, IsFiniteSet(S)
    PROVE  \A n \in Nat : \E g : g = [s \in UpTo(S, n) |-> Step(f, g, s)]
    <1> DEFINE bad == {n \in Nat : ~ \E g : g = [s \in UpTo(S, n) |-> Step(f, g, s)]}
    <1>1. SUFFICES ASSUME bad # {} PROVE FALSE
        OBVIOUS
    <1>2. PICK n \in bad : \A m \in bad : n <= m
        BY <1>1, SmallestNumber
    <1>3. \A s \in SUBSET S : IsFiniteSet(s)
        BY FS_Subset
    <1>4. n # 0
        <2>1. SUFFICES ASSUME n = 0 PROVE FALSE
            OBVIOUS
        <2> DEFINE g == [s \in UpTo(S, n) |-> 0]
        <2>2. \A s \in UpTo(S, n) : s = {}
            BY <1>3, <2>1, FS_EmptySet, FS_CardinalityType DEF UpTo
        <2>3. g = [s \in UpTo(S, n) |-> Step(f, g, s)]
            BY <2>2 DEF Step
        <2> QED
            BY <2>3
    <1>5. n - 1 \in Nat /\ n - 1 \notin bad
        BY <1>2, <1>4
    <1>6. PICK g : g = [s \in UpTo(S, n - 1) |-> Step(f, g, s)]
        BY <1>5
    <1> DEFINE h == [s \in UpTo(S, n) |-> Step(f, g, s)]
    <1>7. ASSUME NEW s \in UpTo(S, n)
          PROVE  Step(f, g, s) = Step(f, h, s)
        <2>1. CASE s = {}
            BY <2>1 DEF Step
        <2>2. CASE s # {}
            <3> DEFINE r == s \ {Pick(s)}
            <3>1. s \in SUBSET S /\ Pick(s) \in s /\ Cardinality(s) <= n
                BY <2>2, PickIn DEF UpTo
            <3>2. r \in SUBSET S /\ Cardinality(r) <= n - 1 /\ Cardinality(r) <= n
                BY <1>3, <3>1, Smaller
            <3>3. r \in UpTo(S, n - 1) /\ r \in UpTo(S, n)
                BY <3>2 DEF UpTo
            <3>4. g[r] = Step(f, g, r)
                BY <1>6, <3>3
            <3>5. h[r] = Step(f, g, r)
                BY <3>3
            <3> HIDE DEF h
            <3> QED
                BY <2>2, <3>4, <3>5 DEF Step
        <2> QED
            BY <2>1, <2>2
    <1>8. h = [s \in UpTo(S, n) |-> Step(f, h, s)]
        <2> DEFINE k == [s \in UpTo(S, n) |-> Step(f, h, s)]
        <2> HIDE DEF h
        <2> QED
            BY <1>7 DEF h
    <1> QED
        BY <1>8

LEMMA IterIs ==
    ASSUME NEW f, NEW S, IsFiniteSet(S), NEW s \in SUBSET S
    PROVE  Iter(f, S)[s] = Step(f, Iter(f, S), s)
    <1> DEFINE n == Cardinality(S)
    <1>1. n \in Nat
        BY FS_CardinalityType
    <1>2. UpTo(S, n) = SUBSET S
        BY FS_Subset DEF UpTo
    <1> HIDE DEF n
    <1>3. PICK g : g = [u \in UpTo(S, n) |-> Step(f, g, u)]
        BY <1>1, IterUpTo
    <1>4. g = [u \in SUBSET S |-> Step(f, g, u)]
        BY <1>2, <1>3
    <1>5. Iter(f, S) = [u \in SUBSET S |-> Step(f, Iter(f, S), u)]
        BY <1>4 DEF Iter
    <1> QED
        BY <1>5

LEMMA IterOfSubset ==
    ASSUME NEW f, NEW S, IsFiniteSet(S), NEW s \in SUBSET S
    PROVE  Iter(f, S)[s] = Iter(f, s)[s]
    <1> DEFINE bad == {u \in SUBSET S : \E U \in SUBSET S : u \subseteq U /\ Iter(f, U)[u] # Iter(f, u)[u]}
    <1>1. SUFFICES ASSUME bad # {} PROVE FALSE
        OBVIOUS
    <1>2. \A u \in SUBSET S : IsFiniteSet(u)
        BY FS_Subset
    <1>3. PICK u \in bad : \A v \in bad : Cardinality(u) <= Cardinality(v)
        <2>1. \A v \in bad : IsFiniteSet(v)
            BY <1>2
        <2> QED
            BY <1>1, <2>1, SmallestSet
    <1>4. PICK U \in SUBSET S : u \subseteq U /\ Iter(f, U)[u] # Iter(f, u)[u]
        OBVIOUS
    <1>5. /\ Iter(f, U)[u] = Step(f, Iter(f, U), u)
          /\ Iter(f, u)[u] = Step(f, Iter(f, u), u)
        BY <1>2, <1>4, IterIs
    <1>6. u # {}
        BY <1>4, <1>5 DEF Step
    <1> DEFINE r == u \ {Pick(u)}
    <1>7. Pick(u) \in u
        BY <1>6, PickIn
    <1>8. r \in SUBSET S /\ r \notin bad
        <2>1. Cardinality(r) < Cardinality(u) /\ Cardinality(r) \in Nat /\ Cardinality(u) \in Nat
            BY <1>2, <1>7, Smaller
        <2>2. ~(Cardinality(u) <= Cardinality(r))
            BY <2>1
        <2> QED
            BY <1>3, <2>2
    <1>9. Iter(f, U)[r] = Iter(f, r)[r] /\ Iter(f, u)[r] = Iter(f, r)[r]
        BY <1>4, <1>8
    <1> QED
        BY <1>4, <1>5, <1>6, <1>9 DEF Step

-----------------------------------------------------------------------------
(***************************************************************************)
(* What a sum is.                                                          *)
(***************************************************************************)
LEMMA SumEmpty == ASSUME NEW f PROVE SumFunctionOnSet(f, {}) = 0
    <1>1. IsFiniteSet({})
        BY FS_EmptySet
    <1> QED
        BY <1>1, SumIsIter, IterIs DEF Step

LEMMA SumPick ==
    ASSUME NEW f, NEW S, IsFiniteSet(S), S # {}
    PROVE  SumFunctionOnSet(f, S) = f[Pick(S)] + SumFunctionOnSet(f, S \ {Pick(S)})
    <1>1. Iter(f, S)[S] = f[Pick(S)] + Iter(f, S)[S \ {Pick(S)}]
        BY IterIs DEF Step
    <1>2. Iter(f, S)[S \ {Pick(S)}] = Iter(f, S \ {Pick(S)})[S \ {Pick(S)}]
        BY IterOfSubset
    <1> QED
        BY <1>1, <1>2, SumIsIter

LEMMA SumInt ==
    ASSUME NEW f, NEW S, IsFiniteSet(S), \A x \in S : f[x] \in Int
    PROVE  SumFunctionOnSet(f, S) \in Int
    <1> DEFINE bad == {s \in SUBSET S : SumFunctionOnSet(f, s) \notin Int}
    <1>1. SUFFICES ASSUME bad # {} PROVE FALSE
        OBVIOUS
    <1>2. \A s \in SUBSET S : IsFiniteSet(s)
        BY FS_Subset
    <1>3. PICK s \in bad : \A u \in bad : Cardinality(s) <= Cardinality(u)
        <2>1. \A u \in bad : IsFiniteSet(u)
            BY <1>2
        <2> QED
            BY <1>1, <2>1, SmallestSet
    <1>4. s # {}
        BY SumEmpty
    <1>5. Pick(s) \in s
        BY <1>4, PickIn
    <1>6. s \ {Pick(s)} \notin bad
        <2>1. Cardinality(s \ {Pick(s)}) < Cardinality(s) /\ Cardinality(s \ {Pick(s)}) \in Nat
              /\ Cardinality(s) \in Nat
            BY <1>2, <1>5, Smaller
        <2> QED
            BY <1>3, <2>1
    <1>7. SumFunctionOnSet(f, s) = f[Pick(s)] + SumFunctionOnSet(f, s \ {Pick(s)})
        BY <1>2, <1>4, SumPick
    <1> QED
        BY <1>5, <1>6, <1>7

(* A sum is one of its terms and the rest of it, whichever that is: the    *)
(* order of adding does not matter.                                        *)
LEMMA SumRemove ==
    ASSUME NEW f, NEW S, IsFiniteSet(S), \A x \in S : f[x] \in Int, NEW a \in S
    PROVE  SumFunctionOnSet(f, S) = f[a] + SumFunctionOnSet(f, S \ {a})
    <1> DEFINE Off(s, x) == SumFunctionOnSet(f, s) # f[x] + SumFunctionOnSet(f, s \ {x})
               bad == {s \in SUBSET S : \E x \in s : Off(s, x)}
    <1>1. SUFFICES ASSUME bad # {} PROVE FALSE
        OBVIOUS
    <1>2. \A s \in SUBSET S : IsFiniteSet(s) /\ SumFunctionOnSet(f, s) \in Int
        BY FS_Subset, SumInt
    <1>3. PICK s \in bad : \A u \in bad : Cardinality(s) <= Cardinality(u)
        <2>1. \A u \in bad : IsFiniteSet(u)
            BY <1>2
        <2> QED
            BY <1>1, <2>1, SmallestSet
    <1>4. PICK x \in s : Off(s, x)
        OBVIOUS
    <1> DEFINE p == Pick(s)
    <1>5. p \in s /\ SumFunctionOnSet(f, s) = f[p] + SumFunctionOnSet(f, s \ {p})
        BY <1>2, PickIn, SumPick
    <1>6. p # x
        BY <1>4, <1>5
    <1>7. \A y \in s : s \ {y} \in SUBSET S /\ s \ {y} \notin bad
        <2>1. SUFFICES ASSUME NEW y \in s PROVE s \ {y} \notin bad
            OBVIOUS
        <2>2. Cardinality(s \ {y}) < Cardinality(s) /\ Cardinality(s \ {y}) \in Nat
              /\ Cardinality(s) \in Nat
            BY <1>2, Smaller
        <2> QED
            BY <1>3, <2>2
    <1>8. SumFunctionOnSet(f, s \ {p}) = f[x] + SumFunctionOnSet(f, (s \ {p}) \ {x})
        BY <1>4, <1>5, <1>6, <1>7
    <1>9. SumFunctionOnSet(f, s \ {x}) = f[p] + SumFunctionOnSet(f, (s \ {x}) \ {p})
        BY <1>4, <1>5, <1>6, <1>7
    <1>10. (s \ {p}) \ {x} = (s \ {x}) \ {p} /\ (s \ {p}) \ {x} \in SUBSET S
        OBVIOUS
    <1>11. f[p] \in Int /\ f[x] \in Int /\ SumFunctionOnSet(f, (s \ {p}) \ {x}) \in Int
        BY <1>2, <1>5, <1>10
    <1>12. SumFunctionOnSet(f, s \ {x}) = f[p] + SumFunctionOnSet(f, (s \ {p}) \ {x})
        BY <1>9, <1>10
    <1>13. SumFunctionOnSet(f, s) # f[x] + SumFunctionOnSet(f, s \ {x})
        BY <1>4
    <1> HIDE DEF p, Off, bad
    <1> QED
        BY <1>5, <1>8, <1>11, <1>12, <1>13

LEMMA SumAdd ==
    ASSUME NEW f, NEW S, IsFiniteSet(S), \A x \in S : f[x] \in Int,
           NEW a, a \notin S, f[a] \in Int
    PROVE  SumFunctionOnSet(f, S \cup {a}) = f[a] + SumFunctionOnSet(f, S)
    <1>1. IsFiniteSet(S \cup {a})
        BY FS_AddElement
    <1>2. (S \cup {a}) \ {a} = S
        OBVIOUS
    <1> QED
        BY <1>1, <1>2, SumRemove

(* Terms no greater make a sum no greater, the same terms the same sum.    *)
LEMMA SumMonotonic ==
    ASSUME NEW f, NEW g, NEW S, IsFiniteSet(S),
           \A x \in S : f[x] \in Int /\ g[x] \in Int /\ f[x] <= g[x]
    PROVE  SumFunctionOnSet(f, S) <= SumFunctionOnSet(g, S)
    <1> DEFINE bad == {s \in SUBSET S : ~(SumFunctionOnSet(f, s) <= SumFunctionOnSet(g, s))}
    <1>1. SUFFICES ASSUME bad # {} PROVE FALSE
        OBVIOUS
    <1>2. \A s \in SUBSET S : IsFiniteSet(s) /\ SumFunctionOnSet(f, s) \in Int
                              /\ SumFunctionOnSet(g, s) \in Int
        BY FS_Subset, SumInt
    <1>3. PICK s \in bad : \A u \in bad : Cardinality(s) <= Cardinality(u)
        <2>1. \A u \in bad : IsFiniteSet(u)
            BY <1>2
        <2> QED
            BY <1>1, <2>1, SmallestSet
    <1>4. s # {}
        BY SumEmpty
    <1>5. PICK x : x \in s
        BY <1>4
    <1>6. s \ {x} \in SUBSET S /\ s \ {x} \notin bad
        <2>1. Cardinality(s \ {x}) < Cardinality(s) /\ Cardinality(s \ {x}) \in Nat
              /\ Cardinality(s) \in Nat
            BY <1>2, <1>5, Smaller
        <2> QED
            BY <1>3, <2>1
    <1>7. /\ SumFunctionOnSet(f, s) = f[x] + SumFunctionOnSet(f, s \ {x})
          /\ SumFunctionOnSet(g, s) = g[x] + SumFunctionOnSet(g, s \ {x})
        BY <1>2, <1>5, SumRemove
    <1>8. f[x] \in Int /\ g[x] \in Int /\ f[x] <= g[x]
        BY <1>5
    <1>9. /\ SumFunctionOnSet(f, s \ {x}) \in Int /\ SumFunctionOnSet(g, s \ {x}) \in Int
          /\ SumFunctionOnSet(f, s \ {x}) <= SumFunctionOnSet(g, s \ {x})
        BY <1>2, <1>6
    <1>10. ~(SumFunctionOnSet(f, s) <= SumFunctionOnSet(g, s))
        OBVIOUS
    <1> QED
        BY <1>7, <1>8, <1>9, <1>10

LEMMA SumSame ==
    ASSUME NEW f, NEW g, NEW S, IsFiniteSet(S),
           \A x \in S : f[x] \in Int /\ g[x] = f[x]
    PROVE  SumFunctionOnSet(f, S) = SumFunctionOnSet(g, S)
    <1>1. SumFunctionOnSet(f, S) <= SumFunctionOnSet(g, S)
        BY SumMonotonic
    <1>2. SumFunctionOnSet(g, S) <= SumFunctionOnSet(f, S)
        BY SumMonotonic
    <1>3. SumFunctionOnSet(f, S) \in Int /\ SumFunctionOnSet(g, S) \in Int
        BY SumInt
    <1> QED
        BY <1>1, <1>2, <1>3

\* The sum of two functions is the two sums together.
LEMMA SumPlus ==
    ASSUME NEW f, NEW g, NEW h, NEW S, IsFiniteSet(S),
           \A x \in S : f[x] \in Int /\ g[x] \in Int /\ h[x] = f[x] + g[x]
    PROVE  SumFunctionOnSet(h, S) = SumFunctionOnSet(f, S) + SumFunctionOnSet(g, S)
    <1> DEFINE Off(s) == SumFunctionOnSet(h, s) # SumFunctionOnSet(f, s) + SumFunctionOnSet(g, s)
               bad == {s \in SUBSET S : Off(s)}
    <1>1. SUFFICES ASSUME bad # {} PROVE FALSE
        OBVIOUS
    <1>2. \A s \in SUBSET S : IsFiniteSet(s) /\ SumFunctionOnSet(f, s) \in Int
                              /\ SumFunctionOnSet(g, s) \in Int
        BY FS_Subset, SumInt
    <1>3. PICK s \in bad : \A u \in bad : Cardinality(s) <= Cardinality(u)
        <2>1. \A u \in bad : IsFiniteSet(u)
            BY <1>2
        <2> QED
            BY <1>1, <2>1, SmallestSet
    <1>4. s \in SUBSET S /\ Off(s)
        OBVIOUS
    <1>5. s # {}
        <2>1. ~Off({})
            BY SumEmpty
        <2> QED
            BY <1>4, <2>1
    <1>6. PICK x : x \in s
        BY <1>5
    <1> DEFINE r == s \ {x}
    <1>7. r \in SUBSET S /\ r \notin bad
        <2>1. Cardinality(r) < Cardinality(s) /\ Cardinality(r) \in Nat
              /\ Cardinality(s) \in Nat
            BY <1>2, <1>4, <1>6, Smaller
        <2> QED
            BY <1>3, <1>4, <2>1
    <1>8. /\ f[x] \in Int /\ g[x] \in Int /\ h[x] = f[x] + g[x]
          /\ SumFunctionOnSet(f, r) \in Int /\ SumFunctionOnSet(g, r) \in Int
          /\ SumFunctionOnSet(h, r) = SumFunctionOnSet(f, r) + SumFunctionOnSet(g, r)
        BY <1>2, <1>4, <1>6, <1>7
    <1>9. /\ SumFunctionOnSet(f, s) = f[x] + SumFunctionOnSet(f, r)
          /\ SumFunctionOnSet(g, s) = g[x] + SumFunctionOnSet(g, r)
          /\ SumFunctionOnSet(h, s) = h[x] + SumFunctionOnSet(h, r)
        <2>1. \A y \in s : f[y] \in Int /\ g[y] \in Int /\ h[y] \in Int
            BY <1>4
        <2> QED
            BY <1>2, <1>4, <1>6, <2>1, SumRemove
    <1>10. SumFunctionOnSet(h, s) # SumFunctionOnSet(f, s) + SumFunctionOnSet(g, s)
        BY <1>4
    <1> HIDE DEF r, bad, Off
    <1> QED
        BY <1>8, <1>9, <1>10

(* One term changes, and the sum by as much.                               *)
LEMMA SumChange ==
    ASSUME NEW f, NEW g, NEW S, IsFiniteSet(S), NEW a \in S,
           \A x \in S : f[x] \in Int /\ g[x] \in Int,
           \A x \in S \ {a} : g[x] = f[x]
    PROVE  SumFunctionOnSet(g, S) = SumFunctionOnSet(f, S) + (g[a] - f[a])
    <1>1. IsFiniteSet(S \ {a})
        BY FS_RemoveElement
    <1>2. SumFunctionOnSet(f, S \ {a}) = SumFunctionOnSet(g, S \ {a})
        BY <1>1, SumSame
    <1>3. /\ SumFunctionOnSet(f, S) = f[a] + SumFunctionOnSet(f, S \ {a})
          /\ SumFunctionOnSet(g, S) = g[a] + SumFunctionOnSet(g, S \ {a})
        BY SumRemove
    <1>4. SumFunctionOnSet(f, S \ {a}) \in Int
        BY <1>1, SumInt
    <1> QED
        BY <1>2, <1>3, <1>4
===============================================================================
