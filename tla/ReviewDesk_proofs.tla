--------------------------- MODULE ReviewDesk_proofs ---------------------------
(***************************************************************************)
(* What is true of every document on the desk, whatever its size: an       *)
(* accepted registry gives an alert one team; the acceptance check accepts *)
(* exactly the runs that agree with what its manifest lists; and no        *)
(* verdict is attached to an alert it was not given for.  What pages tell  *)
(* is in PortalPages_proofs.                                               *)
(***************************************************************************)
EXTENDS ReviewDesk, TLAPS, FiniteSetTheorems, SequenceTheorems, WellFoundedInduction

LEMMA SmallerPart ==
    ASSUME NEW S, IsFiniteSet(S), NEW T, T \subseteq S, T # S
    PROVE  Cardinality(T) < Cardinality(S)
<1>1. T \in SUBSET S
    OBVIOUS
<1>2. IsFiniteSet(T) /\ Cardinality(T) <= Cardinality(S) /\ Cardinality(S) # Cardinality(T)
    BY <1>1, FS_Subset
<1>3. Cardinality(T) \in Nat /\ Cardinality(S) \in Nat
    BY <1>2, FS_CardinalityType
<1> QED
    BY <1>2, <1>3

LEMMA ImageIsFinite ==
    ASSUME NEW S, IsFiniteSet(S), NEW f
    PROVE  IsFiniteSet({f[x] : x \in S})
<1> DEFINE g == [x \in S |-> f[x]]
           T == {f[x] : x \in S}
<1>1. g \in Surjection(S, T)
    BY DEF Surjection
<1> HIDE DEF g, T
<1>2. IsFiniteSet(T)
    BY <1>1, FS_Surjection
<1> QED
    BY <1>2 DEF T

-------------------------------------------------------------------------------
(* A finite set in order: SortedBy of Orders.                              *)

IsOrder(R, S) ==
    /\ \A x \in S : <<x, x>> \notin R
    /\ \A x, y \in S : x = y \/ <<x, y>> \in R \/ <<y, x>> \in R
    /\ \A x, y, z \in S : <<x, y>> \in R /\ <<y, z>> \in R => <<x, z>> \in R

Rank(R, S, x) == Cardinality({y \in S : <<y, x>> \in R})

\* What SortedBy makes of S and the order: who has k - 1 before it comes k-th.
IsArranged(pos, R, S) ==
    /\ DOMAIN pos = 1 .. Cardinality(S)
    /\ \A k \in DOMAIN pos :
           (\E x \in S : Rank(R, S, x) = k - 1) => pos[k] \in S /\ Rank(R, S, pos[k]) = k - 1

LEMMA RanksGrow ==
    ASSUME NEW S, IsFiniteSet(S), NEW R, IsOrder(R, S)
    PROVE  /\ \A x \in S : Rank(R, S, x) \in Nat /\ Rank(R, S, x) < Cardinality(S)
           /\ \A x, z \in S : <<x, z>> \in R => Rank(R, S, x) < Rank(R, S, z)
           /\ \A x, z \in S : Rank(R, S, x) = Rank(R, S, z) => x = z
<1> DEFINE U(x) == {y \in S : <<y, x>> \in R}
<1>1. \A x : IsFiniteSet(U(x)) /\ Cardinality(U(x)) \in Nat /\ U(x) \subseteq S
    BY FS_Subset, FS_CardinalityType
<1>2. ASSUME NEW x \in S PROVE Rank(R, S, x) \in Nat /\ Rank(R, S, x) < Cardinality(S)
    <2>1. x \notin U(x)
        BY DEF IsOrder
    <2> HIDE DEF U
    <2>2. U(x) \subseteq S /\ U(x) # S
        BY <1>1, <1>2, <2>1
    <2>3. Cardinality(U(x)) < Cardinality(S)
        BY <2>2, SmallerPart
    <2> QED
        BY <1>1, <2>3 DEF Rank, U
<1>3. ASSUME NEW x \in S, NEW z \in S, <<x, z>> \in R PROVE Rank(R, S, x) < Rank(R, S, z)
    <2>1. U(x) \subseteq U(z)
        BY <1>3 DEF IsOrder
    <2>2. x \in U(z) /\ x \notin U(x)
        BY <1>3 DEF IsOrder
    <2> HIDE DEF U
    <2>3. U(x) # U(z) /\ IsFiniteSet(U(z))
        BY <1>1, <2>2
    <2>4. Cardinality(U(x)) < Cardinality(U(z))
        BY <2>1, <2>3, SmallerPart
    <2> QED
        BY <2>4 DEF Rank, U
<1>4. ASSUME NEW x \in S, NEW z \in S, Rank(R, S, x) = Rank(R, S, z), x # z PROVE FALSE
    <2>1. <<x, z>> \in R \/ <<z, x>> \in R
        BY <1>4 DEF IsOrder
    <2>2. Rank(R, S, x) < Rank(R, S, z) \/ Rank(R, S, z) < Rank(R, S, x)
        BY <1>3, <2>1
    <2>3. Rank(R, S, x) \in Nat /\ Rank(R, S, z) \in Nat
        BY <1>2
    <2> QED
        BY <1>4, <2>2, <2>3
<1> QED
    BY <1>2, <1>3, <1>4

LEMMA RanksAreAll ==
    ASSUME NEW S, IsFiniteSet(S), NEW R, IsOrder(R, S), NEW n, n = Cardinality(S), NEW k \in 1 .. n
    PROVE  \E x \in S : Rank(R, S, x) = k - 1
<1> DEFINE rank == [x \in S |-> Rank(R, S, x)]
           g == [x \in S |-> rank[x] + 1]
<1>1. n \in Nat
    BY FS_CardinalityType
<1>2. /\ \A x \in S : rank[x] \in Nat /\ rank[x] < n
      /\ \A x, z \in S : rank[x] = rank[z] => x = z
    BY RanksGrow
<1>3. g \in Injection(S, 1 .. n)
    <2> HIDE DEF rank
    <2>1. \A x \in S : g[x] \in 1 .. n
        BY <1>1, <1>2
    <2>2. \A x, z \in S : g[x] = g[z] => x = z
        BY <1>2
    <2> QED
        BY <2>1, <2>2 DEF Injection, IsInjective
<1>4. IsFiniteSet(1 .. n) /\ Cardinality(1 .. n) = n
    BY <1>1, FS_Interval
<1> HIDE DEF g
<1>5. g \in Surjection(S, 1 .. n)
    BY <1>3, <1>4, FS_Injection
<1>6. PICK x \in S : g[x] = k
    BY <1>5 DEF Surjection
<1>7. rank[x] + 1 = k
    BY <1>6 DEF g
<1> HIDE DEF rank
<1>8. rank[x] = k - 1
    BY <1>1, <1>2, <1>7
<1> QED
    BY <1>8 DEF rank

LEMMA Arranged ==
    ASSUME NEW S, IsFiniteSet(S), NEW R, IsOrder(R, S), NEW n, n = Cardinality(S),
           NEW pos, IsArranged(pos, R, S)
    PROVE  /\ n \in Nat /\ DOMAIN pos = 1 .. n
           /\ \A k \in 1 .. n : pos[k] \in S /\ Rank(R, S, pos[k]) = k - 1
           /\ \A j, k \in 1 .. n : pos[j] = pos[k] => j = k
           /\ \A x \in S : \E k \in 1 .. n : pos[k] = x
           /\ \A j, k \in 1 .. n : j < k => <<pos[j], pos[k]>> \in R
<1>1. n \in Nat
    BY FS_CardinalityType
<1>2. DOMAIN pos = 1 .. n
    BY DEF IsArranged
<1>3. \A k \in 1 .. n : pos[k] \in S /\ Rank(R, S, pos[k]) = k - 1
    BY <1>2, RanksAreAll DEF IsArranged
<1>4. \A j, k \in 1 .. n : pos[j] = pos[k] => j = k
    BY <1>1, <1>3
<1>5. /\ \A x \in S : Rank(R, S, x) \in Nat /\ Rank(R, S, x) < n
      /\ \A x, z \in S : Rank(R, S, x) = Rank(R, S, z) => x = z
      /\ \A x, z \in S : <<x, z>> \in R => Rank(R, S, x) < Rank(R, S, z)
    BY RanksGrow
<1>6. ASSUME NEW x \in S PROVE \E k \in 1 .. n : pos[k] = x
    <2>1. PICK r : r = Rank(R, S, x)
        OBVIOUS
    <2>2. r + 1 \in 1 .. n /\ (r + 1) - 1 = r
        BY <1>1, <1>5, <2>1
    <2>3. pos[r + 1] \in S /\ Rank(R, S, pos[r + 1]) = r
        BY <1>3, <2>2
    <2> QED
        BY <1>5, <2>1, <2>2, <2>3
<1>7. ASSUME NEW j \in 1 .. n, NEW k \in 1 .. n, j < k PROVE <<pos[j], pos[k]>> \in R
    <2>1. pos[j] \in S /\ pos[k] \in S /\ Rank(R, S, pos[j]) = j - 1 /\ Rank(R, S, pos[k]) = k - 1
        BY <1>3
    <2>2. ~(Rank(R, S, pos[k]) < Rank(R, S, pos[j])) /\ pos[j] # pos[k]
        BY <1>1, <1>4, <1>7, <2>1
    <2>3. <<pos[k], pos[j]>> \notin R
        BY <1>5, <2>1, <2>2
    <2> QED
        BY <2>1, <2>2, <2>3 DEF IsOrder
<1> QED
    BY <1>1, <1>2, <1>3, <1>4, <1>6, <1>7

-------------------------------------------------------------------------------
(* Sums over finite sets: MapThenSumSet of the community modules.          *)

\* A set of naturals has a least one: the induction of this module.
LEMMA LeastOf ==
    ASSUME NEW T \in SUBSET Nat, T # {}
    PROVE  \E n \in T : \A m \in T : n <= m
<1> DEFINE R == {p \in Nat \X Nat : p[1] < p[2]}
<1>1. IsWellFoundedOn(R, Nat)
    BY NatLessThanWellFounded DEF OpToRel
<1> HIDE DEF R
<1>2. PICK n \in T : \A m \in T : <<m, n>> \notin R
    BY <1>1, WFMin
<1>3. ASSUME NEW m \in T PROVE n <= m
    <2>1. m \in Nat /\ n \in Nat /\ <<m, n>> \notin R
        BY <1>2
    <2> QED
        BY <2>1 DEF R
<1> QED
    BY <1>3

\* A non-empty set of finite sets has a member that contains no other.
LEMMA SmallestSet ==
    ASSUME NEW C, C # {}, \A T \in C : IsFiniteSet(T)
    PROVE  \E T \in C : \A U \in C : U \subseteq T => U = T
<1> DEFINE N == {Cardinality(T) : T \in C}
<1>1. N \in SUBSET Nat /\ N # {}
    BY FS_CardinalityType
<1>2. PICK n \in N : \A m \in N : n <= m
    BY <1>1, LeastOf
<1>3. PICK T \in C : Cardinality(T) = n
    OBVIOUS
<1>4. ASSUME NEW U \in C, U \subseteq T, U # T PROVE FALSE
    <2>1. IsFiniteSet(T) /\ Cardinality(U) < Cardinality(T)
        BY <1>4, SmallerPart
    <2>2. Cardinality(U) \in Nat /\ Cardinality(U) \in N /\ n \in Nat
        BY <1>1, <1>4, FS_CardinalityType
    <2> QED
        BY <1>2, <1>3, <2>1, <2>2
<1> QED
    BY <1>4

PickOf(T) == CHOOSE x \in T : TRUE
Summed(k, f, T) == IF T = {} THEN 0 ELSE f[PickOf(T)] + k[T \ {PickOf(T)}]
IsSum(k, f, S) == k = [T \in SUBSET S |-> Summed(k, f, T)]
SumsUpto(k, f, S, n) == \A T \in SUBSET S : Cardinality(T) <= n => k[T] = Summed(k, f, T)

LEMMA OneLess ==
    ASSUME NEW S, IsFiniteSet(S), NEW T \in SUBSET S, T # {}
    PROVE  /\ IsFiniteSet(T) /\ PickOf(T) \in T /\ PickOf(T) \in S
           /\ T \ {PickOf(T)} \in SUBSET S
           /\ Cardinality(T) \in Nat
           /\ Cardinality(T \ {PickOf(T)}) = Cardinality(T) - 1
<1>1. PickOf(T) \in T
    BY DEF PickOf
<1>2. IsFiniteSet(T) /\ Cardinality(T) \in Nat
    BY FS_Subset, FS_CardinalityType
<1> QED
    BY <1>1, <1>2, FS_RemoveElement

LEMMA SumsGrow ==
    ASSUME NEW S, IsFiniteSet(S), NEW f, NEW n \in Nat, NEW k, SumsUpto(k, f, S, n)
    PROVE  \E g : SumsUpto(g, f, S, n + 1)
<1> DEFINE g == [T \in SUBSET S |-> IF Cardinality(T) <= n THEN k[T] ELSE Summed(k, f, T)]
<1>1. ASSUME NEW T \in SUBSET S, Cardinality(T) <= n + 1 PROVE g[T] = Summed(g, f, T)
    <2>1. g[T] = Summed(k, f, T)
        BY DEF SumsUpto
    <2>2. CASE T = {}
        BY <2>1, <2>2 DEF Summed
    <2>3. CASE T # {}
        <3>1. T \ {PickOf(T)} \in SUBSET S /\ Cardinality(T \ {PickOf(T)}) <= n
            BY <1>1, <2>3, OneLess
        <3>2. g[T \ {PickOf(T)}] = k[T \ {PickOf(T)}]
            BY <3>1
        <3> QED
            BY <2>1, <2>3, <3>2 DEF Summed
    <2> QED
        BY <2>2, <2>3
<1> HIDE DEF g
<1> QED
    BY <1>1 DEF SumsUpto

LEMMA SumsExist ==
    ASSUME NEW S, IsFiniteSet(S), NEW f
    PROVE  \E k : IsSum(k, f, S)
<1> DEFINE N == {n \in Nat : ~\E k : SumsUpto(k, f, S, n)}
<1>1. N = {}
    <2> SUFFICES ASSUME N # {} PROVE FALSE
        OBVIOUS
    <2>1. PICK n \in N : \A m \in N : n <= m
        BY LeastOf
    <2>2. CASE n = 0
        <3> DEFINE k == [T \in SUBSET S |-> 0]
        <3>1. ASSUME NEW T \in SUBSET S, Cardinality(T) <= 0 PROVE k[T] = Summed(k, f, T)
            <4>1. T = {}
                BY <3>1, OneLess, FS_CardinalityType, FS_Subset, FS_EmptySet
            <4> QED
                BY <4>1 DEF Summed
        <3> HIDE DEF k
        <3>2. SumsUpto(k, f, S, 0)
            BY <3>1 DEF SumsUpto
        <3> QED
            BY <2>2, <3>2
    <2>3. CASE n # 0
        <3>1. n - 1 \in Nat /\ (n - 1) + 1 = n /\ ~(n <= n - 1)
            BY <2>3
        <3>2. PICK k : SumsUpto(k, f, S, n - 1)
            BY <2>1, <3>1
        <3>3. \E g : SumsUpto(g, f, S, n)
            BY <3>1, <3>2, SumsGrow
        <3> QED
            BY <3>3
    <2> QED
        BY <2>2, <2>3
<1>2. PICK n : n = Cardinality(S) /\ n \in Nat
    BY FS_CardinalityType
<1>3. PICK k : SumsUpto(k, f, S, n)
    BY <1>1, <1>2
<1> DEFINE g == [T \in SUBSET S |-> k[T]]
<1>4. \A T \in SUBSET S : Cardinality(T) <= n
    BY <1>2, FS_Subset
<1>5. \A T \in SUBSET S : g[T] = Summed(g, f, T)
    BY <1>3, <1>4 DEF SumsUpto, Summed
<1>6. g = [T \in SUBSET S |-> Summed(g, f, T)]
    <2> HIDE DEF g
    <2>1. g = [T \in SUBSET S |-> g[T]]
        BY DEF g
    <2> QED
        BY <1>5, <2>1
<1> QED
    BY <1>6 DEF IsSum

LEMMA SumsAreNat ==
    ASSUME NEW S, IsFiniteSet(S), NEW f, \A x \in S : f[x] \in Nat, NEW k, IsSum(k, f, S)
    PROVE  k[S] \in Nat
<1> DEFINE C == {T \in SUBSET S : k[T] \notin Nat}
<1>1. C = {}
    <2> SUFFICES ASSUME C # {} PROVE FALSE
        OBVIOUS
    <2>1. \A T \in C : IsFiniteSet(T)
        BY FS_Subset
    <2>2. \A T \in SUBSET S : k[T] = Summed(k, f, T)
        BY DEF IsSum
    <2>3. PICK D : D = C
        OBVIOUS
    <2>4. D # {} /\ \A T \in D : IsFiniteSet(T)
        BY <2>1, <2>3
    <2> HIDE DEF C
    <2>5. PICK T \in D : \A U \in D : U \subseteq T => U = T
        BY <2>4, SmallestSet
    <2>6. T # {} /\ k[T] = Summed(k, f, T)
        BY <2>2, <2>3 DEF Summed, C
    <2>7. PickOf(T) \in T
        BY <2>6 DEF PickOf
    <2>8. T \ {PickOf(T)} \notin C /\ T \ {PickOf(T)} \in SUBSET S
        BY <2>3, <2>5, <2>7 DEF C
    <2> QED
        BY <2>3, <2>6, <2>7, <2>8 DEF Summed, C
<1> QED
    BY <1>1

LEMMA SumsAreOne ==
    ASSUME NEW S, IsFiniteSet(S), NEW f, NEW k, IsSum(k, f, S),
           NEW U \in SUBSET S, NEW g, NEW h, IsSum(h, g, U), \A x \in U : g[x] = f[x]
    PROVE  \A T \in SUBSET U : h[T] = k[T]
<1> DEFINE C == {T \in SUBSET U : h[T] # k[T]}
<1> SUFFICES ASSUME C # {} PROVE FALSE
    OBVIOUS
<1>1. \A T \in C : IsFiniteSet(T)
    BY FS_Subset
<1>2. \A T \in SUBSET U : T \in SUBSET S /\ h[T] = Summed(h, g, T) /\ k[T] = Summed(k, f, T)
    BY DEF IsSum
<1>3. PICK D : D = C
    OBVIOUS
<1>4. D # {} /\ \A T \in D : IsFiniteSet(T)
    BY <1>1, <1>3
<1> HIDE DEF C
<1>5. PICK T \in D : \A V \in D : V \subseteq T => V = T
    BY <1>4, SmallestSet
<1>6. T \in SUBSET U /\ h[T] # k[T]
    BY <1>3, <1>5 DEF C
<1>7. T # {}
    BY <1>2, <1>6 DEF Summed
<1>8. PickOf(T) \in T
    BY <1>7 DEF PickOf
<1>9. T \ {PickOf(T)} \in SUBSET U /\ T \ {PickOf(T)} \notin D
    BY <1>5, <1>6, <1>8
<1>10. h[T \ {PickOf(T)}] = k[T \ {PickOf(T)}]
    BY <1>3, <1>9 DEF C
<1>11. h[T] = g[PickOf(T)] + h[T \ {PickOf(T)}] /\ k[T] = f[PickOf(T)] + k[T \ {PickOf(T)}]
    BY <1>2, <1>6, <1>7 DEF Summed
<1>12. g[PickOf(T)] = f[PickOf(T)]
    BY <1>6, <1>8
<1> QED
    BY <1>6, <1>10, <1>11, <1>12

LEMMA PartSumsAreNat ==
    ASSUME NEW S, IsFiniteSet(S), NEW f, \A x \in S : f[x] \in Nat, NEW k, IsSum(k, f, S)
    PROVE  \A T \in SUBSET S : k[T] \in Nat
<1> SUFFICES ASSUME NEW T \in SUBSET S PROVE k[T] \in Nat
    OBVIOUS
<1>1. IsFiniteSet(T)
    BY FS_Subset
<1>2. PICK h : IsSum(h, f, T)
    BY <1>1, SumsExist
<1>3. h[T] = k[T]
    BY <1>2, SumsAreOne
<1>4. \A x \in T : f[x] \in Nat
    OBVIOUS
<1> QED
    BY <1>1, <1>2, <1>3, <1>4, SumsAreNat

\* Any term may be the first.
LEMMA SumWithout ==
    ASSUME NEW S, IsFiniteSet(S), NEW f, \A x \in S : f[x] \in Nat, NEW k, IsSum(k, f, S)
    PROVE  \A T \in SUBSET S : \A x \in T : k[T] = f[x] + k[T \ {x}]
<1> DEFINE C == {T \in SUBSET S : \E x \in T : k[T] # f[x] + k[T \ {x}]}
<1> SUFFICES ASSUME C # {} PROVE FALSE
    OBVIOUS
<1>1. \A T \in C : IsFiniteSet(T)
    BY FS_Subset
<1>2. \A T \in SUBSET S : k[T] = Summed(k, f, T) /\ k[T] \in Nat
    BY PartSumsAreNat DEF IsSum
<1>3. PICK D : D = C
    OBVIOUS
<1>4. D # {} /\ \A T \in D : IsFiniteSet(T)
    BY <1>1, <1>3
<1> HIDE DEF C
<1>5. PICK T \in D : \A V \in D : V \subseteq T => V = T
    BY <1>4, SmallestSet
<1>6. T \in SUBSET S
    BY <1>3, <1>5 DEF C
<1>7. PICK x \in T : k[T] # f[x] + k[T \ {x}]
    BY <1>3, <1>5 DEF C
<1>8. PICK p : p = PickOf(T)
    OBVIOUS
<1>9. p \in T /\ k[T] = f[p] + k[T \ {p}]
    BY <1>2, <1>6, <1>7, <1>8 DEF PickOf, Summed
<1>10. x # p
    BY <1>7, <1>9
<1>11. T \ {p} \in SUBSET S /\ T \ {p} \notin C /\ T \ {x} \in SUBSET S /\ T \ {x} \notin C
    BY <1>3, <1>5, <1>6, <1>7, <1>9
<1>12. k[T \ {p}] = f[x] + k[(T \ {p}) \ {x}]
    BY <1>10, <1>11, <1>7 DEF C
<1>13. k[T \ {x}] = f[p] + k[(T \ {x}) \ {p}]
    BY <1>10, <1>11, <1>9 DEF C
<1>14. (T \ {p}) \ {x} = (T \ {x}) \ {p} /\ (T \ {p}) \ {x} \in SUBSET S
    BY <1>6
<1>15. PICK u : u = k[(T \ {p}) \ {x}] /\ u \in Nat
    BY <1>2, <1>14
<1>16. f[x] \in Nat /\ f[p] \in Nat
    BY <1>6, <1>7, <1>9
<1>17. k[T] = f[p] + (f[x] + u) /\ k[T \ {x}] = f[p] + u
    BY <1>9, <1>12, <1>13, <1>14, <1>15
<1> QED
    BY <1>7, <1>15, <1>16, <1>17

\* What is zero does not count.
LEMMA SumOfTheRest ==
    ASSUME NEW S, IsFiniteSet(S), NEW f, \A x \in S : f[x] \in Nat, NEW k, IsSum(k, f, S),
           NEW M \in SUBSET S, \A x \in S \ M : f[x] = 0
    PROVE  k[S] = k[M]
<1> DEFINE C == {T \in SUBSET S : k[T] # k[T \cap M]}
<1>a. C = {}
    <2> SUFFICES ASSUME C # {} PROVE FALSE
        OBVIOUS
    <2>1. \A T \in C : IsFiniteSet(T)
        BY FS_Subset
    <2>3. PICK D : D = C
        OBVIOUS
    <2>4. D # {} /\ \A T \in D : IsFiniteSet(T)
        BY <2>1, <2>3
    <2> HIDE DEF C
    <2>5. PICK T \in D : \A V \in D : V \subseteq T => V = T
        BY <2>4, SmallestSet
    <2>6. T \in SUBSET S /\ k[T] # k[T \cap M]
        BY <2>3, <2>5 DEF C
    <2>7. T # {}
        BY <2>6
    <2>8. PICK x : x \in T
        BY <2>7
    <2>9. k[T] = f[x] + k[T \ {x}]
        BY <2>6, <2>8, SumWithout
    <2>10. T \ {x} \in SUBSET S /\ T \ {x} \notin D
        BY <2>5, <2>6, <2>8
    <2>11. k[T \ {x}] = k[(T \ {x}) \cap M]
        BY <2>3, <2>10 DEF C
    <2>12. CASE x \in M
        <3>1. T \cap M \in SUBSET S /\ x \in T \cap M
            BY <2>6, <2>8, <2>12
        <3>2. k[T \cap M] = f[x] + k[(T \cap M) \ {x}]
            BY <3>1, SumWithout
        <3>3. (T \cap M) \ {x} = (T \ {x}) \cap M
            OBVIOUS
        <3> QED
            BY <2>6, <2>9, <2>11, <3>2, <3>3
    <2>13. CASE x \notin M
        <3>1. (T \ {x}) \cap M = T \cap M
            BY <2>13
        <3>2. f[x] = 0 /\ T \cap M \in SUBSET S
            BY <2>6, <2>8, <2>13
        <3>3. PICK u : u = k[T \cap M] /\ u \in Nat
            BY <3>2, PartSumsAreNat
        <3>4. k[T \ {x}] = u
            BY <2>11, <3>1, <3>3
        <3>5. k[T] = 0 + u
            BY <2>9, <3>2, <3>4
        <3> QED
            BY <2>6, <3>3, <3>5
    <2> QED
        BY <2>12, <2>13
<1>b. S \in SUBSET S /\ S \cap M = M
    OBVIOUS
<1> QED
    BY <1>a, <1>b

\* A sum of a column, and of a column in which nothing counts as zero.
LEMMA TotalIs ==
    ASSUME NEW S, IsFiniteSet(S), NEW column
    PROVE  \E k : IsSum(k, [d \in S |-> d[column]], S) /\ Total(column, S) = k[S]
<1> DEFINE f == [d \in S |-> d[column]]
           k == CHOOSE g : g = [T \in SUBSET S |->
                    IF T = {} THEN 0 ELSE (CHOOSE x \in T : TRUE)[column]
                                              + g[T \ {CHOOSE x \in T : TRUE}]]
<1>1. Total(column, S) = k[S]
    BY DEF Total, MapThenSumSet, MapThenFoldSet
<1>2. \A T \in SUBSET S : T # {} => f[PickOf(T)] = (CHOOSE x \in T : TRUE)[column]
    BY DEF PickOf
<1> HIDE DEF f
<1>4. PICK g : IsSum(g, f, S)
    BY SumsExist
<1>5. g = [T \in SUBSET S |->
              IF T = {} THEN 0 ELSE (CHOOSE x \in T : TRUE)[column]
                                        + g[T \ {CHOOSE x \in T : TRUE}]]
    BY <1>4, <1>2 DEF IsSum, Summed, PickOf
<1>6. k = [T \in SUBSET S |->
              IF T = {} THEN 0 ELSE (CHOOSE x \in T : TRUE)[column]
                                        + k[T \ {CHOOSE x \in T : TRUE}]]
    BY <1>5
<1> HIDE DEF k
<1>7. IsSum(k, f, S)
    BY <1>2, <1>6 DEF IsSum, Summed, PickOf
<1> QED
    BY <1>1, <1>7 DEF f

TotalOrZero(column, S) == MapThenSumSet(LAMBDA d : Coalesce(d[column]), S)

LEMMA TotalOrZeroIs ==
    ASSUME NEW S, IsFiniteSet(S), NEW column
    PROVE  \E k : IsSum(k, [d \in S |-> Coalesce(d[column])], S) /\ TotalOrZero(column, S) = k[S]
<1> DEFINE f == [d \in S |-> Coalesce(d[column])]
           k == CHOOSE g : g = [T \in SUBSET S |->
                    IF T = {} THEN 0 ELSE Coalesce((CHOOSE x \in T : TRUE)[column])
                                              + g[T \ {CHOOSE x \in T : TRUE}]]
<1>1. TotalOrZero(column, S) = k[S]
    BY DEF TotalOrZero, MapThenSumSet, MapThenFoldSet
<1>2. \A T \in SUBSET S : T # {} => f[PickOf(T)] = Coalesce((CHOOSE x \in T : TRUE)[column])
    BY DEF PickOf
<1> HIDE DEF f
<1>4. PICK g : IsSum(g, f, S)
    BY SumsExist
<1>5. g = [T \in SUBSET S |->
              IF T = {} THEN 0 ELSE Coalesce((CHOOSE x \in T : TRUE)[column])
                                        + g[T \ {CHOOSE x \in T : TRUE}]]
    BY <1>4, <1>2 DEF IsSum, Summed, PickOf
<1>6. k = [T \in SUBSET S |->
              IF T = {} THEN 0 ELSE Coalesce((CHOOSE x \in T : TRUE)[column])
                                        + k[T \ {CHOOSE x \in T : TRUE}]]
    BY <1>5
<1> HIDE DEF k
<1>7. IsSum(k, f, S)
    BY <1>2, <1>6 DEF IsSum, Summed, PickOf
<1> QED
    BY <1>1, <1>7 DEF f

\* A sum of naturals is one.
LEMMA SumIsNat ==
    ASSUME NEW S, IsFiniteSet(S), NEW column, \A d \in S : d[column] \in Nat
    PROVE  Total(column, S) \in Nat
<1>1. PICK k : IsSum(k, [d \in S |-> d[column]], S) /\ Total(column, S) = k[S]
    BY TotalIs
<1>2. \A x \in S : [d \in S |-> d[column]][x] \in Nat
    OBVIOUS
<1> QED
    BY <1>1, <1>2, SumsAreNat

-------------------------------------------------------------------------------
(* Sequences.                                                              *)

LEMMA LenIs ==
    ASSUME NEW n \in Nat, NEW S, NEW f, f \in [1 .. n -> S]
    PROVE  f \in Seq(S) /\ Len(f) = n
OBVIOUS

-------------------------------------------------------------------------------
(* A fold from the left over a list: what it made of the first n entries.  *)

LEMMA LargestOf ==
    ASSUME NEW n \in Nat, NEW T \in SUBSET (1 .. n), T # {}
    PROVE  /\ Max(T) \in T /\ \A m \in T : Max(T) >= m
           /\ IsFiniteSet(T) /\ IsFiniteSet(T \ {Max(T)})
           /\ Cardinality(T \ {Max(T)}) + 1 = Cardinality(T) /\ Cardinality(T) \in Nat
<1> DEFINE R == {n - m : m \in T}
<1>1. R \in SUBSET Nat /\ R # {}
    <2>1. ASSUME NEW m \in T PROVE n - m \in Nat
        <3>1. m \in 1 .. n
            OBVIOUS
        <3> QED
            BY <3>1
    <2> QED
        BY <2>1
<1> HIDE DEF R
<1>2. PICK r \in R : \A q \in R : r <= q
    BY <1>1, LeastOf
<1>3. PICK x \in T : r = n - x
    BY DEF R
<1>4. ASSUME NEW m \in T PROVE x >= m
    <2>1. n - m \in R
        BY DEF R
    <2>2. m \in Int /\ x \in Int /\ r <= n - m
        BY <1>2, <2>1
    <2> QED
        BY <1>3, <2>2
<1>5. Max(T) \in T /\ \A m \in T : Max(T) >= m
    BY <1>4 DEF Max
<1> HIDE DEF R
<1>6. IsFiniteSet(T)
    <2>1. IsFiniteSet(1 .. n)
        BY FS_Interval
    <2> QED
        BY <2>1, FS_Subset
<1>7. IsFiniteSet(T \ {Max(T)}) /\ Cardinality(T \ {Max(T)}) + 1 = Cardinality(T) /\ Cardinality(T) \in Nat
    <2> PICK x1 : x1 = Max(T)
        OBVIOUS
    <2>1. Cardinality(T) \in Nat
        BY <1>6, FS_CardinalityType
    <2>2. IsFiniteSet(T \ {x1}) /\ Cardinality(T \ {x1}) = Cardinality(T) - 1
        BY <1>5, <1>6, FS_RemoveElement
    <2> QED
        BY <2>1, <2>2
<1> QED
    BY <1>5, <1>6, <1>7

LEMMA MaxOfInterval ==
    ASSUME NEW n \in Nat, n # 0
    PROVE  Max(1 .. n) = n /\ (1 .. n) \ {n} = 1 .. (n - 1)
<1>1. Max(1 .. n) \in 1 .. n /\ \A m \in 1 .. n : Max(1 .. n) >= m
    <2>1. 1 .. n # {} /\ 1 .. n \in SUBSET (1 .. n)
        OBVIOUS
    <2> QED
        BY <2>1, LargestOf
<1> QED
    BY <1>1

-------------------------------------------------------------------------------
(* The pass over a document of teams.                                      *)

PassOver(k, document, T) ==
    IF T = {} THEN NothingSeen ELSE WithEntry(k[T \ {Max(T)}], document[Max(T)])
IsPass(k, document) == k = [T \in SUBSET DOMAIN document |-> PassOver(k, document, T)]
PassUpto(k, document, n) ==
    \A T \in SUBSET DOMAIN document : Cardinality(T) <= n => k[T] = PassOver(k, document, T)

LEMMA PassGrows ==
    ASSUME NEW document, NEW size \in Nat, DOMAIN document = 1 .. size,
           NEW n \in Nat, NEW k, PassUpto(k, document, n)
    PROVE  \E g : PassUpto(g, document, n + 1)
<1> DEFINE g == [T \in SUBSET DOMAIN document |-> PassOver(k, document, T)]
<1>1. ASSUME NEW T \in SUBSET DOMAIN document, Cardinality(T) <= n + 1
      PROVE  g[T] = PassOver(g, document, T)
    <2>1. CASE T = {}
        BY <2>1 DEF PassOver
    <2>2. CASE T # {}
        <3>1. PICK x : x = Max(T)
            OBVIOUS
        <3>2. Cardinality(T \ {x}) + 1 = Cardinality(T) /\ Cardinality(T) \in Nat /\ IsFiniteSet(T \ {x})
            BY <2>2, <3>1, LargestOf
        <3>3. Cardinality(T \ {x}) \in Nat
            BY <3>2, FS_CardinalityType
        <3>4. Cardinality(T \ {x}) <= n
            BY <1>1, <3>2, <3>3
        <3>5. T \ {x} \in SUBSET DOMAIN document
            OBVIOUS
        <3>6. k[T \ {x}] = PassOver(k, document, T \ {x})
            BY <3>4, <3>5 DEF PassUpto
        <3>7. g[T \ {x}] = k[T \ {x}]
            BY <3>5, <3>6
        <3>8. g[T] = WithEntry(k[T \ {x}], document[x])
            BY <2>2, <3>1 DEF PassOver
        <3> HIDE DEF g
        <3> QED
            BY <2>2, <3>1, <3>7, <3>8 DEF PassOver
    <2> QED
        BY <2>1, <2>2
<1> HIDE DEF g
<1>2. PassUpto(g, document, n + 1)
    BY <1>1 DEF PassUpto
<1> QED
    BY <1>2

LEMMA PassExists ==
    ASSUME NEW document, NEW size \in Nat, DOMAIN document = 1 .. size
    PROVE  \E k : IsPass(k, document)
<1> DEFINE N == {n \in Nat : ~\E k : PassUpto(k, document, n)}
<1>1. N = {}
    <2> SUFFICES ASSUME N # {} PROVE FALSE
        OBVIOUS
    <2>1. PICK n \in N : \A m \in N : n <= m
        BY LeastOf
    <2>2. CASE n = 0
        <3> DEFINE k == [T \in SUBSET DOMAIN document |-> NothingSeen]
        <3>1. ASSUME NEW T \in SUBSET DOMAIN document, Cardinality(T) <= 0
              PROVE  k[T] = PassOver(k, document, T)
            <4>1. T = {}
                <5> SUFFICES ASSUME T # {} PROVE FALSE
                    OBVIOUS
                <5>1. PICK x : x = Max(T)
                    OBVIOUS
                <5>2. Cardinality(T \ {x}) + 1 = Cardinality(T) /\ IsFiniteSet(T \ {x})
                    BY <5>1, LargestOf
                <5>3. Cardinality(T \ {x}) \in Nat
                    BY <5>2, FS_CardinalityType
                <5> QED
                    BY <3>1, <5>2, <5>3
            <4> QED
                BY <4>1 DEF PassOver
        <3> HIDE DEF k
        <3>2. PassUpto(k, document, 0)
            BY <3>1 DEF PassUpto
        <3> QED
            BY <2>2, <3>2
    <2>3. CASE n # 0
        <3>1. n - 1 \in Nat /\ (n - 1) + 1 = n /\ ~(n <= n - 1)
            BY <2>3
        <3>2. PICK k : PassUpto(k, document, n - 1)
            BY <2>1, <3>1
        <3>3. \E g : PassUpto(g, document, n)
            BY <3>1, <3>2, PassGrows
        <3> QED
            BY <3>3
    <2> QED
        BY <2>2, <2>3
<1>2. PICK k : PassUpto(k, document, size)
    BY <1>1
<1> DEFINE g == [T \in SUBSET DOMAIN document |-> k[T]]
<1>3. ASSUME NEW T \in SUBSET DOMAIN document PROVE Cardinality(T) <= size
    <2>1. IsFiniteSet(1 .. size) /\ Cardinality(1 .. size) = size
        BY FS_Interval
    <2> QED
        BY <2>1, FS_Subset
<1>4. \A T \in SUBSET DOMAIN document : g[T] = PassOver(g, document, T)
    BY <1>2, <1>3 DEF PassUpto, PassOver
<1>5. g = [T \in SUBSET DOMAIN document |-> PassOver(g, document, T)]
    <2> HIDE DEF g
    <2>1. g = [T \in SUBSET DOMAIN document |-> g[T]]
        BY DEF g
    <2> QED
        BY <1>4, <2>1
<1> QED
    BY <1>5 DEF IsPass

LEMMA ValidatedIsAPass ==
    ASSUME NEW document, NEW size \in Nat, DOMAIN document = 1 .. size
    PROVE  \E k : IsPass(k, document) /\ Validated(document) = k[1 .. size]
<1> DEFINE k == CHOOSE g : g = [T \in SUBSET DOMAIN document |->
                        IF T = {} THEN NothingSeen
                        ELSE WithEntry(g[T \ {Max(T)}], document[Max(T)])]
<1>1. Validated(document) = k[DOMAIN document]
    BY DEF Validated, FoldLeft, MapThenFoldSet
<1>2. PICK g : IsPass(g, document)
    BY PassExists
<1>3. g = [T \in SUBSET DOMAIN document |->
              IF T = {} THEN NothingSeen ELSE WithEntry(g[T \ {Max(T)}], document[Max(T)])]
    BY <1>2 DEF IsPass, PassOver
<1>4. k = [T \in SUBSET DOMAIN document |->
              IF T = {} THEN NothingSeen ELSE WithEntry(k[T \ {Max(T)}], document[Max(T)])]
    BY <1>3
<1> HIDE DEF k
<1>5. IsPass(k, document)
    BY <1>4 DEF IsPass, PassOver
<1> QED
    BY <1>1, <1>5

\* What the first n entries of an accepted document have to do with each other.
Accepted(document, n) ==
    \A i \in 1 .. n :
        /\ OwnOperators(document[i]) # {}
        /\ PanelProblems(document[i]) = {}
        /\ \A j \in 1 .. n : i # j =>
               /\ document[i].team_id # document[j].team_id
               /\ OwnOperators(document[i]) \intersect OwnOperators(document[j]) = {}

PassedOver(acc, document, n) ==
    /\ acc.ids = {document[i].team_id : i \in 1 .. n}
    /\ \A o : o \in DOMAIN acc.seen <=> \E i \in 1 .. n : o \in OwnOperators(document[i])
    /\ \A o \in DOMAIN acc.seen : \E i \in 1 .. n :
           o \in OwnOperators(document[i]) /\ acc.seen[o] = document[i].team_id
    /\ acc.problems = {} <=> Accepted(document, n)

LEMMA EntryKeeps ==
    ASSUME NEW document, NEW n \in Nat, n # 0, NEW acc, PassedOver(acc, document, n - 1),
           NEW team, team = document[n],
           (OwnOperators(team) = {}) <=> (team.v1_operators = <<>> /\ team.v2_operator = Null)
    PROVE  PassedOver(WithEntry(acc, team), document, n)
<1> DEFINE next == WithEntry(acc, team)
           m == n - 1
<1>1. m \in Nat /\ 1 .. n = (1 .. m) \union {n} /\ n \notin 1 .. m
    OBVIOUS
<1>2. /\ next.ids = acc.ids \union {team.team_id}
      /\ next.seen = [o \in DOMAIN acc.seen \union OwnOperators(team) |->
                         IF o \in DOMAIN acc.seen THEN acc.seen[o] ELSE team.team_id]
      /\ next.problems = {} <=>
             /\ acc.problems = {}
             /\ team.team_id \notin acc.ids
             /\ ~(team.v1_operators = <<>> /\ team.v2_operator = Null)
             /\ OperatorProblems(team, acc.seen) = {}
             /\ PanelProblems(team) = {}
    BY DEF WithEntry, SeenOperators
<1> HIDE DEF next
<1> HIDE DEF m
<1>3. /\ acc.ids = {document[i].team_id : i \in 1 .. m}
      /\ \A o : o \in DOMAIN acc.seen <=> \E i \in 1 .. m : o \in OwnOperators(document[i])
      /\ \A o \in DOMAIN acc.seen : \E i \in 1 .. m :
             o \in OwnOperators(document[i]) /\ acc.seen[o] = document[i].team_id
      /\ acc.problems = {} <=> Accepted(document, m)
    BY DEF PassedOver, m
<1>4. next.ids = {document[i].team_id : i \in 1 .. n}
    <2>1. \A x : x \in next.ids <=> (\E i \in 1 .. m : x = document[i].team_id) \/ x = team.team_id
        BY <1>2, <1>3
    <2>2. \A x : x \in next.ids <=> \E i \in 1 .. n : x = document[i].team_id
        BY <1>1, <2>1
    <2> QED
        BY <2>2
<1>5. \A o : o \in DOMAIN next.seen <=> \E i \in 1 .. n : o \in OwnOperators(document[i])
    BY <1>1, <1>2, <1>3
<1>6. \A o \in DOMAIN next.seen : \E i \in 1 .. n :
          o \in OwnOperators(document[i]) /\ next.seen[o] = document[i].team_id
    BY <1>1, <1>2, <1>3
<1>7. OperatorProblems(team, acc.seen) = {} <=>
          \A o \in OwnOperators(team) : o \in DOMAIN acc.seen => acc.seen[o] = team.team_id
    BY DEF OperatorProblems
<1>8. ASSUME team.team_id \notin acc.ids
      PROVE  OperatorProblems(team, acc.seen) = {} <=>
                 \A i \in 1 .. m : OwnOperators(document[i]) \intersect OwnOperators(team) = {}
    BY <1>3, <1>7, <1>8
<1>9. next.problems = {} => Accepted(document, n)
    <2> SUFFICES ASSUME next.problems = {} PROVE Accepted(document, n)
        OBVIOUS
    <2>1. /\ Accepted(document, m) /\ team.team_id \notin acc.ids
          /\ OwnOperators(team) # {} /\ PanelProblems(team) = {}
          /\ \A i \in 1 .. m : OwnOperators(document[i]) \intersect OwnOperators(team) = {}
        BY <1>2, <1>3, <1>8
    <2>2. \A i \in 1 .. m : document[i].team_id # team.team_id
        BY <1>3, <2>1
    <2> QED
        BY <1>1, <2>1, <2>2 DEF Accepted
<1>10. Accepted(document, n) => next.problems = {}
    <2> SUFFICES ASSUME Accepted(document, n) PROVE next.problems = {}
        OBVIOUS
    <2>1. Accepted(document, m) /\ OwnOperators(team) # {} /\ PanelProblems(team) = {}
        BY <1>1 DEF Accepted
    <2>2. \A i \in 1 .. m :
              /\ document[i].team_id # team.team_id
              /\ OwnOperators(document[i]) \intersect OwnOperators(team) = {}
        BY <1>1 DEF Accepted
    <2>3. team.team_id \notin acc.ids
        BY <1>3, <2>2
    <2> QED
        BY <1>2, <1>3, <1>8, <2>1, <2>2, <2>3
<1> QED
    BY <1>4, <1>5, <1>6, <1>9, <1>10 DEF PassedOver, next

LEMMA AcceptedOnly ==
    ASSUME NEW document, NEW size \in Nat, DOMAIN document = 1 .. size,
           \A i \in 1 .. size : (OwnOperators(document[i]) = {})
               <=> (document[i].v1_operators = <<>> /\ document[i].v2_operator = Null)
    PROVE  ValidateRegistry(document) = {} <=> Accepted(document, size)
<1>1. PICK k : IsPass(k, document) /\ Validated(document) = k[1 .. size]
    BY ValidatedIsAPass
<1> DEFINE N == {n \in Nat : n <= size /\ ~PassedOver(k[1 .. n], document, n)}
<1>2. N = {}
    <2> SUFFICES ASSUME N # {} PROVE FALSE
        OBVIOUS
    <2>1. PICK n \in N : \A m \in N : n <= m
        BY LeastOf
    <2>2. 1 .. n \in SUBSET DOMAIN document
        BY <2>1
    <2>3. k[1 .. n] = PassOver(k, document, 1 .. n)
        BY <1>1, <2>2 DEF IsPass
    <2>4. CASE n = 0
        <3>1. 1 .. n = {}
            BY <2>4
        <3>2. k[1 .. n] = NothingSeen
            BY <2>3, <3>1 DEF PassOver
        <3>3. PassedOver(NothingSeen, document, n)
            BY <3>1 DEF PassedOver, NothingSeen, Accepted
        <3> QED
            BY <3>2, <3>3
    <2>5. CASE n # 0
        <3>1. n - 1 \in Nat /\ n - 1 <= size /\ ~(n <= n - 1)
            BY <2>5
        <3>2. PassedOver(k[1 .. n - 1], document, n - 1)
            BY <2>1, <3>1
        <3>3. Max(1 .. n) = n /\ (1 .. n) \ {n} = 1 .. (n - 1) /\ 1 .. n # {}
            BY <2>5, MaxOfInterval
        <3>4. k[1 .. n] = WithEntry(k[1 .. n - 1], document[n])
            BY <2>3, <3>3 DEF PassOver
        <3>5. PICK acc : acc = k[1 .. n - 1]
            OBVIOUS
        <3>6. n \in 1 .. size
            BY <2>5
        <3>7. PICK team : team = document[n]
            OBVIOUS
        <3>8. (OwnOperators(team) = {}) <=> (team.v1_operators = <<>> /\ team.v2_operator = Null)
            BY <3>6, <3>7
        <3>9. PassedOver(acc, document, n - 1)
            BY <3>2, <3>5
        <3>10. PassedOver(WithEntry(acc, team), document, n)
            BY <2>5, <3>7, <3>8, <3>9, EntryKeeps
        <3> QED
            BY <3>4, <3>5, <3>7, <3>10
    <2> QED
        BY <2>4, <2>5
<1>3. PassedOver(k[1 .. size], document, size)
    BY <1>2
<1> QED
    BY <1>1, <1>3 DEF PassedOver, ValidateRegistry

-------------------------------------------------------------------------------
(* What an accepted document says of operators, names and panels.          *)

LEMMA OnceEach ==
    ASSUME NEW seq, IsArray(seq), NEW name
    PROVE  /\ (\A i \in DOMAIN seq : ~Repeated(seq, i, name)) <=>
                  \A i, j \in DOMAIN seq : seq[i][name] = seq[j][name] => i = j
           /\ (\A i \in DOMAIN seq : ~Repeated(seq, i, name)) <=>
                  \A i \in DOMAIN seq :
                      Cardinality({j \in DOMAIN seq : seq[j][name] = seq[i][name]}) = 1
<1>1. PICK n \in Nat : DOMAIN seq = 1 .. n
    BY LenProperties DEF IsArray
<1>2. (\A i \in DOMAIN seq : ~Repeated(seq, i, name)) <=>
          \A i, j \in DOMAIN seq : seq[i][name] = seq[j][name] => i = j
    <2>1. ASSUME NEW i \in 1 .. n, NEW j \in 1 .. n, i # j PROVE i \in 1 .. j - 1 \/ j \in 1 .. i - 1
        BY <2>1
    <2>2. \A i \in 1 .. n : \A j \in 1 .. i - 1 : i # j /\ j \in 1 .. n
        OBVIOUS
    <2> QED
        BY <1>1, <2>1, <2>2 DEF Repeated
<1>3. ASSUME NEW i \in DOMAIN seq
      PROVE  Cardinality({j \in DOMAIN seq : seq[j][name] = seq[i][name]}) = 1
                 <=> \A j \in DOMAIN seq : seq[j][name] = seq[i][name] => i = j
    <2> DEFINE S == {j \in DOMAIN seq : seq[j][name] = seq[i][name]}
    <2>1. IsFiniteSet(S)
        <3>1. IsFiniteSet(1 .. n)
            BY FS_Interval
        <3> QED
            BY <1>1, <3>1, FS_Subset
    <2>2. i \in S
        OBVIOUS
    <2>3. Cardinality(S) = 1 <=> \E x : S = {x}
        <3> HIDE DEF S
        <3> QED
            BY <2>1, FS_Singleton
    <2>4. (\E x : S = {x}) <=> S = {i}
        <3> HIDE DEF S
        <3> QED
            BY <2>2
    <2>5. S = {i} <=> \A j \in DOMAIN seq : seq[j][name] = seq[i][name] => i = j
        OBVIOUS
    <2> QED
        BY <2>3, <2>4, <2>5
<1> QED
    BY <1>2, <1>3

\* Each variable of the panel has one meaning.
IsClearPanel(panel) ==
    \A v \in {panel.variables[k] : k \in DOMAIN panel.variables} :
        /\ Cardinality({k \in DOMAIN panel.variables : panel.variables[k].name = v.name}) = 1
        /\ CASE v.type \in {"constant", "interval"} -> v.value # Null
             [] v.type = "custom" -> v.values # Null
             [] OTHER -> TRUE

LEMMA PanelsAreClear ==
    ASSUME NEW team, IsArray(team.panels),
           \A k \in DOMAIN team.panels : IsArray(team.panels[k].variables)
    PROVE  PanelProblems(team) = {} <=>
               /\ \A k, l \in DOMAIN team.panels : team.panels[k].id = team.panels[l].id => k = l
               /\ \A k \in DOMAIN team.panels : IsClearPanel(team.panels[k])
<1> DEFINE panels == team.panels
           Twice(k) == IF Repeated(panels, k, "id")
                       THEN {Problem("panel", team.team_id, panels[k].id)} ELSE {}
           Of(k) == Twice(k) \union VariableProblems(team, panels[k])
<1>1. PanelProblems(team) = {} <=> \A k \in DOMAIN panels : Of(k) = {}
    <2>1. PanelProblems(team) = UNION {Of(k) : k \in DOMAIN panels}
        BY DEF PanelProblems
    <2> HIDE DEF Of
    <2> QED
        BY <2>1
<1>2. \A k : Of(k) = {} <=> ~Repeated(panels, k, "id") /\ VariableProblems(team, panels[k]) = {}
    OBVIOUS
<1>3. (\A k \in DOMAIN panels : ~Repeated(panels, k, "id")) <=>
          \A k, l \in DOMAIN panels : panels[k]["id"] = panels[l]["id"] => k = l
    BY OnceEach
<1>4. ASSUME NEW panel, IsArray(panel.variables)
      PROVE  VariableProblems(team, panel) = {} <=> IsClearPanel(panel)
    <2> DEFINE variables == panel.variables
               Meant(v) == CASE v.type \in {"constant", "interval"} -> v.value # Null
                             [] v.type = "custom" -> v.values # Null
                             [] OTHER -> TRUE
               Named(v) == Cardinality({i \in DOMAIN variables : variables[i]["name"] = v["name"]}) = 1
               Faults(i) == {w \in {"twice", "no value", "no values"} :
                                CASE w = "twice" -> Repeated(variables, i, "name")
                                  [] w = "no value" -> variables[i].type \in {"constant", "interval"}
                                                           /\ variables[i].value = Null
                                  [] OTHER -> variables[i].type = "custom" /\ variables[i].values = Null}
               Stated(i, S) == {Problem("variable", team.team_id, w) : w \in S}
    <2>1. ASSUME NEW i \in DOMAIN variables
          PROVE  Faults(i) = {} <=> (~Repeated(variables, i, "name") /\ Meant(variables[i]))
        <3>1. "twice" # "no value" /\ "no values" # "no value" /\ "no values" # "twice"
              /\ "custom" # "constant" /\ "custom" # "interval"
            OBVIOUS
        <3>2. PICK v : v = variables[i]
            OBVIOUS
        <3>3. Faults(i) = {} <=>
                  /\ ~Repeated(variables, i, "name")
                  /\ ~(v.type \in {"constant", "interval"} /\ v.value = Null)
                  /\ ~(v.type = "custom" /\ v.values = Null)
            BY <3>1, <3>2
        <3>4. Meant(v) <=>
                  /\ ~(v.type \in {"constant", "interval"} /\ v.value = Null)
                  /\ ~(v.type = "custom" /\ v.values = Null)
            BY <3>1
        <3> HIDE DEF Meant, Faults
        <3> QED
            BY <3>2, <3>3, <3>4
    <2>2. VariableProblems(team, panel) = UNION {Stated(i, Faults(i)) : i \in DOMAIN variables}
        BY DEF VariableProblems
    <2>3. \A i, S : Stated(i, S) = {} <=> S = {}
        OBVIOUS
    <2> HIDE DEF Meant, Faults, Stated
    <2>4. VariableProblems(team, panel) = {} <=>
              \A i \in DOMAIN variables : ~Repeated(variables, i, "name") /\ Meant(variables[i])
        BY <2>1, <2>2, <2>3
    <2>5. (\A i \in DOMAIN variables : ~Repeated(variables, i, "name")) <=>
              \A i \in DOMAIN variables : Named(variables[i])
        BY <1>4, OnceEach
    <2>6. VariableProblems(team, panel) = {} <=>
              \A v \in {variables[i] : i \in DOMAIN variables} : Named(v) /\ Meant(v)
        <3> HIDE DEF Named
        <3> QED
            BY <2>4, <2>5
    <2> QED
        BY <2>6 DEF Meant, IsClearPanel
<1> HIDE DEF Of, Twice
<1>5. \A k \in DOMAIN panels : VariableProblems(team, panels[k]) = {} <=> IsClearPanel(panels[k])
    BY <1>4
<1> QED
    BY <1>1, <1>2, <1>3, <1>5

LEMMA OperatorsAreStrings ==
    ASSUME NEW operators, Null \notin operators, NEW team,
           team.v1_operators \in Seq(operators), team.v2_operator \in operators \union {Null}
    PROVE  /\ OwnOperators(team) \subseteq operators
           /\ (OwnOperators(team) = {}) <=> (team.v1_operators = <<>> /\ team.v2_operator = Null)
           /\ \A o \in operators : o \in OwnOperators(team) <=>
                  (o = team.v2_operator \/ \E k \in DOMAIN team.v1_operators : team.v1_operators[k] = o)
<1>1. \A k \in DOMAIN team.v1_operators : team.v1_operators[k] \in operators
    BY ElementOfSeq, LenProperties
<1>2. team.v1_operators = <<>> <=> DOMAIN team.v1_operators = {}
    <2>1. PICK seq \in Seq(operators) : seq = team.v1_operators
        OBVIOUS
    <2>2. Len(seq) \in Nat /\ DOMAIN seq = 1 .. Len(seq)
        BY LenProperties
    <2>3. seq = <<>> <=> Len(seq) = 0
        BY EmptySeq
    <2>4. Len(seq) = 0 <=> DOMAIN seq = {}
        <3>1. PICK n \in Nat : n = Len(seq)
            BY <2>2
        <3>2. n = 0 <=> 1 .. n = {}
            OBVIOUS
        <3> QED
            BY <2>2, <3>1, <3>2
    <2> QED
        BY <2>1, <2>3, <2>4
<1>3. \A o : o \in V1Operators(team) <=> \E k \in DOMAIN team.v1_operators : team.v1_operators[k] = o
    BY DEF V1Operators
<1> QED
    BY <1>1, <1>2, <1>3 DEF OwnOperators

LEMMA TheFirstOfItsName ==
    ASSUME NEW document, NEW size \in Nat, DOMAIN document = 1 .. size, NEW i \in 1 .. size,
           \A j \in 1 .. size : document[i].team_id = document[j].team_id => i = j
    PROVE  SelectTeam(document, document[i].team_id) = document[i]
<1> DEFINE named == {j \in DOMAIN document : document[j].team_id = document[i].team_id}
<1>1. named = {i}
    OBVIOUS
<1>2. SelectTeam(document, document[i].team_id) = document[CHOOSE j \in named : \A l \in named : j <= l]
    BY <1>1 DEF SelectTeam
<1> HIDE DEF named
<1>3. (CHOOSE j \in named : \A l \in named : j <= l) = i
    BY <1>1
<1> QED
    BY <1>2, <1>3

LEMMA OneOwnerOf ==
    ASSUME NEW document, NEW operators, Null \notin operators, IsDocument(document, operators)
    PROVE  OneOwner(document, operators)
<1>1. IsArray(document)
    BY DEF IsDocument
<1>2. PICK size \in Nat : DOMAIN document = 1 .. size
    BY <1>1, LenProperties DEF IsArray
<1>3. \A i \in 1 .. size :
          /\ document[i].v1_operators \in Seq(operators)
          /\ document[i].v2_operator \in operators \union {Null}
          /\ IsArray(document[i].panels)
          /\ \A k \in DOMAIN document[i].panels : IsArray(document[i].panels[k].variables)
    BY <1>2 DEF IsDocument
<1> DEFINE Clear(i) ==
        LET panels == document[i].panels
        IN  /\ \A k, l \in DOMAIN panels : panels[k].id = panels[l].id => k = l
            /\ \A k \in DOMAIN panels : IsClearPanel(panels[k])
           Claims(i, o) == o = document[i].v2_operator \/ \E k \in DOMAIN document[i].v1_operators :
                                                              document[i].v1_operators[k] = o
<1>4. ASSUME NEW i \in 1 .. size PROVE PanelProblems(document[i]) = {} <=> Clear(i)
    <2>1. PICK team : team = document[i]
        OBVIOUS
    <2>2. IsArray(team.panels) /\ \A k \in DOMAIN team.panels : IsArray(team.panels[k].variables)
        BY <1>3, <2>1
    <2>3. PanelProblems(team) = {} <=>
              /\ \A k, l \in DOMAIN team.panels : team.panels[k].id = team.panels[l].id => k = l
              /\ \A k \in DOMAIN team.panels : IsClearPanel(team.panels[k])
        BY <2>2, PanelsAreClear
    <2> QED
        BY <2>1, <2>3
<1> HIDE DEF Clear
<1>5. ASSUME NEW i \in 1 .. size
      PROVE  /\ OwnOperators(document[i]) \subseteq operators
             /\ (OwnOperators(document[i]) = {})
                    <=> (document[i].v1_operators = <<>> /\ document[i].v2_operator = Null)
             /\ \A o \in operators : o \in OwnOperators(document[i]) <=> Claims(i, o)
    <2>1. PICK team : team = document[i]
        OBVIOUS
    <2>2. team.v1_operators \in Seq(operators) /\ team.v2_operator \in operators \union {Null}
        BY <1>3, <2>1
    <2>3. /\ OwnOperators(team) \subseteq operators
          /\ (OwnOperators(team) = {}) <=> (team.v1_operators = <<>> /\ team.v2_operator = Null)
          /\ \A o \in operators : o \in OwnOperators(team) <=>
                 (o = team.v2_operator \/ \E k \in DOMAIN team.v1_operators : team.v1_operators[k] = o)
        BY <2>2, OperatorsAreStrings
    <2> QED
        BY <2>1, <2>3
<1>6. ValidateRegistry(document) = {} <=> Accepted(document, size)
    <2>1. \A i \in 1 .. size : (OwnOperators(document[i]) = {})
              <=> (document[i].v1_operators = <<>> /\ document[i].v2_operator = Null)
        BY <1>5
    <2> QED
        BY <1>2, <2>1, AcceptedOnly
<1> HIDE DEF Claims
<1>7. Accepted(document, size) <=>
          /\ \A o \in operators : \A i, j \in 1 .. size : Claims(i, o) /\ Claims(j, o) => i = j
          /\ \A i \in 1 .. size : \E o \in operators : Claims(i, o)
          /\ \A i, j \in 1 .. size : document[i].team_id = document[j].team_id => i = j
          /\ \A i \in 1 .. size : Clear(i)
    <2>1. ASSUME NEW i \in 1 .. size
          PROVE  OwnOperators(document[i]) # {} <=> \E o \in operators : Claims(i, o)
        BY <1>5
    <2>2. ASSUME NEW i \in 1 .. size, NEW j \in 1 .. size
          PROVE  (OwnOperators(document[i]) \intersect OwnOperators(document[j]) = {})
                     <=> (\A o \in operators : ~(Claims(i, o) /\ Claims(j, o)))
        BY <1>5
    <2>3. Accepted(document, size) <=>
              \A i \in 1 .. size :
                  /\ \E o \in operators : Claims(i, o)
                  /\ Clear(i)
                  /\ \A j \in 1 .. size : i # j =>
                         /\ document[i].team_id # document[j].team_id
                         /\ \A o \in operators : ~(Claims(i, o) /\ Claims(j, o))
        BY <1>4, <2>1, <2>2 DEF Accepted
    <2> QED
        BY <2>3
<1>8. (\A i, j \in 1 .. size : document[i].team_id = document[j].team_id => i = j) =>
          \A i \in 1 .. size : SelectTeam(document, document[i].team_id) = document[i]
    BY <1>2, TheFirstOfItsName
<1>9. ValidateRegistry(document) = {} <=>
          /\ \A o \in operators : \A i, j \in 1 .. size : Claims(i, o) /\ Claims(j, o) => i = j
          /\ \A i \in 1 .. size : \E o \in operators : Claims(i, o)
          /\ \A i \in 1 .. size : SelectTeam(document, document[i].team_id) = document[i]
          /\ \A i, j \in 1 .. size : document[i].team_id = document[j].team_id => i = j
          /\ \A i \in 1 .. size : Clear(i)
    BY <1>6, <1>7, <1>8
<1> QED
    BY <1>2, <1>9 DEF OneOwner, Claims, Clear, IsClearPanel

-------------------------------------------------------------------------------
\* validate_registry accepts a document exactly when every operator string of it
\* belongs to one entry, every entry can be queried and is the one of its name,
\* and every variable of its panels has one meaning, whatever the teams, the
\* operators and the panels are (src/registry.py, 134-217).
THEOREM RegistriesAreUnambiguous == Spec => []RegistryIsUnambiguous
<1>1. Init => desk \in Desks
    BY DEF Init
<1>2. desk \in Desks /\ [Next]_vars => (desk \in Desks)'
    BY DEF Next, Ask, Answered, Reading, Operating, deskVars, vars
<1>3. desk \in Desks => RegistryIsUnambiguous
    BY DocumentsAssumption, OneOwnerOf DEF RegistryIsUnambiguous
<1> QED
    BY <1>1, <1>2, <1>3, PTL DEF Spec

-------------------------------------------------------------------------------
(* The acceptance check: what it means that a part of it has no failure.   *)

LEMMA NoFailure == \A where, expected, actual : Equal(where, expected, actual) = {} <=> expected = actual
    BY DEF Equal

LEMMA NoStateFails ==
    ASSUME NEW expected, NEW alerts
    PROVE  VerifyStates(expected, alerts) = {} <=>
               /\ \A q \in DOMAIN expected.states :
                      expected.states[q] = Cardinality(InState(alerts, q))
               /\ ListedTotal(expected.states) = Cardinality(alerts)
<1> DEFINE Of(q) == Equal(<<"identity_states", q>>, expected.states[q], Cardinality(InState(alerts, q)))
           Whole == Equal(<<"identity_states", "total">>, ListedTotal(expected.states), Cardinality(alerts))
           All == UNION {Of(q) : q \in DOMAIN expected.states}
<1>1. VerifyStates(expected, alerts) = All \union Whole
    BY DEF VerifyStates
<1>2. /\ \A q : Of(q) = {} <=> expected.states[q] = Cardinality(InState(alerts, q))
      /\ Whole = {} <=> ListedTotal(expected.states) = Cardinality(alerts)
    BY NoFailure
<1> HIDE DEF Of, Whole
<1>3. All = {} <=> \A q \in DOMAIN expected.states : Of(q) = {}
    OBVIOUS
<1> HIDE DEF All
<1>4. VerifyStates(expected, alerts) = {} <=> Whole = {} /\ \A q \in DOMAIN expected.states : Of(q) = {}
    BY <1>1, <1>3
<1> QED
    BY <1>2, <1>4

LEMMA NoTotalFails ==
    ASSUME NEW s, NEW expected, NEW days
    PROVE  VerifyTotals(s, expected, days) = {} <=>
               /\ \A f \in DOMAIN expected.totals : expected.totals[f] = Total(f, days)
               /\ \A f \in DOMAIN expected.measures : expected.measures[f] = NullableSum(days, f)
<1> DEFINE Of(f) == Equal(<<"totals", s, f>>, expected.totals[f], Total(f, days))
           Measured(f) == Equal(<<"unseen", s, f>>, expected.measures[f], NullableSum(days, f))
           All == UNION {Of(f) : f \in DOMAIN expected.totals}
           Measures == UNION {Measured(f) : f \in DOMAIN expected.measures}
<1>1. VerifyTotals(s, expected, days) = All \union Measures
    BY DEF VerifyTotals
<1>2. /\ \A f : Of(f) = {} <=> expected.totals[f] = Total(f, days)
      /\ \A f : Measured(f) = {} <=> expected.measures[f] = NullableSum(days, f)
    BY NoFailure
<1> HIDE DEF Of, Measured
<1>3. /\ All = {} <=> \A f \in DOMAIN expected.totals : Of(f) = {}
      /\ Measures = {} <=> \A f \in DOMAIN expected.measures : Measured(f) = {}
    OBVIOUS
<1> HIDE DEF All, Measures
<1>4. VerifyTotals(s, expected, days) = {} <=> All = {} /\ Measures = {}
    BY <1>1
<1> QED
    BY <1>2, <1>3, <1>4

LEMMA NoDayFails ==
    ASSUME NEW s, NEW expected, NEW days
    PROVE  VerifyDays(s, expected, days) = {} <=>
               /\ \A day \in DOMAIN expected.daily :
                      /\ {d \in days : d.day = day} # {}
                      /\ \A f \in DOMAIN expected.daily[day] :
                             expected.daily[day][f] = (CHOOSE d \in {d \in days : d.day = day} : TRUE)[f]
               /\ \A d \in days : d.day \notin DOMAIN expected.daily =>
                      d.alerts = 0 /\ d.flagged_by_rule = 0
<1> DEFINE Row(day) == {d \in days : d.day = day}
           Field(day, f) == Equal(<<"daily", s, day, f>>, expected.daily[day][f],
                                  (CHOOSE d \in Row(day) : TRUE)[f])
           Of(day) == IF Row(day) = {} THEN {Failure(<<"daily", s, day>>, "present", "missing")}
                      ELSE UNION {Field(day, f) : f \in DOMAIN expected.daily[day]}
           Rest == {e \in days : e.day \notin DOMAIN expected.daily}
           Zero(d) == Equal(<<"daily", s, d.day, "alerts">>, 0, d.alerts)
                      \union Equal(<<"daily", s, d.day, "flagged_by_rule">>, 0, d.flagged_by_rule)
           Covered == UNION {Of(day) : day \in DOMAIN expected.daily}
           Uncovered == UNION {Zero(d) : d \in Rest}
<1>1. VerifyDays(s, expected, days) = Covered \union Uncovered
    BY DEF VerifyDays
<1>2. \A d : Zero(d) = {} <=> d.alerts = 0 /\ d.flagged_by_rule = 0
    BY DEF Equal
<1>3. \A day, f : Field(day, f) = {} <=>
          expected.daily[day][f] = (CHOOSE d \in Row(day) : TRUE)[f]
    BY DEF Equal
<1> HIDE DEF Field
<1>4. \A day : Of(day) = {} <=>
          Row(day) # {} /\ \A f \in DOMAIN expected.daily[day] : Field(day, f) = {}
    OBVIOUS
<1> HIDE DEF Of, Zero, Rest
<1>5. /\ Covered = {} <=> \A day \in DOMAIN expected.daily : Of(day) = {}
      /\ Uncovered = {} <=> \A d \in Rest : Zero(d) = {}
    OBVIOUS
<1> HIDE DEF Covered, Uncovered
<1>6. VerifyDays(s, expected, days) = {} <=>
          (\A day \in DOMAIN expected.daily : Of(day) = {}) /\ \A d \in Rest : Zero(d) = {}
    BY <1>1, <1>5
<1>7. (\A d \in Rest : Zero(d) = {}) <=>
          \A d \in days : d.day \notin DOMAIN expected.daily => d.alerts = 0 /\ d.flagged_by_rule = 0
    BY <1>2 DEF Rest
<1> HIDE DEF Row
<1>8. (\A day \in DOMAIN expected.daily : Of(day) = {}) <=>
          \A day \in DOMAIN expected.daily :
              /\ Row(day) # {}
              /\ \A f \in DOMAIN expected.daily[day] :
                     expected.daily[day][f] = (CHOOSE d \in Row(day) : TRUE)[f]
    BY <1>3, <1>4
<1> QED
    BY <1>6, <1>7, <1>8 DEF Row

LEMMA NoRuleFails ==
    ASSUME NEW s, NEW expected, NEW counts
    PROVE  VerifyRules(s, expected, counts) = {} <=>
               /\ \A k \in DOMAIN expected.rules : expected.rules[k] = Pair(counts, k[1], k[2])
               /\ \A c \in counts : <<c.day, c.rule>> \in DOMAIN expected.rules
<1> DEFINE Of(k) == Equal(<<"rule", s, k[1], k[2]>>, expected.rules[k], Pair(counts, k[1], k[2]))
           Rest == {d \in counts : <<d.day, d.rule>> \notin DOMAIN expected.rules}
           More(c) == Failure(<<"rule", s, c.day, c.rule>>, <<>>, <<c.match_count, c.distinct_count>>)
           Covered == UNION {Of(k) : k \in DOMAIN expected.rules}
           Uncovered == {More(c) : c \in Rest}
<1>1. VerifyRules(s, expected, counts) = Covered \union Uncovered
    <2>1. VerifyListedRules(s, expected, counts) = Covered
        BY DEF VerifyListedRules
    <2>2. VerifyRules(s, expected, counts) = VerifyListedRules(s, expected, counts) \union Uncovered
        BY DEF VerifyRules
    <2> QED
        BY <2>1, <2>2
<1>2. \A k : Of(k) = {} <=> expected.rules[k] = Pair(counts, k[1], k[2])
    BY NoFailure
<1> HIDE DEF Of, More, Rest
<1>3. /\ Covered = {} <=> \A k \in DOMAIN expected.rules : Of(k) = {}
      /\ Uncovered = {} <=> Rest = {}
    OBVIOUS
<1> HIDE DEF Covered, Uncovered
<1>4. VerifyRules(s, expected, counts) = {} <=> Rest = {} /\ \A k \in DOMAIN expected.rules : Of(k) = {}
    BY <1>1, <1>3
<1>5. Rest = {} <=> \A c \in counts : <<c.day, c.rule>> \in DOMAIN expected.rules
    BY DEF Rest
<1> QED
    BY <1>2, <1>4, <1>5

LEMMA NoAlertFails ==
    ASSUME NEW s, NEW expected, NEW alerts
    PROVE  VerifyAlerts(s, expected, alerts) = {} <=>
               \A k \in DOMAIN expected.worklist :
                   /\ {a \in alerts : a.key_field = k} # {}
                   /\ \A f \in DOMAIN expected.worklist[k] :
                          expected.worklist[k][f] = (CHOOSE a \in {a \in alerts : a.key_field = k} : TRUE)[f]
<1> DEFINE Found(k) == {a \in alerts : a.key_field = k}
           Value(k, f) == Equal(<<"worklist", s, k, f>>, expected.worklist[k][f],
                                (CHOOSE a \in Found(k) : TRUE)[f])
           Of(k) == IF Found(k) = {} THEN {Failure(<<"worklist", s, k>>, "present", "missing")}
                    ELSE UNION {Value(k, f) : f \in DOMAIN expected.worklist[k]}
<1>1. VerifyAlerts(s, expected, alerts) = UNION {Of(k) : k \in DOMAIN expected.worklist}
    BY DEF VerifyAlerts
<1>2. \A k, f : Value(k, f) = {} <=> expected.worklist[k][f] = (CHOOSE a \in Found(k) : TRUE)[f]
    BY DEF Equal
<1> HIDE DEF Value
<1>3. \A k : Of(k) = {} <=> Found(k) # {} /\ \A f \in DOMAIN expected.worklist[k] : Value(k, f) = {}
    OBVIOUS
<1> HIDE DEF Of
<1>4. VerifyAlerts(s, expected, alerts) = {} <=> \A k \in DOMAIN expected.worklist : Of(k) = {}
    BY <1>1
<1> HIDE DEF Found
<1>5. VerifyAlerts(s, expected, alerts) = {} <=>
          \A k \in DOMAIN expected.worklist :
              /\ Found(k) # {}
              /\ \A f \in DOMAIN expected.worklist[k] :
                     expected.worklist[k][f] = (CHOOSE a \in Found(k) : TRUE)[f]
    BY <1>2, <1>3, <1>4
<1> QED
    BY <1>5 DEF Found

LEMMA NoSuppressionFails ==
    ASSUME NEW expected, NEW run
    PROVE  VerifySuppression(expected, run) = {} <=>
               \A block \in expected.suppression :
                   /\ block.rows = Total("suppressed", run.daily)
                   /\ block.leaves = Total("unmeasured", run.daily)
                   /\ \A names \in block.names : names = SuppressedNodes(run.alerts)
                   /\ \A n \in block.shown : n \notin DOMAIN SuppressedNodes(run.alerts)
<1>1. ASSUME NEW block
      PROVE  VerifyBlock(block, run) = {} <=>
                 /\ block.rows = Total("suppressed", run.daily)
                 /\ block.leaves = Total("unmeasured", run.daily)
                 /\ \A names \in block.names : names = SuppressedNodes(run.alerts)
                 /\ \A n \in block.shown : n \notin DOMAIN SuppressedNodes(run.alerts)
    <2>1. PICK nodes : nodes = SuppressedNodes(run.alerts)
        OBVIOUS
    <2> DEFINE Hidden == Equal(<<"suppressed_rows">>, block.rows, Total("suppressed", run.daily))
               Unmeasured == Equal(<<"unmeasured_leaves">>, block.leaves, Total("unmeasured", run.daily))
               Name(names) == Equal(<<"suppressed_node_names">>, names, nodes)
               Shown(n) == Equal(<<"not_suppressed", n>>, FALSE, n \in DOMAIN nodes)
               Names == UNION {Name(names) : names \in block.names}
               AllShown == UNION {Shown(n) : n \in block.shown}
    <2>2. VerifyBlock(block, run) = Hidden \union Unmeasured \union Names \union AllShown
        BY <2>1 DEF VerifyBlock
    <2>3. /\ Hidden = {} <=> block.rows = Total("suppressed", run.daily)
          /\ Unmeasured = {} <=> block.leaves = Total("unmeasured", run.daily)
          /\ \A names : Name(names) = {} <=> names = nodes
        BY NoFailure
    <2>4. ASSUME NEW n PROVE Shown(n) = {} <=> n \notin DOMAIN nodes
        <3>1. CASE n \in DOMAIN nodes
            <4>1. Shown(n) = {Failure(<<"not_suppressed", n>>, FALSE, n \in DOMAIN nodes)}
                BY <3>1 DEF Equal
            <4> QED
                BY <3>1, <4>1
        <3>2. CASE n \notin DOMAIN nodes
            <4>1. Shown(n) = {}
                BY <3>2 DEF Equal
            <4> QED
                BY <3>2, <4>1
        <3> QED
            BY <3>1, <3>2
    <2> HIDE DEF Hidden, Unmeasured, Name, Shown
    <2>5. /\ Names = {} <=> \A names \in block.names : Name(names) = {}
          /\ AllShown = {} <=> \A n \in block.shown : Shown(n) = {}
        OBVIOUS
    <2> HIDE DEF Names, AllShown
    <2>6. VerifyBlock(block, run) = {} <=> Hidden = {} /\ Unmeasured = {} /\ Names = {} /\ AllShown = {}
        BY <2>2
    <2> QED
        BY <2>1, <2>3, <2>4, <2>5, <2>6
<1>2. VerifySuppression(expected, run) = {} <=>
          \A block \in expected.suppression : VerifyBlock(block, run) = {}
    BY DEF VerifySuppression
<1> QED
    BY <1>1, <1>2

LEMMA NothingFails ==
    ASSUME NEW run, NEW other, NEW manifest, manifest = ManifestOf(run)
    PROVE  Failures(manifest, other) = {} <=>
               /\ manifest.phase = other.phase /\ manifest.readiness = other.readiness
               /\ VerifyStates(manifest, other.alerts) = {}
               /\ \A s \in SCHEMAS :
                      LET expected == ManifestOfSchema(run, s)
                      IN  /\ expected.identities = Cardinality(AlertsOf(other.alerts, s))
                          /\ VerifyTotals(s, expected, DaysOf(other.daily, s)) = {}
                          /\ VerifyDays(s, expected, DaysOf(other.daily, s)) = {}
                          /\ VerifyRules(s, expected, CountsOf(other.counts, s)) = {}
                          /\ VerifyAlerts(s, expected, AlertsOf(other.alerts, s)) = {}
               /\ VerifySuppression(manifest, other) = {}
               /\ VerifyCsv(other) = {}
               /\ VerifyWindow(manifest, other) = {}
<1>1. DOMAIN manifest.schemas = SCHEMAS /\ \A s \in SCHEMAS : manifest.schemas[s] = ManifestOfSchema(run, s)
    BY DEF ManifestOf
<1> DEFINE Of(s) == Equal(<<"identities", s>>, manifest.schemas[s].identities,
                          Cardinality(AlertsOf(other.alerts, s)))
                    \union VerifyTotals(s, manifest.schemas[s], DaysOf(other.daily, s))
                    \union VerifyDays(s, manifest.schemas[s], DaysOf(other.daily, s))
                    \union VerifyRules(s, manifest.schemas[s], CountsOf(other.counts, s))
                    \union VerifyAlerts(s, manifest.schemas[s], AlertsOf(other.alerts, s))
           All == UNION {Of(s) : s \in DOMAIN manifest.schemas}
           X == Equal(<<"phase_derived">>, manifest.phase, other.phase)
           Y == Equal(<<"phase2_readiness_pct">>, manifest.readiness, other.readiness)
<1>2. VerifyTeam(manifest, other) = X \union Y \union VerifyStates(manifest, other.alerts)
                                        \union All \union VerifySuppression(manifest, other)
    BY DEF VerifyTeam
<1>3. \A s : Of(s) = {} <=>
          /\ manifest.schemas[s].identities = Cardinality(AlertsOf(other.alerts, s))
          /\ VerifyTotals(s, manifest.schemas[s], DaysOf(other.daily, s)) = {}
          /\ VerifyDays(s, manifest.schemas[s], DaysOf(other.daily, s)) = {}
          /\ VerifyRules(s, manifest.schemas[s], CountsOf(other.counts, s)) = {}
          /\ VerifyAlerts(s, manifest.schemas[s], AlertsOf(other.alerts, s)) = {}
    BY NoFailure
<1> HIDE DEF Of
<1>4. All = {} <=> \A s \in SCHEMAS : Of(s) = {}
    BY <1>1
<1>5. (X = {} <=> manifest.phase = other.phase) /\ (Y = {} <=> manifest.readiness = other.readiness)
    BY NoFailure
<1> HIDE DEF All, X, Y
<1>6. VerifyTeam(manifest, other) = {} <=>
          /\ manifest.phase = other.phase /\ manifest.readiness = other.readiness
          /\ VerifyStates(manifest, other.alerts) = {}
          /\ \A s \in SCHEMAS : Of(s) = {}
          /\ VerifySuppression(manifest, other) = {}
    BY <1>2, <1>4, <1>5
<1>7. Failures(manifest, other) = {} <=>
          /\ VerifyTeam(manifest, other) = {} /\ VerifyCsv(other) = {}
          /\ VerifyWindow(manifest, other) = {}
    BY DEF Failures
<1> QED
    BY <1>1, <1>3, <1>7, <1>6

-------------------------------------------------------------------------------
(* Alerts counted state by state.                                          *)

LEMMA StatesAddUp ==
    ASSUME NEW alerts, IsFiniteSet(alerts), NEW states, IsFiniteSet(DOMAIN states),
           \A q \in DOMAIN states : states[q] = Cardinality(InState(alerts, q))
    PROVE  ListedTotal(states) = Cardinality({a \in alerts : a.state \in DOMAIN states})
<1> DEFINE S == DOMAIN states
           In(T) == {a \in alerts : a.state \in T}
           k == CHOOSE g : g = [T \in SUBSET S |->
                    IF T = {} THEN 0 ELSE states[CHOOSE x \in T : TRUE]
                                              + g[T \ {CHOOSE x \in T : TRUE}]]
<1>1. ListedTotal(states) = k[S]
    BY DEF ListedTotal, MapThenSumSet, MapThenFoldSet
<1>2. PICK g : IsSum(g, states, S)
    BY SumsExist
<1>3. g = [T \in SUBSET S |->
              IF T = {} THEN 0 ELSE states[CHOOSE x \in T : TRUE]
                                        + g[T \ {CHOOSE x \in T : TRUE}]]
    BY <1>2 DEF IsSum, Summed, PickOf
<1>4. k = [T \in SUBSET S |->
              IF T = {} THEN 0 ELSE states[CHOOSE x \in T : TRUE]
                                        + k[T \ {CHOOSE x \in T : TRUE}]]
    BY <1>3
<1> HIDE DEF k
<1>5. IsSum(k, states, S)
    BY <1>4 DEF IsSum, Summed, PickOf
<1>6. \A T \in SUBSET S : k[T] = Summed(k, states, T)
    BY <1>5 DEF IsSum
<1>7. \A T : IsFiniteSet(In(T)) /\ Cardinality(In(T)) \in Nat
    BY FS_Subset, FS_CardinalityType
<1>8. ASSUME NEW T \in SUBSET S, T # {}
      PROVE  Cardinality(In(T)) = states[PickOf(T)] + Cardinality(In(T \ {PickOf(T)})) /\ PickOf(T) \in T
    <2>1. PickOf(T) \in T
        BY <1>8 DEF PickOf
    <2>2. PICK x \in T : x = PickOf(T)
        BY <2>1
    <2>3. In(T) = InState(alerts, x) \cup In(T \ {x}) /\ InState(alerts, x) \cap In(T \ {x}) = {}
        <3>1. \A a : a \in InState(alerts, x) <=> a \in alerts /\ a.state = x
            BY DEF InState
        <3>2. \A a : a \in In(T) <=> a \in alerts /\ a.state \in T
            OBVIOUS
        <3>3. \A a : a \in In(T \ {x}) <=> a \in alerts /\ a.state \in T /\ a.state # x
            OBVIOUS
        <3> HIDE DEF In
        <3> QED
            BY <3>1, <3>2, <3>3
    <2>4. IsFiniteSet(InState(alerts, x)) /\ Cardinality(InState(alerts, x)) \in Nat
        BY FS_Subset, FS_CardinalityType DEF InState
    <2> HIDE DEF In
    <2>5. Cardinality(In(T)) = Cardinality(InState(alerts, x)) + Cardinality(In(T \ {x})) - Cardinality({})
        <3>1. PICK A, B : A = InState(alerts, x) /\ B = In(T \ {x})
            OBVIOUS
        <3>2. IsFiniteSet(A) /\ IsFiniteSet(B) /\ In(T) = A \cup B /\ A \cap B = {}
            BY <1>7, <2>3, <2>4, <3>1
        <3>3. Cardinality(A \cup B) = Cardinality(A) + Cardinality(B) - Cardinality(A \cap B)
            BY <3>2, FS_Union
        <3> QED
            BY <3>1, <3>2, <3>3
    <2>6. Cardinality({}) = 0
        BY FS_EmptySet
    <2>7. states[x] = Cardinality(InState(alerts, x))
        OBVIOUS
    <2> QED
        BY <1>7, <2>1, <2>2, <2>4, <2>5, <2>6, <2>7
<1> DEFINE C == {T \in SUBSET S : k[T] # Cardinality(In(T))}
<1>9. C = {}
    <2> SUFFICES ASSUME C # {} PROVE FALSE
        OBVIOUS
    <2>1. PICK D : D = C
        OBVIOUS
    <2>2. D # {} /\ \A T \in D : IsFiniteSet(T)
        BY <2>1, FS_Subset
    <2> HIDE DEF C
    <2>3. PICK T \in D : \A U \in D : U \subseteq T => U = T
        BY <2>2, SmallestSet
    <2>4. T \in SUBSET S /\ k[T] # Cardinality(In(T)) /\ k[T] = Summed(k, states, T)
        BY <1>6, <2>1, <2>3 DEF C
    <2>5. T # {}
        <3> SUFFICES ASSUME T = {} PROVE FALSE
            OBVIOUS
        <3>1. In(T) = {} /\ Cardinality({}) = 0
            BY FS_EmptySet
        <3> HIDE DEF In
        <3> QED
            BY <2>4, <3>1 DEF Summed
    <2> HIDE DEF In
    <2>6. PickOf(T) \in T
        BY <1>8, <2>4, <2>5
    <2>7. T \ {PickOf(T)} \notin C /\ T \ {PickOf(T)} \in SUBSET S
        BY <2>1, <2>3, <2>4, <2>6
    <2>8. k[T \ {PickOf(T)}] = Cardinality(In(T \ {PickOf(T)}))
        BY <2>7 DEF C
    <2> QED
        BY <1>8, <2>4, <2>5, <2>8 DEF Summed
<1>10. k[S] = Cardinality(In(S))
    BY <1>9
<1> QED
    BY <1>1, <1>10

-------------------------------------------------------------------------------
(* What the manifest of a run lists.                                       *)

LEMMA ManifestSays ==
    ASSUME NEW run, NEW m, m = ManifestOf(run)
    PROVE  /\ m.phase = run.phase /\ m.readiness = run.readiness
           /\ DOMAIN m.states = {a.state : a \in run.alerts}
           /\ \A q \in DOMAIN m.states : m.states[q] = Cardinality(InState(run.alerts, q))
           /\ m.suppression = IF Suppresses(run) THEN {BlockOf(run)} ELSE {}
           /\ m.buckets = Cardinality(DaysOf(run.daily, "v1"))
           /\ m.covered = Total("covered", DaysOf(run.daily, "v1"))
    BY DEF ManifestOf

\* What a manifest lists of the days, and of the alerts, of one schema.
ListsDays(x, days) ==
    /\ DOMAIN x.totals = SUM_FIELDS /\ \A f \in SUM_FIELDS : x.totals[f] = Total(f, days)
    /\ DOMAIN x.measures = NULLABLE_FIELDS
    /\ \A f \in NULLABLE_FIELDS : x.measures[f] = NullableSum(days, f)
    /\ \A n : n \in DOMAIN x.daily <=> \E d \in days : d.day = n /\ IsListed(d)
    /\ \A n \in DOMAIN x.daily : x.daily[n] = Columns(CHOOSE d \in {e \in days : e.day = n} : TRUE)

ListsAlerts(x, mine) ==
    /\ x.identities = Cardinality(mine)
    /\ \A k : k \in DOMAIN x.worklist <=> \E a \in mine : k = a.key_field
    /\ \A k \in DOMAIN x.worklist :
           x.worklist[k] = Values(CHOOSE a \in {b \in mine : b.key_field = k} : TRUE)

LEMMA SchemaSays ==
    ASSUME NEW run, NEW s, NEW x, x = ManifestOfSchema(run, s),
           NEW days, days = DaysOf(run.daily, s), NEW counts, counts = CountsOf(run.counts, s),
           NEW mine, mine = AlertsOf(run.alerts, s)
    PROVE  /\ ListsDays(x, days)
           /\ \A k : k \in DOMAIN x.rules <=> \E c \in counts : k = <<c.day, c.rule>>
           /\ \A k \in DOMAIN x.rules : x.rules[k] = Pair(counts, k[1], k[2])
           /\ ListsAlerts(x, mine)
<1>1. /\ x.identities = Cardinality(mine)
      /\ x.totals = [f \in SUM_FIELDS |-> Total(f, days)]
      /\ x.measures = [f \in NULLABLE_FIELDS |-> NullableSum(days, f)]
      /\ x.daily = [n \in {d.day : d \in {e \in days : IsListed(e)}} |->
             Columns(CHOOSE d \in {e \in days : e.day = n} : TRUE)]
      /\ x.rules = [k \in {<<c.day, c.rule>> : c \in counts} |-> Pair(counts, k[1], k[2])]
      /\ x.worklist = [k \in {a.key_field : a \in mine} |->
             Values(CHOOSE a \in {b \in mine : b.key_field = k} : TRUE)]
    BY DEF ManifestOfSchema
<1>2. DOMAIN x.totals = SUM_FIELDS /\ \A f \in SUM_FIELDS : x.totals[f] = Total(f, days)
    BY <1>1
<1>3. /\ DOMAIN x.measures = NULLABLE_FIELDS
      /\ \A f \in NULLABLE_FIELDS : x.measures[f] = NullableSum(days, f)
    BY <1>1
<1>4. \A n : n \in DOMAIN x.daily <=> \E d \in days : d.day = n /\ IsListed(d)
    BY <1>1
<1>5. \A n \in DOMAIN x.daily :
          x.daily[n] = Columns(CHOOSE d \in {e \in days : e.day = n} : TRUE)
    BY <1>1
<1>6. \A k : k \in DOMAIN x.rules <=> \E c \in counts : k = <<c.day, c.rule>>
    BY <1>1
<1>7. \A k \in DOMAIN x.rules : x.rules[k] = Pair(counts, k[1], k[2])
    BY <1>1
<1>8. \A k : k \in DOMAIN x.worklist <=> \E a \in mine : k = a.key_field
    BY <1>1
<1>9. \A k \in DOMAIN x.worklist :
          x.worklist[k] = Values(CHOOSE a \in {b \in mine : b.key_field = k} : TRUE)
    BY <1>1
<1>10. ListsDays(x, days)
    BY <1>2, <1>3, <1>4, <1>5 DEF ListsDays
<1>11. ListsAlerts(x, mine)
    BY <1>1, <1>8, <1>9 DEF ListsAlerts
<1> QED
    BY <1>6, <1>7, <1>10, <1>11

LEMMA AllStatesAddUp ==
    ASSUME NEW alerts, IsFiniteSet(alerts), NEW states, DOMAIN states = {a.state : a \in alerts},
           \A q \in DOMAIN states : states[q] = Cardinality(InState(alerts, q))
    PROVE  IsFiniteSet(DOMAIN states) /\ ListedTotal(states) = Cardinality(alerts)
<1> DEFINE f == [a \in alerts |-> a.state]
<1>1. IsFiniteSet({f[a] : a \in alerts})
    <2> HIDE DEF f
    <2> QED
        BY ImageIsFinite
<1>2. {f[a] : a \in alerts} = DOMAIN states
    OBVIOUS
<1> HIDE DEF f
<1>3. IsFiniteSet(DOMAIN states)
    BY <1>1, <1>2
<1>4. ListedTotal(states) = Cardinality({a \in alerts : a.state \in DOMAIN states})
    BY <1>3, StatesAddUp
<1>5. {a \in alerts : a.state \in DOMAIN states} = alerts
    OBVIOUS
<1> QED
    BY <1>3, <1>4, <1>5

-------------------------------------------------------------------------------
(* What it means that a part of the check accepts another run: the rows of *)
(* the two agree in it.                                                    *)

LEMMA StatesAgree ==
    ASSUME NEW alerts, IsFiniteSet(alerts), \A a \in alerts : a.state \in STATES,
           NEW others, IsFiniteSet(others), \A a \in others : a.state \in STATES,
           NEW expected, DOMAIN expected.states = {a.state : a \in alerts},
           \A q \in DOMAIN expected.states : expected.states[q] = Cardinality(InState(alerts, q))
    PROVE  VerifyStates(expected, others) = {} <=>
               \A q \in STATES : Cardinality(InState(alerts, q)) = Cardinality(InState(others, q))
<1>1. PICK states : states = expected.states
    OBVIOUS
<1> DEFINE U == {a \in others : a.state \in DOMAIN states}
<1>2. IsFiniteSet(DOMAIN states)
    BY <1>1, AllStatesAddUp
<1>3. VerifyStates(expected, others) = {} <=>
          /\ \A q \in DOMAIN states : states[q] = Cardinality(InState(others, q))
          /\ ListedTotal(states) = Cardinality(others)
    BY <1>1, NoStateFails
<1>4. (\A q \in DOMAIN states : states[q] = Cardinality(InState(others, q)))
          => ListedTotal(states) = Cardinality(U)
    BY <1>2, StatesAddUp
<1>5. ASSUME VerifyStates(expected, others) = {}, NEW q \in STATES
      PROVE  Cardinality(InState(alerts, q)) = Cardinality(InState(others, q))
    <2>1. U \subseteq others /\ Cardinality(U) = Cardinality(others)
        BY <1>3, <1>4, <1>5
    <2>2. Cardinality(others) \in Nat
        BY FS_CardinalityType
    <2>3. U = others
        <3> HIDE DEF U
        <3>1. ~(Cardinality(U) < Cardinality(others))
            BY <2>1, <2>2
        <3> QED
            BY <2>1, <3>1, SmallerPart
    <2>4. q \notin DOMAIN states => InState(alerts, q) = {} /\ InState(others, q) = {}
        BY <1>1, <2>3 DEF InState
    <2> HIDE DEF U
    <2> QED
        BY <1>1, <1>3, <1>5, <2>4
<1>6. ASSUME \A q \in STATES : Cardinality(InState(alerts, q)) = Cardinality(InState(others, q))
      PROVE  VerifyStates(expected, others) = {}
    <2>1. \A q \in DOMAIN states : q \in STATES
        BY <1>1
    <2>2. \A q \in DOMAIN states : states[q] = Cardinality(InState(others, q))
        BY <1>1, <1>6, <2>1
    <2>3. ASSUME NEW b \in others PROVE b.state \in DOMAIN states
        <3>1. PICK q \in STATES : q = b.state
            OBVIOUS
        <3>2. IsFiniteSet(InState(others, q)) /\ InState(others, q) # {}
            BY <3>1, FS_Subset DEF InState
        <3>3. Cardinality(InState(others, q)) # 0
            BY <3>2, FS_EmptySet
        <3>4. Cardinality({}) = 0
            BY FS_EmptySet
        <3>5. InState(alerts, q) # {}
            BY <1>6, <3>3, <3>4
        <3> QED
            BY <1>1, <3>1, <3>5 DEF InState
    <2>4. U = others
        BY <2>3
    <2> QED
        BY <1>3, <1>4, <2>2, <2>4
<1> QED
    BY <1>5, <1>6

LEMMA DaysAgree ==
    ASSUME NEW s, NEW days, \A d, e \in days : d.day = e.day => d = e,
           NEW others, \A d, e \in others : d.day = e.day => d = e,
           NEW x, ListsDays(x, days)
    PROVE  VerifyTotals(s, x, others) = {} /\ VerifyDays(s, x, others) = {} <=> SameDays(days, others)
<1> DEFINE Sums == /\ \A f \in SUM_FIELDS : Total(f, days) = Total(f, others)
                   /\ \A f \in NULLABLE_FIELDS : NullableSum(days, f) = NullableSum(others, f)
           Told == \A d \in days : IsListed(d) =>
                       \E e \in others : e.day = d.day /\ Columns(e) = Columns(d)
           Rest == \A e \in others : \/ \E d \in days : d.day = e.day /\ IsListed(d)
                                     \/ e.alerts = 0 /\ e.flagged_by_rule = 0
           There == \A n \in DOMAIN x.daily :
                        /\ {d \in others : d.day = n} # {}
                        /\ \A f \in DOMAIN x.daily[n] :
                               x.daily[n][f] = (CHOOSE d \in {d \in others : d.day = n} : TRUE)[f]
           Zero == \A d \in others : d.day \notin DOMAIN x.daily => d.alerts = 0 /\ d.flagged_by_rule = 0
<1>a. /\ DOMAIN x.totals = SUM_FIELDS /\ \A f \in SUM_FIELDS : x.totals[f] = Total(f, days)
      /\ DOMAIN x.measures = NULLABLE_FIELDS
      /\ \A f \in NULLABLE_FIELDS : x.measures[f] = NullableSum(days, f)
    BY DEF ListsDays
<1>b. /\ \A n : n \in DOMAIN x.daily <=> \E d \in days : d.day = n /\ IsListed(d)
      /\ \A n \in DOMAIN x.daily :
             x.daily[n] = Columns(CHOOSE d \in {e \in days : e.day = n} : TRUE)
    BY DEF ListsDays
<1>1. VerifyTotals(s, x, others) = {} <=> Sums
    BY <1>a, NoTotalFails
<1>2. VerifyDays(s, x, others) = {} <=> There /\ Zero
    BY NoDayFails
<1>3. Zero <=> Rest
    BY <1>b
<1>4. ASSUME NEW d \in days, IsListed(d), NEW e \in others, e.day = d.day
      PROVE  /\ {c \in others : c.day = d.day} = {e}
             /\ d.day \in DOMAIN x.daily
             /\ x.daily[d.day] = Columns(d)
    <2>1. {c \in others : c.day = d.day} = {e}
        BY <1>4
    <2>2. {c \in days : c.day = d.day} = {d}
        OBVIOUS
    <2>3. d.day \in DOMAIN x.daily
        BY <1>4, <1>b
    <2>4. (CHOOSE c \in {c \in days : c.day = d.day} : TRUE) = d
        BY <2>2
    <2> QED
        BY <1>b, <2>1, <2>3, <2>4
<1>5. ASSUME There, NEW d \in days, IsListed(d)
      PROVE  \E e \in others : e.day = d.day /\ Columns(e) = Columns(d)
    <2>1. d.day \in DOMAIN x.daily
        BY <1>5, <1>b
    <2>2. PICK e \in others : e.day = d.day
        BY <1>5, <2>1
    <2>3. {c \in others : c.day = d.day} = {e} /\ x.daily[d.day] = Columns(d)
        BY <1>4, <1>5, <2>2
    <2>4. (CHOOSE c \in {c \in others : c.day = d.day} : TRUE) = e
        BY <2>3
    <2>5. \A f \in DOMAIN Columns(d) : Columns(d)[f] = e[f]
        BY <1>5, <2>1, <2>3, <2>4
    <2>6. Columns(e) = Columns(d)
        BY <2>5 DEF Columns
    <2> QED
        BY <2>2, <2>6
<1>6. ASSUME Told, NEW n \in DOMAIN x.daily
      PROVE  /\ {d \in others : d.day = n} # {}
             /\ \A f \in DOMAIN x.daily[n] :
                    x.daily[n][f] = (CHOOSE d \in {d \in others : d.day = n} : TRUE)[f]
    <2>1. PICK d \in days : d.day = n /\ IsListed(d)
        BY <1>6, <1>b
    <2>2. PICK e \in others : e.day = d.day /\ Columns(e) = Columns(d)
        BY <1>6, <2>1
    <2>3. {c \in others : c.day = n} = {e} /\ x.daily[n] = Columns(e)
        BY <1>4, <2>1, <2>2
    <2>4. (CHOOSE c \in {c \in others : c.day = n} : TRUE) = e
        BY <2>3
    <2>5. \A f \in DOMAIN Columns(e) : Columns(e)[f] = e[f]
        BY DEF Columns
    <2> QED
        BY <2>3, <2>4, <2>5
<1>7. There <=> Told
    <2> HIDE DEF Sums, Rest, Zero
    <2> QED
        BY <1>5, <1>6
<1>8. SameDays(days, others) <=> Told /\ Rest /\ Sums
    BY DEF SameDays
<1> HIDE DEF Sums, Told, Rest, There, Zero
<1> QED
    BY <1>1, <1>2, <1>3, <1>7, <1>8

LEMMA CountsAgree ==
    ASSUME NEW s, NEW counts, \A c, e \in counts : c.day = e.day /\ c.rule = e.rule => c = e,
           NEW others, \A c, e \in others : c.day = e.day /\ c.rule = e.rule => c = e,
           NEW x, \A k : k \in DOMAIN x.rules <=> \E c \in counts : k = <<c.day, c.rule>>,
           \A k \in DOMAIN x.rules : x.rules[k] = Pair(counts, k[1], k[2])
    PROVE  VerifyRules(s, x, others) = {} <=> SameRules(counts, others)
<1> DEFINE Row(c) == <<c.day, c.rule, c.match_count, c.distinct_count>>
<1>1. ASSUME NEW T, \A c, e \in T : c.day = e.day /\ c.rule = e.rule => c = e, NEW c \in T
      PROVE  Pair(T, c.day, c.rule) = <<c.match_count, c.distinct_count>>
    <2>1. {e \in T : e.day = c.day /\ e.rule = c.rule} = {c}
        BY <1>1
    <2> QED
        BY <2>1 DEF Pair
<1>2. \A y, z : <<y, z>> # <<>>
    <2> TAKE y, z
    <2>1. Len(<<y, z>>) = 2 /\ Len(<<>>) = 0
        OBVIOUS
    <2> QED
        BY <2>1
<1>3. VerifyRules(s, x, others) = {} <=>
          /\ \A c \in counts : Pair(others, c.day, c.rule) = <<c.match_count, c.distinct_count>>
          /\ \A e \in others : \E c \in counts : c.day = e.day /\ c.rule = e.rule
    <2>1. ASSUME NEW c \in counts
          PROVE  /\ <<c.day, c.rule>> \in DOMAIN x.rules
                 /\ x.rules[<<c.day, c.rule>>] = <<c.match_count, c.distinct_count>>
                 /\ <<c.day, c.rule>>[1] = c.day /\ <<c.day, c.rule>>[2] = c.rule
        <3>1. <<c.day, c.rule>>[1] = c.day /\ <<c.day, c.rule>>[2] = c.rule
            OBVIOUS
        <3>2. <<c.day, c.rule>> \in DOMAIN x.rules
            OBVIOUS
        <3>3. Pair(counts, c.day, c.rule) = <<c.match_count, c.distinct_count>>
            BY <1>1
        <3> QED
            BY <3>1, <3>2, <3>3
    <2>2. (\A k \in DOMAIN x.rules : x.rules[k] = Pair(others, k[1], k[2])) <=>
              \A c \in counts : Pair(others, c.day, c.rule) = <<c.match_count, c.distinct_count>>
        <3>1. ASSUME \A k \in DOMAIN x.rules : x.rules[k] = Pair(others, k[1], k[2]), NEW c \in counts
              PROVE  Pair(others, c.day, c.rule) = <<c.match_count, c.distinct_count>>
            <4>1. PICK k \in DOMAIN x.rules : k = <<c.day, c.rule>>
                BY <2>1
            <4> QED
                BY <2>1, <3>1, <4>1
        <3>2. ASSUME \A c \in counts : Pair(others, c.day, c.rule) = <<c.match_count, c.distinct_count>>,
                     NEW k \in DOMAIN x.rules
              PROVE  x.rules[k] = Pair(others, k[1], k[2])
            <4>1. PICK c \in counts : k = <<c.day, c.rule>>
                OBVIOUS
            <4> QED
                BY <2>1, <3>2, <4>1
        <3> QED
            BY <3>1, <3>2
    <2>3. (\A e \in others : <<e.day, e.rule>> \in DOMAIN x.rules) <=>
              \A e \in others : \E c \in counts : c.day = e.day /\ c.rule = e.rule
        <3>1. \A e, c : <<e.day, e.rule>> = <<c.day, c.rule>> <=> c.day = e.day /\ c.rule = e.rule
            OBVIOUS
        <3> QED
            BY <3>1
    <2> QED
        BY <2>2, <2>3, NoRuleFails
<1>4. ASSUME NEW c, NEW e
      PROVE  Row(c) = Row(e) <=> /\ c.day = e.day /\ c.rule = e.rule
                                 /\ <<c.match_count, c.distinct_count>> = <<e.match_count, e.distinct_count>>
    OBVIOUS
<1>5. ASSUME NEW c \in counts,
             Pair(others, c.day, c.rule) = <<c.match_count, c.distinct_count>>
      PROVE  \E e \in others : Row(c) = Row(e)
    <2>1. {e \in others : e.day = c.day /\ e.rule = c.rule} # {}
        BY <1>2, <1>5 DEF Pair
    <2>2. PICK e \in others : e.day = c.day /\ e.rule = c.rule
        BY <2>1
    <2>3. Pair(others, e.day, e.rule) = <<e.match_count, e.distinct_count>>
        BY <1>1
    <2> HIDE DEF Row
    <2> QED
        BY <1>4, <1>5, <2>2, <2>3
<1>6. ASSUME NEW c \in counts, NEW e \in others, Row(c) = Row(e)
      PROVE  Pair(others, c.day, c.rule) = <<c.match_count, c.distinct_count>>
    <2>1. Pair(others, e.day, e.rule) = <<e.match_count, e.distinct_count>>
        BY <1>1
    <2>2. /\ c.day = e.day /\ c.rule = e.rule
          /\ <<c.match_count, c.distinct_count>> = <<e.match_count, e.distinct_count>>
        BY <1>4, <1>6
    <2> QED
        BY <2>1, <2>2
<1>7. SameRules(counts, others) <=>
          (\A c \in counts : \E e \in others : Row(c) = Row(e))
          /\ (\A e \in others : \E c \in counts : Row(c) = Row(e))
    <2>1. SameRules(counts, others) <=> {Row(c) : c \in counts} = {Row(c) : c \in others}
        BY DEF SameRules
    <2> HIDE DEF Row
    <2> QED
        BY <2>1
<1> HIDE DEF Row
<1>8. ASSUME VerifyRules(s, x, others) = {} PROVE SameRules(counts, others)
    <2>1. \A c \in counts : \E e \in others : Row(c) = Row(e)
        BY <1>3, <1>5, <1>8
    <2>2. ASSUME NEW e \in others PROVE \E c \in counts : Row(c) = Row(e)
        <3>1. PICK c \in counts : c.day = e.day /\ c.rule = e.rule
            BY <1>3, <1>8
        <3>2. PICK d \in others : Row(c) = Row(d)
            BY <2>1
        <3>3. d.day = e.day /\ d.rule = e.rule
            BY <1>4, <3>1, <3>2
        <3> QED
            BY <3>2, <3>3
    <2> QED
        BY <1>7, <2>1, <2>2
<1>9. ASSUME SameRules(counts, others) PROVE VerifyRules(s, x, others) = {}
    <2>1. \A c \in counts : Pair(others, c.day, c.rule) = <<c.match_count, c.distinct_count>>
        BY <1>6, <1>7, <1>9
    <2>2. \A e \in others : \E c \in counts : c.day = e.day /\ c.rule = e.rule
        BY <1>4, <1>7, <1>9
    <2> QED
        BY <1>3, <2>1, <2>2
<1> QED
    BY <1>8, <1>9

\* A manifest names every alert of the run once, and counts them: there is no
\* room for an alert it does not name.
LEMMA AlertsAgree ==
    ASSUME NEW s, NEW mine, IsFiniteSet(mine), \A a, b \in mine : a.key_field = b.key_field => a = b,
           NEW theirs, IsFiniteSet(theirs),
           NEW x, ListsAlerts(x, mine)
    PROVE  x.identities = Cardinality(theirs) /\ VerifyAlerts(s, x, theirs) = {}
               <=> SameAlerts(mine, theirs)
<1> DEFINE Found(k) == {b \in theirs : b.key_field = k}
           g == [a \in mine |-> CHOOSE b \in Found(a.key_field) : TRUE]
<1>1. ASSUME NEW a \in mine
      PROVE  a.key_field \in DOMAIN x.worklist /\ x.worklist[a.key_field] = Values(a)
    <2>1. {b \in mine : b.key_field = a.key_field} = {a}
        OBVIOUS
    <2>2. (CHOOSE b \in {b \in mine : b.key_field = a.key_field} : TRUE) = a
        BY <2>1
    <2>3. a.key_field \in DOMAIN x.worklist
        BY DEF ListsAlerts
    <2>4. x.worklist[a.key_field] = Values(CHOOSE b \in {b \in mine : b.key_field = a.key_field} : TRUE)
        BY <2>3 DEF ListsAlerts
    <2> QED
        BY <2>2, <2>3, <2>4
<1>2. \A a : DOMAIN Values(a) = ALERT_FIELDS /\ \A f \in ALERT_FIELDS : Values(a)[f] = a[f]
    BY DEF Values
<1>3. \A a, b : Values(a) = Values(b) <=> \A f \in ALERT_FIELDS : a[f] = b[f]
    BY DEF Values
<1>4. VerifyAlerts(s, x, theirs) = {} <=>
          \A a \in mine : Found(a.key_field) # {} /\ Values(g[a]) = Values(a)
    <2>1. VerifyAlerts(s, x, theirs) = {} <=>
              \A k \in DOMAIN x.worklist :
                  /\ Found(k) # {}
                  /\ \A f \in DOMAIN x.worklist[k] : x.worklist[k][f] = (CHOOSE b \in Found(k) : TRUE)[f]
        BY NoAlertFails
    <2>2. \A a \in mine : g[a] = CHOOSE b \in Found(a.key_field) : TRUE
        OBVIOUS
    <2> HIDE DEF Found, g
    <2>3. VerifyAlerts(s, x, theirs) = {} <=>
              \A a \in mine :
                  /\ Found(a.key_field) # {}
                  /\ \A f \in DOMAIN x.worklist[a.key_field] : x.worklist[a.key_field][f] = g[a][f]
        <3>1. \A a \in mine : a.key_field \in DOMAIN x.worklist
            BY <1>1
        <3>2. \A k \in DOMAIN x.worklist : \E a \in mine : k = a.key_field
            BY DEF ListsAlerts
        <3> DEFINE First(k) == CHOOSE b \in Found(k) : TRUE
                   Holds(k, b) == /\ Found(k) # {}
                                  /\ \A f \in DOMAIN x.worklist[k] : x.worklist[k][f] = b[f]
        <3>3. VerifyAlerts(s, x, theirs) = {} <=> \A k \in DOMAIN x.worklist : Holds(k, First(k))
            BY <2>1
        <3>4. \A a \in mine : First(a.key_field) = g[a]
            BY <2>2
        <3> HIDE DEF First
        <3>5. VerifyAlerts(s, x, theirs) = {} <=> \A a \in mine : Holds(a.key_field, g[a])
            <4>1. ASSUME VerifyAlerts(s, x, theirs) = {}, NEW a \in mine PROVE Holds(a.key_field, g[a])
                <5>1. Holds(a.key_field, First(a.key_field))
                    BY <3>1, <3>3, <4>1
                <5> HIDE DEF Holds
                <5> QED
                    BY <3>4, <5>1
            <4>2. ASSUME \A a \in mine : Holds(a.key_field, g[a]), NEW k \in DOMAIN x.worklist
                  PROVE  Holds(k, First(k))
                <5>1. PICK a \in mine : k = a.key_field
                    BY <3>2
                <5>2. Holds(a.key_field, First(a.key_field))
                    <6> HIDE DEF Holds
                    <6> QED
                        BY <3>4, <4>2
                <5> HIDE DEF Holds
                <5> QED
                    BY <5>1, <5>2
            <4> HIDE DEF Holds
            <4> QED
                BY <3>3, <4>1, <4>2
        <3> QED
            BY <3>5
    <2>4. ASSUME NEW a \in mine
          PROVE  (\A f \in DOMAIN x.worklist[a.key_field] : x.worklist[a.key_field][f] = g[a][f])
                     <=> Values(g[a]) = Values(a)
        BY <1>1, <1>2, <1>3
    <2> QED
        BY <2>3, <2>4
<1>5. \A a \in mine : Found(a.key_field) # {} => g[a] \in theirs /\ g[a].key_field = a.key_field
    <2> TAKE a \in mine
    <2>1. g[a] = CHOOSE b \in Found(a.key_field) : TRUE
        OBVIOUS
    <2>2. Found(a.key_field) # {} => g[a] \in Found(a.key_field)
        BY <2>1
    <2> HIDE DEF g
    <2> QED
        BY <2>2
<1>6. DOMAIN g = mine /\ \A a \in mine : g[a] = g[a]
    OBVIOUS
<1>7. (\A a \in mine : g[a] \in theirs) => g \in [mine -> theirs]
    OBVIOUS
<1> HIDE DEF Found, g
<1> DEFINE Entry(a) == <<a.key_field, Values(a)>>
<1>8. \A a, b : Entry(a) = Entry(b) <=> a.key_field = b.key_field /\ Values(a) = Values(b)
    OBVIOUS
<1>9. SameAlerts(mine, theirs) <=>
          /\ Cardinality(mine) = Cardinality(theirs)
          /\ \A a \in mine : \E b \in theirs : Entry(a) = Entry(b)
          /\ \A b \in theirs : \E a \in mine : Entry(a) = Entry(b)
    <2>1. SameAlerts(mine, theirs) <=>
              /\ Cardinality(mine) = Cardinality(theirs)
              /\ {Entry(a) : a \in mine} = {Entry(a) : a \in theirs}
        BY DEF SameAlerts
    <2> HIDE DEF Entry
    <2> QED
        BY <2>1
<1> HIDE DEF Entry
<1>a. x.identities = Cardinality(mine)
    BY DEF ListsAlerts
<1>10. ASSUME x.identities = Cardinality(theirs), VerifyAlerts(s, x, theirs) = {}
       PROVE  SameAlerts(mine, theirs)
    <2>1. \A a \in mine : g[a] \in theirs /\ g[a].key_field = a.key_field /\ Values(g[a]) = Values(a)
        BY <1>4, <1>5, <1>10
    <2>2. g \in Injection(mine, theirs)
        <3>1. \A a, b \in mine : g[a] = g[b] => a = b
            BY <2>1
        <3> QED
            BY <1>7, <2>1, <3>1 DEF Injection, IsInjective
    <2>3. g \in Surjection(mine, theirs)
        BY <1>10, <1>a, <2>2, FS_Injection
    <2>4. \A b \in theirs : \E a \in mine : b = g[a]
        BY <2>3 DEF Surjection
    <2>5. \A a \in mine : Entry(a) = Entry(g[a])
        BY <1>8, <2>1
    <2> QED
        BY <1>9, <1>10, <1>a, <2>1, <2>4, <2>5
<1>11. ASSUME SameAlerts(mine, theirs)
       PROVE  x.identities = Cardinality(theirs) /\ VerifyAlerts(s, x, theirs) = {}
    <2>1. ASSUME NEW a \in mine
          PROVE  Found(a.key_field) # {} /\ Values(g[a]) = Values(a)
        <3>1. PICK b \in theirs : Entry(a) = Entry(b)
            BY <1>9, <1>11
        <3>2. b \in Found(a.key_field)
            BY <1>8, <3>1 DEF Found
        <3>3. g[a] \in theirs /\ g[a].key_field = a.key_field
            BY <1>5, <3>2
        <3>4. PICK c \in mine : Entry(c) = Entry(g[a])
            BY <1>9, <1>11, <3>3
        <3>5. c = a
            BY <1>8, <3>3, <3>4
        <3> QED
            BY <1>8, <3>2, <3>4, <3>5
    <2> QED
        BY <1>4, <1>9, <1>11, <1>a, <2>1
<1> QED
    BY <1>10, <1>11

LEMMA SuppressionAgrees ==
    ASSUME NEW run, NEW m, m = ManifestOf(run), NEW other
    PROVE  VerifySuppression(m, other) = {} <=> SameSuppression(run, other)
<1>1. m.suppression = IF Suppresses(run) THEN {BlockOf(run)} ELSE {}
    BY ManifestSays
<1>2. PICK nodes, theirs : nodes = SuppressedNodes(run.alerts) /\ theirs = SuppressedNodes(other.alerts)
    OBVIOUS
<1>3. PICK block : block = BlockOf(run)
    OBVIOUS
<1>4. /\ block.rows = Total("suppressed", run.daily)
      /\ block.leaves = Total("unmeasured", run.daily)
      /\ block.names = IF DOMAIN nodes = {} THEN {} ELSE {nodes}
      /\ block.shown = {a.node : a \in run.alerts} \ DOMAIN nodes
    BY <1>2, <1>3 DEF BlockOf
<1>5. VerifySuppression(m, other) = {} <=>
          (Suppresses(run) =>
              /\ block.rows = Total("suppressed", other.daily)
              /\ block.leaves = Total("unmeasured", other.daily)
              /\ \A names \in block.names : names = theirs
              /\ \A n \in block.shown : n \notin DOMAIN theirs)
    <2>1. CASE Suppresses(run)
        <3>1. m.suppression = {block}
            BY <1>1, <1>3, <2>1
        <3> QED
            BY <1>2, <2>1, <3>1, NoSuppressionFails
    <2>2. CASE ~Suppresses(run)
        <3>1. m.suppression = {}
            BY <1>1, <2>2
        <3> QED
            BY <2>2, <3>1, NoSuppressionFails
    <2> QED
        BY <2>1, <2>2
<1>6. (\A names \in block.names : names = theirs) /\ (\A n \in block.shown : n \notin DOMAIN theirs)
          <=> IF DOMAIN nodes = {} THEN \A a \in run.alerts : a.node \notin DOMAIN theirs
              ELSE nodes = theirs
    <2>1. CASE DOMAIN nodes = {}
        <3>1. block.names = {} /\ block.shown = {a.node : a \in run.alerts}
            BY <1>4, <2>1
        <3> QED
            BY <2>1, <3>1
    <2>2. CASE DOMAIN nodes # {}
        <3>1. block.names = {nodes} /\ \A n \in block.shown : n \notin DOMAIN nodes
            BY <1>4, <2>2
        <3> QED
            BY <2>2, <3>1
    <2> QED
        BY <2>1, <2>2
<1>7. SameSuppression(run, other) <=>
          (Suppresses(run) =>
              /\ Total("suppressed", run.daily) = Total("suppressed", other.daily)
              /\ Total("unmeasured", run.daily) = Total("unmeasured", other.daily)
              /\ IF DOMAIN nodes = {} THEN \A a \in run.alerts : a.node \notin DOMAIN theirs
                 ELSE nodes = theirs)
    BY <1>2 DEF SameSuppression
<1> QED
    BY <1>4, <1>5, <1>6, <1>7

LEMMA CsvAgrees ==
    ASSUME NEW other,
           other.csv = [days |-> other.csv.days, alerts |-> other.csv.alerts, worklist |-> other.csv.worklist]
    PROVE  VerifyCsv(other) = {} <=> other.csv = ReportOf(other)
<1>1. VerifyCsv(other) = {} <=>
          /\ Cardinality(other.daily) = other.csv.days
          /\ Total("alerts", other.daily) = other.csv.alerts
          /\ Cardinality(other.alerts) = other.csv.worklist
    BY DEF VerifyCsv, Equal
<1>2. ReportOf(other) = [days |-> Cardinality(other.daily), alerts |-> Total("alerts", other.daily),
                         worklist |-> Cardinality(other.alerts)]
    BY DEF ReportOf
<1> QED
    BY <1>1, <1>2

LEMMA WindowAgrees ==
    ASSUME NEW run, NEW m, m = ManifestOf(run), NEW other
    PROVE  VerifyWindow(m, other) = {} <=>
               /\ Cardinality(DaysOf(run.daily, "v1")) = Cardinality(DaysOf(other.daily, "v1"))
               /\ Total("covered", DaysOf(run.daily, "v1")) = Total("covered", DaysOf(other.daily, "v1"))
<1>1. /\ m.buckets = Cardinality(DaysOf(run.daily, "v1"))
      /\ m.covered = Total("covered", DaysOf(run.daily, "v1"))
    BY ManifestSays
<1> QED
    BY <1>1 DEF VerifyWindow, Equal

\* The parts but for the single alerts, which a shared key_field may hide.
LEMMA PartsAgree ==
    ASSUME NEW run, IsStored(run), NEW other, IsStored(other), NEW m, m = ManifestOf(run)
    PROVE  /\ VerifyStates(m, other.alerts) = {} <=>
                  \A q \in STATES :
                      Cardinality(InState(run.alerts, q)) = Cardinality(InState(other.alerts, q))
           /\ \A s \in SCHEMAS :
                  LET x == ManifestOfSchema(run, s)
                  IN  /\ VerifyTotals(s, x, DaysOf(other.daily, s)) = {}
                         /\ VerifyDays(s, x, DaysOf(other.daily, s)) = {}
                             <=> SameDays(DaysOf(run.daily, s), DaysOf(other.daily, s))
                      /\ VerifyRules(s, x, CountsOf(other.counts, s)) = {}
                             <=> SameRules(CountsOf(run.counts, s), CountsOf(other.counts, s))
           /\ VerifyCsv(other) = {} <=> other.csv = ReportOf(other)
<1>1. VerifyStates(m, other.alerts) = {} <=>
          \A q \in STATES : Cardinality(InState(run.alerts, q)) = Cardinality(InState(other.alerts, q))
    <2>1. PICK alerts, others : alerts = run.alerts /\ others = other.alerts
        OBVIOUS
    <2>2. /\ IsFiniteSet(alerts) /\ \A a \in alerts : a.state \in STATES
          /\ IsFiniteSet(others) /\ \A a \in others : a.state \in STATES
        BY <2>1 DEF IsStored, StoredRun
    <2>3. /\ DOMAIN m.states = {a.state : a \in alerts}
          /\ \A q \in DOMAIN m.states : m.states[q] = Cardinality(InState(alerts, q))
        BY <2>1, ManifestSays
    <2>4. VerifyStates(m, others) = {} <=>
              \A q \in STATES : Cardinality(InState(alerts, q)) = Cardinality(InState(others, q))
        BY <2>2, <2>3, StatesAgree
    <2> QED
        BY <2>1, <2>4
<1>2. ASSUME NEW s \in SCHEMAS, NEW x, x = ManifestOfSchema(run, s)
      PROVE  /\ VerifyTotals(s, x, DaysOf(other.daily, s)) = {}
                /\ VerifyDays(s, x, DaysOf(other.daily, s)) = {}
                    <=> SameDays(DaysOf(run.daily, s), DaysOf(other.daily, s))
             /\ VerifyRules(s, x, CountsOf(other.counts, s)) = {}
                    <=> SameRules(CountsOf(run.counts, s), CountsOf(other.counts, s))
    <2>1. PICK days, others : days = DaysOf(run.daily, s) /\ others = DaysOf(other.daily, s)
        OBVIOUS
    <2>2. /\ \A d, e \in days : d.day = e.day => d = e
          /\ \A d, e \in others : d.day = e.day => d = e
        BY <2>1 DEF IsStored, DaysOf
    <2>3. PICK counts, more : counts = CountsOf(run.counts, s) /\ more = CountsOf(other.counts, s)
        OBVIOUS
    <2>4. /\ \A c, e \in counts : c.day = e.day /\ c.rule = e.rule => c = e
          /\ \A c, e \in more : c.day = e.day /\ c.rule = e.rule => c = e
        BY <2>3 DEF IsStored, CountsOf
    <2>5. ListsDays(x, days)
        BY <1>2, <2>1, SchemaSays
    <2>6. /\ \A k : k \in DOMAIN x.rules <=> \E c \in counts : k = <<c.day, c.rule>>
          /\ \A k \in DOMAIN x.rules : x.rules[k] = Pair(counts, k[1], k[2])
        BY <1>2, <2>3, SchemaSays
    <2>7. VerifyTotals(s, x, others) = {} /\ VerifyDays(s, x, others) = {} <=> SameDays(days, others)
        BY <2>2, <2>5, DaysAgree
    <2>8. VerifyRules(s, x, more) = {} <=> SameRules(counts, more)
        BY <2>4, <2>6, CountsAgree
    <2> QED
        BY <2>1, <2>3, <2>7, <2>8
<1>3. VerifyCsv(other) = {} <=> other.csv = ReportOf(other)
    BY CsvAgrees DEF IsStored
<1> QED
    BY <1>1, <1>2, <1>3

LEMMA AcceptedIsAgreement ==
    ASSUME NEW run, IsStored(run), NEW other, IsStored(other), KeysAreDistinct(run)
    PROVE  Failures(ManifestOf(run), other) = {} <=> AgreesWith(other, run)
<1>1. PICK m : m = ManifestOf(run)
    OBVIOUS
<1>2. ASSUME NEW s \in SCHEMAS, NEW x, x = ManifestOfSchema(run, s)
      PROVE  x.identities = Cardinality(AlertsOf(other.alerts, s))
             /\ VerifyAlerts(s, x, AlertsOf(other.alerts, s)) = {}
                 <=> SameAlerts(AlertsOf(run.alerts, s), AlertsOf(other.alerts, s))
    <2>1. PICK mine, theirs : mine = AlertsOf(run.alerts, s) /\ theirs = AlertsOf(other.alerts, s)
        OBVIOUS
    <2>2. IsFiniteSet(mine) /\ IsFiniteSet(theirs)
        BY <2>1, FS_Subset DEF IsStored, StoredRun, AlertsOf
    <2>3. \A a, b \in mine : a.key_field = b.key_field => a = b
        BY <2>1 DEF KeysAreDistinct, AlertsOf
    <2>4. ListsAlerts(x, mine)
        BY <1>2, <2>1, SchemaSays
    <2>5. x.identities = Cardinality(theirs) /\ VerifyAlerts(s, x, theirs) = {} <=> SameAlerts(mine, theirs)
        BY <2>2, <2>3, <2>4, AlertsAgree
    <2> QED
        BY <2>1, <2>5
<1> DEFINE Team(s) == LET x == ManifestOfSchema(run, s)
                      IN  /\ x.identities = Cardinality(AlertsOf(other.alerts, s))
                          /\ VerifyTotals(s, x, DaysOf(other.daily, s)) = {}
                          /\ VerifyDays(s, x, DaysOf(other.daily, s)) = {}
                          /\ VerifyRules(s, x, CountsOf(other.counts, s)) = {}
                          /\ VerifyAlerts(s, x, AlertsOf(other.alerts, s)) = {}
           Same(s) == /\ SameDays(DaysOf(run.daily, s), DaysOf(other.daily, s))
                      /\ SameRules(CountsOf(run.counts, s), CountsOf(other.counts, s))
                      /\ SameAlerts(AlertsOf(run.alerts, s), AlertsOf(other.alerts, s))
           States == \A q \in STATES :
                         Cardinality(InState(run.alerts, q)) = Cardinality(InState(other.alerts, q))
           Window == /\ Cardinality(DaysOf(run.daily, "v1")) = Cardinality(DaysOf(other.daily, "v1"))
                     /\ Total("covered", DaysOf(run.daily, "v1")) = Total("covered", DaysOf(other.daily, "v1"))
<1>3. Failures(m, other) = {} <=>
          /\ m.phase = other.phase /\ m.readiness = other.readiness
          /\ VerifyStates(m, other.alerts) = {}
          /\ \A s \in SCHEMAS : Team(s)
          /\ VerifySuppression(m, other) = {}
          /\ VerifyCsv(other) = {}
          /\ VerifyWindow(m, other) = {}
    BY <1>1, NothingFails
<1>4. ASSUME NEW s \in SCHEMAS PROVE Team(s) <=> Same(s)
    <2>1. PICK x : x = ManifestOfSchema(run, s)
        OBVIOUS
    <2>2. /\ VerifyTotals(s, x, DaysOf(other.daily, s)) = {} /\ VerifyDays(s, x, DaysOf(other.daily, s)) = {}
                 <=> SameDays(DaysOf(run.daily, s), DaysOf(other.daily, s))
          /\ VerifyRules(s, x, CountsOf(other.counts, s)) = {}
                 <=> SameRules(CountsOf(run.counts, s), CountsOf(other.counts, s))
        BY <1>1, <2>1, PartsAgree
    <2> QED
        BY <1>2, <2>1, <2>2
<1>5. VerifyStates(m, other.alerts) = {} <=> States
    BY <1>1, PartsAgree
<1>6. VerifyCsv(other) = {} <=> other.csv = ReportOf(other)
    BY <1>1, PartsAgree
<1>7. VerifySuppression(m, other) = {} <=> SameSuppression(run, other)
    BY <1>1, SuppressionAgrees
<1>8. VerifyWindow(m, other) = {} <=> Window
    BY <1>1, WindowAgrees
<1>9. m.phase = run.phase /\ m.readiness = run.readiness
    BY <1>1, ManifestSays
<1>10. AgreesWith(other, run) <=>
           /\ run.phase = other.phase /\ run.readiness = other.readiness
           /\ States
           /\ \A s \in SCHEMAS : Same(s)
           /\ SameSuppression(run, other)
           /\ Window
           /\ other.csv = ReportOf(other)
    BY DEF AgreesWith
<1> HIDE DEF Team, Same, States, Window
<1> QED
    BY <1>1, <1>3, <1>4, <1>5, <1>6, <1>7, <1>8, <1>9, <1>10

LEMMA AcceptsItself ==
    ASSUME NEW run, IsWritten(run)
    PROVE  Failures(ManifestOf(run), run) = {}
<1>1. PICK m : m = ManifestOf(run)
    OBVIOUS
<1>2. IsStored(run) /\ run.csv = ReportOf(run) /\ m.phase = run.phase /\ m.readiness = run.readiness
    BY <1>1, ManifestSays DEF IsWritten
<1>3. ASSUME NEW d \in run.daily PROVE IsListed(d) \/ (d.alerts = 0 /\ d.flagged_by_rule = 0)
    <2>1. {"alerts", "flagged_by_rule", "unmeasured"} \subseteq SUM_FIELDS
        BY DEF SUM_FIELDS
    <2>2. \A f \in SUM_FIELDS : d[f] \in Nat
        BY <1>2 DEF IsStored
    <2>3. d.alerts \in Nat /\ d.flagged_by_rule \in Nat
        BY <2>1, <2>2
    <2>4. d.flagged_by_rule <= d.alerts
        BY DEF IsWritten
    <2> QED
        BY <2>3, <2>4 DEF IsListed
<1>4. VerifyStates(m, run.alerts) = {} /\ VerifyCsv(run) = {}
    BY <1>1, <1>2, PartsAgree
<1>5. ASSUME NEW s \in SCHEMAS, NEW x, x = ManifestOfSchema(run, s)
      PROVE  /\ x.identities = Cardinality(AlertsOf(run.alerts, s))
             /\ VerifyTotals(s, x, DaysOf(run.daily, s)) = {}
             /\ VerifyDays(s, x, DaysOf(run.daily, s)) = {}
             /\ VerifyRules(s, x, CountsOf(run.counts, s)) = {}
             /\ VerifyAlerts(s, x, AlertsOf(run.alerts, s)) = {}
    <2>1. PICK days, counts, mine : /\ days = DaysOf(run.daily, s)
                                    /\ counts = CountsOf(run.counts, s)
                                    /\ mine = AlertsOf(run.alerts, s)
        OBVIOUS
    <2>2. SameDays(days, days)
        <3>1. \A d \in days : IsListed(d) \/ (d.alerts = 0 /\ d.flagged_by_rule = 0)
            BY <1>3, <2>1 DEF DaysOf
        <3> QED
            BY <3>1 DEF SameDays
    <2>3. SameRules(counts, counts)
        BY DEF SameRules
    <2>4. /\ VerifyTotals(s, x, days) = {} /\ VerifyDays(s, x, days) = {} <=> SameDays(days, days)
          /\ VerifyRules(s, x, counts) = {} <=> SameRules(counts, counts)
        BY <1>1, <1>2, <1>5, <2>1, PartsAgree
    <2>a. ListsAlerts(x, mine)
        BY <1>5, <2>1, SchemaSays
    <2>5. /\ x.identities = Cardinality(mine)
          /\ \A k : k \in DOMAIN x.worklist <=> \E a \in mine : k = a.key_field
          /\ \A k \in DOMAIN x.worklist :
                 x.worklist[k] = Values(CHOOSE a \in {b \in mine : b.key_field = k} : TRUE)
        BY <2>a DEF ListsAlerts
    <2>6. VerifyAlerts(s, x, mine) = {}
        <3>1. ASSUME NEW k \in DOMAIN x.worklist
              PROVE  /\ {a \in mine : a.key_field = k} # {}
                     /\ \A f \in DOMAIN x.worklist[k] :
                            x.worklist[k][f] = (CHOOSE a \in {a \in mine : a.key_field = k} : TRUE)[f]
            <4>1. PICK found : found = {a \in mine : a.key_field = k}
                OBVIOUS
            <4>2. found # {}
                BY <2>5, <4>1
            <4>3. PICK b : b = CHOOSE a \in found : TRUE
                OBVIOUS
            <4>4. x.worklist[k] = Values(b)
                BY <2>5, <4>1, <4>3
            <4>5. \A f \in DOMAIN Values(b) : Values(b)[f] = b[f]
                BY DEF Values
            <4> QED
                BY <4>1, <4>2, <4>3, <4>4, <4>5
        <3> QED
            BY <3>1, NoAlertFails
    <2> QED
        BY <2>1, <2>2, <2>3, <2>4, <2>5, <2>6
<1>6. VerifySuppression(m, run) = {}
    <2>1. PICK nodes : nodes = SuppressedNodes(run.alerts)
        OBVIOUS
    <2>2. SameSuppression(run, run)
        BY <2>1 DEF SameSuppression
    <2> QED
        BY <1>1, <2>2, SuppressionAgrees
<1>7. VerifyWindow(m, run) = {}
    BY <1>1, WindowAgrees
<1>8. Failures(m, run) = {}
    BY <1>1, <1>2, <1>4, <1>5, <1>6, <1>7, NothingFails
<1> QED
    BY <1>1, <1>8

\* The acceptance check passes the run its manifest was made of, and of the runs
\* that the tables can hold those, and only those, that agree with it in what the
\* manifest lists, whatever the runs are (src/run/verify.py).
THEOREM AcceptanceIsAgreement == Spec => []AcceptanceIsExact
<1>1. Init => desk \in Desks
    BY DEF Init
<1>2. desk \in Desks /\ [Next]_vars => (desk \in Desks)'
    BY DEF Next, Ask, Answered, Reading, Operating, deskVars, vars
<1>3. desk \in Desks => AcceptanceIsExact
    <2> SUFFICES ASSUME desk \in Desks, desk.kind = "manifest"
                 PROVE  AcceptsExactly(desk.run, desk.other)
        BY DEF AcceptanceIsExact
    <2>1. PICK run, other : run = desk.run /\ other = desk.other
        OBVIOUS
    <2>2. IsWritten(run) /\ IsStored(run) /\ IsStored(other)
        BY <2>1, ManifestsAssumption DEF IsWritten
    <2>3. run = other => Failures(ManifestOf(run), other) = {}
        BY <2>2, AcceptsItself
    <2>4. KeysAreDistinct(run) => (Failures(ManifestOf(run), other) = {} <=> AgreesWith(other, run))
        BY <2>2, AcceptedIsAgreement
    <2> QED
        BY <2>1, <2>3, <2>4 DEF AcceptsExactly
<1> QED
    BY <1>1, <1>2, <1>3, PTL DEF Spec

LEMMA TotalWithout ==
    ASSUME NEW S, IsFiniteSet(S), NEW column, \A x \in S : x[column] \in Nat,
           NEW d \in S, d[column] = 0
    PROVE  Total(column, S) = Total(column, S \ {d})
<1> DEFINE T == S \ {d}
           f == [x \in S |-> x[column]]
           g == [x \in T |-> x[column]]
<1>1. IsFiniteSet(T) /\ T \in SUBSET S
    BY FS_Subset
<1>2. \A x \in S : f[x] = x[column]
    OBVIOUS
<1>3. \A x \in T : g[x] = f[x]
    OBVIOUS
<1>4. PICK k : IsSum(k, f, S) /\ Total(column, S) = k[S]
    BY TotalIs
<1>5. PICK h : IsSum(h, g, T) /\ Total(column, T) = h[T]
    BY <1>1, TotalIs
<1> HIDE DEF f, g, T
<1>6. h[T] = k[T]
    <2>1. IsSum(k, f, S) /\ IsSum(h, g, T)
        BY <1>4, <1>5
    <2>2. \A U \in SUBSET T : h[U] = k[U]
        BY <1>1, <1>3, <2>1, SumsAreOne
    <2> QED
        BY <2>2
<1>7. \A x \in S : f[x] \in Nat
    BY <1>2
<1>8. k[S] = f[d] + k[S \ {d}]
    BY <1>4, <1>7, SumWithout
<1>9. k[T] \in Nat
    BY <1>1, <1>4, <1>7, PartSumsAreNat
<1>10. k[S] = 0 + k[T]
    BY <1>2, <1>8 DEF T
<1>11. k[S] = k[T]
    BY <1>9, <1>10
<1> QED
    BY <1>4, <1>5, <1>6, <1>11 DEF T

LEMMA NullableWithout ==
    ASSUME NEW S, IsFiniteSet(S), NEW column, \A x \in S : x[column] \in Nat \union {Null},
           NEW d \in S, NEW e \in S, d # e, d[column] = Null \/ (d[column] = 0 /\ e[column] # Null)
    PROVE  NullableSum(S, column) = NullableSum(S \ {d}, column)
<1> DEFINE P == {x \in S : x[column] # Null}
           Q == {x \in S \ {d} : x[column] # Null}
<1>1. /\ NullableSum(S, column) = IF P = {} /\ S # {} THEN Null ELSE Total(column, P)
      /\ NullableSum(S \ {d}, column) = IF Q = {} /\ S \ {d} # {} THEN Null ELSE Total(column, Q)
    BY DEF NullableSum
<1>2. S # {} /\ S \ {d} # {}
    OBVIOUS
<1>3. CASE d[column] = Null
    <2>1. P = Q
        BY <1>3
    <2> HIDE DEF P, Q
    <2> QED
        BY <1>1, <1>2, <2>1
<1>4. CASE d[column] # Null
    <2>1. d[column] = 0 /\ d \in P /\ Q = P \ {d} /\ e \in Q
        BY <1>4
    <2>2. IsFiniteSet(P) /\ \A x \in P : x[column] \in Nat
        BY FS_Subset
    <2> HIDE DEF P, Q
    <2>3. Total(column, P) = Total(column, P \ {d})
        BY <2>1, <2>2, TotalWithout
    <2> QED
        BY <1>1, <2>1, <2>3
<1> QED
    BY <1>3, <1>4

\* "Buckets the manifest does not mention must exist and be entirely zero", the
\* check says of itself; but a run without one of them, the last "v2" bucket apart,
\* is accepted in the place of the run that has it (src/run/verify.py).
THEOREM MissingBucketPasses ==
    ASSUME NEW run, IsWritten(run), KeysAreDistinct(run),
           NEW d \in run.daily, NEW e \in run.daily, d # e, d.schema = "v2", e.schema = "v2",
           \A f \in SUM_FIELDS : d[f] = 0,
           \A f \in NULLABLE_FIELDS : d[f] = Null \/ (d[f] = 0 /\ e[f] # Null),
           NEW other, other.daily = run.daily \ {d}, other.csv = ReportOf(other),
           other.phase = run.phase, other.readiness = run.readiness,
           other.counts = run.counts, other.alerts = run.alerts
    PROVE  Failures(ManifestOf(run), other) = {}
<1>1. IsStored(run) /\ StoredRun(run) /\ IsFiniteSet(run.daily)
    BY DEF IsWritten, IsStored, StoredRun
<1>2. /\ \A x \in run.daily : \A f \in SUM_FIELDS : x[f] \in Nat
      /\ \A x \in run.daily : \A f \in NULLABLE_FIELDS : x[f] \in Nat \union {Null}
    BY <1>1 DEF IsStored
<1>3. {"alerts", "flagged_by_rule", "suppressed", "unmeasured"} \subseteq SUM_FIELDS
    BY DEF SUM_FIELDS
<1>4. d["alerts"] = 0 /\ d["unmeasured"] = 0
    BY <1>3
<1>5. ~IsListed(d)
    BY <1>4 DEF IsListed
<1>6. ASSUME NEW x \in run.daily PROVE IsListed(x) \/ (x.alerts = 0 /\ x.flagged_by_rule = 0)
    <2>1. x.alerts \in Nat /\ x.flagged_by_rule \in Nat
        BY <1>2, <1>3
    <2>2. x.flagged_by_rule <= x.alerts
        BY DEF IsWritten
    <2> QED
        BY <2>1, <2>2 DEF IsListed
<1>7. IsStored(other)
    <2>1. IsFiniteSet(other.daily) /\ other.daily \subseteq run.daily
        BY <1>1, FS_Subset
    <2>2. StoredRun(other)
        BY <1>1, <2>1 DEF StoredRun
    <2>3. other.csv = [days |-> other.csv.days, alerts |-> other.csv.alerts, worklist |-> other.csv.worklist]
        <3>1. PICK n, m, k : ReportOf(other) = [days |-> n, alerts |-> m, worklist |-> k]
            BY DEF ReportOf
        <3> QED
            BY <3>1
    <2> QED
        BY <1>1, <2>1, <2>2, <2>3 DEF IsStored
<1>8. DaysOf(other.daily, "v1") = DaysOf(run.daily, "v1")
    BY DEF DaysOf
<1>9. ASSUME NEW s \in SCHEMAS PROVE SameDays(DaysOf(run.daily, s), DaysOf(other.daily, s))
    <2>1. CASE s = "v1"
        <3>1. PICK days : days = DaysOf(run.daily, s)
            OBVIOUS
        <3>2. \A x \in days : IsListed(x) \/ (x.alerts = 0 /\ x.flagged_by_rule = 0)
            BY <1>6, <3>1 DEF DaysOf
        <3>3. SameDays(days, days)
            BY <3>2 DEF SameDays
        <3> QED
            BY <1>8, <2>1, <3>1, <3>3
    <2>2. CASE s = "v2"
        <3>1. PICK days, others : days = DaysOf(run.daily, s) /\ others = days \ {d}
            OBVIOUS
        <3>2. DaysOf(other.daily, s) = others
            BY <3>1 DEF DaysOf
        <3>3. IsFiniteSet(days) /\ d \in days /\ e \in days /\ days \subseteq run.daily
            BY <1>1, <2>2, <3>1, FS_Subset DEF DaysOf
        <3>4. \A f \in SUM_FIELDS : Total(f, days) = Total(f, others)
            <4> TAKE f \in SUM_FIELDS
            <4>1. d[f] = 0 /\ \A x \in days : x[f] \in Nat
                BY <1>2, <3>3
            <4> QED
                BY <3>1, <3>3, <4>1, TotalWithout
        <3>5. \A f \in NULLABLE_FIELDS : NullableSum(days, f) = NullableSum(others, f)
            <4> TAKE f \in NULLABLE_FIELDS
            <4>1. /\ d[f] = Null \/ (d[f] = 0 /\ e[f] # Null)
                  /\ \A x \in days : x[f] \in Nat \union {Null}
                BY <1>2, <3>3
            <4> QED
                BY <3>1, <3>3, <4>1, NullableWithout
        <3>6. \A x \in days : IsListed(x) => \E y \in others : y.day = x.day /\ Columns(y) = Columns(x)
            BY <1>5, <3>1
        <3>7. \A y \in others : \/ \E x \in days : x.day = y.day /\ IsListed(x)
                                \/ y.alerts = 0 /\ y.flagged_by_rule = 0
            BY <1>6, <3>1, <3>3
        <3> QED
            BY <3>1, <3>2, <3>4, <3>5, <3>6, <3>7 DEF SameDays
    <2> QED
        BY <2>1, <2>2 DEF SCHEMAS
<1>10. SameSuppression(run, other)
    <2>1. ASSUME NEW f \in {"suppressed", "unmeasured"}
          PROVE  Total(f, run.daily) = Total(f, other.daily)
        <3>1. f \in SUM_FIELDS
            BY <1>3
        <3>2. d[f] = 0 /\ \A x \in run.daily : x[f] \in Nat
            BY <1>2, <3>1
        <3> QED
            BY <1>1, <3>2, TotalWithout
    <2>2. PICK nodes : nodes = SuppressedNodes(run.alerts) /\ nodes = SuppressedNodes(other.alerts)
        OBVIOUS
    <2> QED
        BY <2>1, <2>2 DEF SameSuppression
<1>11. /\ \A s : SameRules(CountsOf(run.counts, s), CountsOf(other.counts, s))
       /\ \A s : SameAlerts(AlertsOf(run.alerts, s), AlertsOf(other.alerts, s))
    BY DEF SameRules, SameAlerts
<1>12. AgreesWith(other, run)
    BY <1>8, <1>9, <1>10, <1>11 DEF AgreesWith
<1> QED
    BY <1>1, <1>7, <1>12, AcceptedIsAgreement

-------------------------------------------------------------------------------
(* A sequence that is cut into parts, or put together from them.           *)

\* at[i] is where part i ends; part i has size[i] elements.
IsCut(at, size, n) ==
    /\ n \in Nat /\ at[0] = 0
    /\ \A i \in 1 .. n : size[i] \in Nat /\ at[i] = at[i - 1] + size[i]

LEMMA CutGrows ==
    ASSUME NEW at, NEW size, NEW n, IsCut(at, size, n)
    PROVE  /\ \A i \in 0 .. n : at[i] \in Nat
           /\ \A i, j \in 0 .. n : i <= j => at[i] <= at[j]
<1> DEFINE Bad == {j \in 0 .. n : ~(at[j] \in Nat /\ \A i \in 0 .. j : at[i] <= at[j])}
<1>1. n \in Nat /\ at[0] = 0
    BY DEF IsCut
<1>2. Bad = {}
    <2> SUFFICES ASSUME Bad # {} PROVE FALSE
        OBVIOUS
    <2>1. Bad \in SUBSET Nat
        BY <1>1
    <2>2. PICK j \in Bad : \A i \in Bad : j <= i
        BY <2>1, LeastOf
    <2>3. j # 0
        BY <1>1, <2>2
    <2>4. j - 1 \in 0 .. n /\ j \in 1 .. n /\ j - 1 \notin Bad
        BY <1>1, <2>2, <2>3
    <2>5. at[j - 1] \in Nat /\ \A i \in 0 .. j - 1 : at[i] <= at[j - 1]
        BY <2>4
    <2>6. size[j] \in Nat /\ at[j] = at[j - 1] + size[j]
        BY <2>4 DEF IsCut
    <2>7. ASSUME NEW i \in 0 .. j PROVE at[i] <= at[j]
        <3>1. i = j \/ i \in 0 .. j - 1
            BY <2>4
        <3>2. at[i] = at[j] \/ at[i] \in Nat
            <4>1. CASE i = j
                BY <4>1
            <4>2. CASE i \in 0 .. j - 1
                <5>1. i \in 0 .. n /\ ~(j <= i)
                    BY <1>1, <2>4, <4>2
                <5>2. i \notin Bad
                    BY <2>2, <5>1
                <5> QED
                    BY <5>1, <5>2
            <4> QED
                BY <3>1, <4>1, <4>2
        <3> QED
            BY <2>5, <2>6, <3>1, <3>2
    <2> QED
        BY <2>2, <2>5, <2>6, <2>7
<1> QED
    BY <1>1, <1>2

\* Every place is in one part.
CutCovers(at, size, n) ==
    \A p \in 1 .. at[n] : \E i \in 1 .. n : \E j \in 1 .. size[i] : p = at[i - 1] + j
CutWithin(at, size, n) ==
    \A i \in 1 .. n : \A j \in 1 .. size[i] : at[i - 1] + j \in 1 .. at[n]
CutApart(at, size, n) ==
    \A i, k \in 1 .. n : \A j \in 1 .. size[i] : \A l \in 1 .. size[k] :
        at[i - 1] + j = at[k - 1] + l => i = k /\ j = l

LEMMA CutOnce ==
    ASSUME NEW at, NEW size, NEW n, IsCut(at, size, n)
    PROVE  CutCovers(at, size, n) /\ CutWithin(at, size, n) /\ CutApart(at, size, n)
<1>1. n \in Nat /\ at[0] = 0
    BY DEF IsCut
<1>2. /\ \A i \in 0 .. n : at[i] \in Nat
      /\ \A i, j \in 0 .. n : i <= j => at[i] <= at[j]
    BY CutGrows
<1>3. \A i \in 1 .. n : size[i] \in Nat /\ at[i] = at[i - 1] + size[i] /\ i - 1 \in 0 .. n /\ i \in 0 .. n
    BY <1>1 DEF IsCut
<1>4. ASSUME NEW p \in 1 .. at[n] PROVE \E i \in 1 .. n : \E j \in 1 .. size[i] : p = at[i - 1] + j
    <2> DEFINE Ends == {i \in 0 .. n : p <= at[i]}
    <2>1. n \in Ends /\ Ends \in SUBSET Nat /\ p \in Nat
        BY <1>1, <1>2
    <2>2. PICK i \in Ends : \A k \in Ends : i <= k
        BY <2>1, LeastOf
    <2>3. i # 0
        BY <1>1, <2>2
    <2>4. i \in 1 .. n /\ i - 1 \notin Ends
        BY <1>1, <2>2, <2>3
    <2>5. at[i - 1] \in Nat /\ at[i] = at[i - 1] + size[i] /\ size[i] \in Nat /\ i - 1 \in 0 .. n
        BY <1>2, <1>3, <2>4
    <2>6. ~(p <= at[i - 1]) /\ p <= at[i]
        BY <2>2, <2>4, <2>5
    <2>7. p - at[i - 1] \in 1 .. size[i] /\ p = at[i - 1] + (p - at[i - 1])
        BY <2>1, <2>5, <2>6
    <2> QED
        BY <2>4, <2>7
<1>5. ASSUME NEW i \in 1 .. n, NEW j \in 1 .. size[i] PROVE at[i - 1] + j \in 1 .. at[n]
    <2>1. at[i] <= at[n] /\ at[i - 1] \in Nat /\ at[i] \in Nat /\ at[n] \in Nat
        BY <1>1, <1>2, <1>3
    <2> QED
        BY <1>3, <2>1
<1>6. ASSUME NEW i \in 1 .. n, NEW k \in 1 .. n, NEW j \in 1 .. size[i], NEW l \in 1 .. size[k],
             at[i - 1] + j = at[k - 1] + l
      PROVE  i = k /\ j = l
    <2>1. at[i - 1] \in Nat /\ at[k - 1] \in Nat /\ size[i] \in Nat /\ size[k] \in Nat
        BY <1>2, <1>3
    <2>2. i < k => at[i] <= at[k - 1]
        BY <1>2, <1>3
    <2>3. k < i => at[k] <= at[i - 1]
        BY <1>2, <1>3
    <2>4. ~(i < k)
        BY <1>3, <1>6, <2>1, <2>2
    <2>5. ~(k < i)
        BY <1>3, <1>6, <2>1, <2>3
    <2>6. i = k
        BY <1>1, <2>4, <2>5
    <2> QED
        BY <1>6, <2>1, <2>6
<1> QED
    BY <1>4, <1>5, <1>6 DEF CutCovers, CutWithin, CutApart

\* Which element of which part: the places of s are those of the parts of ss.
IsFlat(s, ss, place) ==
    /\ place \in [1 .. Len(s) -> (1 .. Len(ss)) \X Nat]
    /\ \A p \in 1 .. Len(s) : place[p][2] \in 1 .. Len(ss[place[p][1]])
    /\ \A p \in 1 .. Len(s) : s[p] = ss[place[p][1]][place[p][2]]
    /\ \A p, q \in 1 .. Len(s) : place[p] = place[q] => p = q
    /\ \A i \in 1 .. Len(ss) : \A j \in 1 .. Len(ss[i]) :
           \E p \in 1 .. Len(s) : place[p] = <<i, j>>

Joined(fl, ss, i) == IF i = 1 THEN ss[i] ELSE fl[i - 1] \o ss[i]

LEMMA JoinExists ==
    ASSUME NEW n \in Nat, NEW ss
    PROVE  \E fl : fl = [i \in 1 .. n |-> Joined(fl, ss, i)]
<1> DEFINE Upto(f, m) == \A i \in 1 .. m : f[i] = Joined(f, ss, i)
           Bad == {m \in Nat : ~\E f : Upto(f, m)}
<1>1. Bad = {}
    <2> SUFFICES ASSUME Bad # {} PROVE FALSE
        OBVIOUS
    <2>1. PICK m \in Bad : \A k \in Bad : m <= k
        BY LeastOf
    <2>2. m # 0
        <3>1. Upto([i \in {} |-> 0], 0)
            OBVIOUS
        <3> HIDE DEF Upto
        <3> QED
            BY <3>1
    <2>3. m - 1 \in Nat /\ m - 1 \notin Bad
        BY <2>1, <2>2
    <2>4. PICK f : Upto(f, m - 1)
        BY <2>3
    <2> DEFINE g == [i \in 1 .. m |-> IF i = m THEN Joined(f, ss, m) ELSE f[i]]
    <2>5. ASSUME NEW i \in 1 .. m PROVE g[i] = Joined(g, ss, i)
        <3>1. i # 1 => i - 1 \in 1 .. m /\ i - 1 # m
            BY <2>3
        <3>2. i # 1 => g[i - 1] = f[i - 1]
            BY <3>1
        <3>3. i # m => i \in 1 .. m - 1
            BY <2>3
        <3>4. g[i] = Joined(f, ss, i)
            BY <2>4, <3>3
        <3> QED
            BY <3>2, <3>4 DEF Joined
    <2> HIDE DEF g
    <2>6. Upto(g, m)
        BY <2>5
    <2> HIDE DEF Upto
    <2> QED
        BY <2>6
<1>2. PICK f : Upto(f, n)
    BY <1>1
<1> DEFINE h == [i \in 1 .. n |-> f[i]]
<1>3. ASSUME NEW i \in 1 .. n PROVE h[i] = Joined(h, ss, i)
    <2>1. i # 1 => i - 1 \in 1 .. n
        OBVIOUS
    <2>2. i # 1 => h[i - 1] = f[i - 1]
        BY <2>1
    <2> QED
        BY <1>2, <2>2 DEF Joined
<1>4. h = [i \in 1 .. n |-> h[i]]
    OBVIOUS
<1> HIDE DEF h
<1>5. h = [i \in 1 .. n |-> Joined(h, ss, i)]
    BY <1>3, <1>4
<1> QED
    BY <1>5

\* What is joined up to i has the first i parts in their places.
HasParts(fl, at, size, ss, n) ==
    \A i \in 1 .. n : \A a \in 1 .. i : \A j \in 1 .. size[a] : fl[i][at[a - 1] + j] = ss[a][j]

LEMMA JoinsAre ==
    ASSUME NEW S, NEW n \in Nat, NEW ss \in [1 .. n -> Seq(S)],
           NEW fl, fl = [i \in 1 .. n |-> Joined(fl, ss, i)],
           NEW at, at = [i \in 0 .. n |-> IF i = 0 THEN 0 ELSE Len(fl[i])],
           NEW size, size = [i \in 1 .. n |-> Len(ss[i])]
    PROVE  /\ \A i \in 1 .. n : fl[i] \in Seq(S)
           /\ IsCut(at, size, n)
           /\ HasParts(fl, at, size, ss, n)
<1>1. \A i \in 1 .. n : ss[i] \in Seq(S)
    OBVIOUS
<1>2. \A i \in 1 .. n : size[i] = Len(ss[i])
    OBVIOUS
<1>3. \A i \in 1 .. n : size[i] \in Nat
    BY <1>1, <1>2
<1>4. \A i \in 1 .. n : fl[i] = Joined(fl, ss, i)
    OBVIOUS
<1>5. \A i \in 1 .. n : fl[i] = Joined(fl, ss, i) /\ ss[i] \in Seq(S) /\ size[i] = Len(ss[i]) /\ size[i] \in Nat
    BY <1>1, <1>2, <1>3, <1>4
<1>6. at[0] = 0 /\ \A i \in 1 .. n : at[i] = Len(fl[i])
    OBVIOUS
<1> DEFINE Good(i) ==
               /\ fl[i] \in Seq(S)
               /\ at[i] = at[i - 1] + size[i] /\ at[i - 1] \in Nat
               /\ \A j \in 1 .. size[i] : fl[i][at[i - 1] + j] = ss[i][j]
               /\ \A p \in 1 .. at[i - 1] : i # 1 /\ fl[i][p] = fl[i - 1][p]
           Bad == {i \in 1 .. n : ~Good(i)}
<1>7. Bad = {}
    <2> SUFFICES ASSUME Bad # {} PROVE FALSE
        OBVIOUS
    <2>1. Bad \in SUBSET Nat
        OBVIOUS
    <2> HIDE DEF Good
    <2>2. PICK i \in Bad : \A k \in Bad : i <= k
        BY <2>1, LeastOf
    <2>3. CASE i = 1
        <3>1. fl[1] = ss[1] /\ ss[1] \in Seq(S) /\ at[1] = Len(fl[1]) /\ size[1] = Len(ss[1]) /\ 1 - 1 = 0
            BY <1>5, <1>6, <2>2, <2>3 DEF Joined
        <3>2. size[1] \in Nat /\ at[1 - 1] = 0
            BY <1>5, <1>6, <2>2, <2>3
        <3>3. \A j \in 1 .. size[1] : at[1 - 1] + j = j
            BY <3>2
        <3>4. Good(1)
            BY <3>1, <3>2, <3>3 DEF Good
        <3> QED
            BY <2>2, <2>3, <3>4
    <2>4. CASE i # 1
        <3>1. i - 1 \in 1 .. n /\ i \in 1 .. n /\ ~(i <= i - 1)
            BY <2>2, <2>4
        <3>2. Good(i - 1)
            BY <2>2, <3>1
        <3>3. PICK u, v : u = fl[i - 1] /\ v = ss[i]
            OBVIOUS
        <3>4. u \in Seq(S) /\ v \in Seq(S)
            BY <1>5, <3>1, <3>2, <3>3 DEF Good
        <3>5. fl[i] = u \o v
            BY <1>5, <2>4, <3>1, <3>3 DEF Joined
        <3>6. /\ u \o v \in Seq(S) /\ Len(u \o v) = Len(u) + Len(v) /\ Len(u) \in Nat /\ Len(v) \in Nat
              /\ \A p \in 1 .. Len(u) : (u \o v)[p] = u[p]
              /\ \A j \in 1 .. Len(v) : (u \o v)[Len(u) + j] = v[j]
            BY <3>4
        <3>7. at[i - 1] = Len(u) /\ size[i] = Len(v) /\ at[i] = Len(u \o v)
            BY <1>5, <1>6, <3>1, <3>3, <3>5
        <3>8. fl[i] \in Seq(S) /\ at[i] = at[i - 1] + size[i] /\ at[i - 1] \in Nat
            BY <3>5, <3>6, <3>7
        <3>9. \A j \in 1 .. size[i] : fl[i][at[i - 1] + j] = ss[i][j]
            BY <3>3, <3>5, <3>6, <3>7
        <3>10. \A p \in 1 .. at[i - 1] : fl[i][p] = fl[i - 1][p]
            BY <3>3, <3>5, <3>6, <3>7
        <3>11. Good(i)
            BY <2>4, <3>8, <3>9, <3>10 DEF Good
        <3> QED
            BY <2>2, <3>11
    <2> QED
        BY <2>3, <2>4
<1>8. \A i \in 1 .. n : Good(i)
    BY <1>7
<1>9. IsCut(at, size, n)
    BY <1>5, <1>6, <1>8 DEF IsCut
<1> DEFINE Off == {i \in 1 .. n : ~(\A a \in 1 .. i : \A j \in 1 .. size[a] : fl[i][at[a - 1] + j] = ss[a][j])}
<1>10. Off = {}
    <2> SUFFICES ASSUME Off # {} PROVE FALSE
        OBVIOUS
    <2>1. Off \in SUBSET Nat
        OBVIOUS
    <2> HIDE DEF Off
    <2>2. PICK i \in Off : \A k \in Off : i <= k
        BY <2>1, LeastOf
    <2>3. PICK a \in 1 .. i : \E j \in 1 .. size[a] : fl[i][at[a - 1] + j] # ss[a][j]
        BY <2>2 DEF Off
    <2>4. PICK j \in 1 .. size[a] : fl[i][at[a - 1] + j] # ss[a][j]
        BY <2>3
    <2>5. Good(i)
        BY <1>8, <2>2 DEF Off
    <2> HIDE DEF Good
    <2>6. a # i
        BY <2>4, <2>5 DEF Good
    <2>7. a \in 1 .. i - 1 /\ i - 1 \in 1 .. n /\ i \in 1 .. n /\ ~(i <= i - 1)
        BY <2>2, <2>3, <2>6 DEF Off
    <2>8. fl[i - 1][at[a - 1] + j] = ss[a][j]
        <3>1. i - 1 \notin Off
            BY <2>2, <2>7
        <3>2. \A b \in 1 .. i - 1 : \A k \in 1 .. size[b] : fl[i - 1][at[b - 1] + k] = ss[b][k]
            BY <2>7, <3>1 DEF Off
        <3> QED
            BY <2>7, <3>2
    <2>9. at[a - 1] + j \in 1 .. at[i - 1]
        <3>1. /\ \A k \in 0 .. n : at[k] \in Nat
              /\ \A k, l \in 0 .. n : k <= l => at[k] <= at[l]
            BY <1>9, CutGrows
        <3>2. a - 1 \in 0 .. n /\ a \in 0 .. n /\ i - 1 \in 0 .. n /\ a <= i - 1 /\ a \in 1 .. n
            BY <2>2, <2>7
        <3>3. at[a] = at[a - 1] + size[a] /\ at[a] <= at[i - 1]
            BY <1>9, <3>1, <3>2 DEF IsCut
        <3>4. at[a - 1] \in Nat /\ at[a] \in Nat /\ at[i - 1] \in Nat /\ size[a] \in Nat
            BY <1>5, <3>1, <3>2
        <3>5. PICK x, y, z : x = at[a - 1] /\ y = at[i - 1] /\ z = size[a]
            OBVIOUS
        <3>6. x \in Nat /\ y \in Nat /\ z \in Nat /\ x + z <= y /\ j \in 1 .. z
            BY <2>4, <3>3, <3>4, <3>5
        <3>7. x + j \in 1 .. y
            BY <3>6
        <3> QED
            BY <3>5, <3>7
    <2>10. fl[i][at[a - 1] + j] = fl[i - 1][at[a - 1] + j]
        BY <2>5, <2>9 DEF Good
    <2> QED
        BY <2>4, <2>8, <2>10
<1>11. \A i \in 1 .. n : fl[i] \in Seq(S)
    BY <1>8
<1> HIDE DEF Off
<1>12. \A i \in 1 .. n : \A a \in 1 .. i : \A j \in 1 .. size[a] : fl[i][at[a - 1] + j] = ss[a][j]
    <2> SUFFICES ASSUME NEW i \in 1 .. n
                 PROVE  \A a \in 1 .. i : \A j \in 1 .. size[a] : fl[i][at[a - 1] + j] = ss[a][j]
        OBVIOUS
    <2>1. i \notin Off
        BY <1>10
    <2> QED
        BY <2>1 DEF Off
<1> QED
    BY <1>9, <1>11, <1>12 DEF HasParts

LEMMA Flattened ==
    ASSUME NEW S, NEW n \in Nat, NEW ss \in [1 .. n -> Seq(S)]
    PROVE  /\ FlattenSeq(ss) \in Seq(S)
           /\ \E place : IsFlat(FlattenSeq(ss), ss, place)
<1>1. ss \in Seq(Seq(S)) /\ Len(ss) = n
    BY LenIs
<1>2. CASE n = 0
    <2>1. FlattenSeq(ss) = ss
        BY <1>1, <1>2 DEF FlattenSeq
    <2>2. ss \in [1 .. 0 -> S] /\ 1 .. 0 = {}
        BY <1>2
    <2>3. ss \in Seq(S) /\ Len(ss) = 0
        BY <2>2, LenIs
    <2>4. IsFlat(ss, ss, ss)
        BY <2>2, <2>3 DEF IsFlat
    <2> QED
        BY <2>1, <2>3, <2>4
<1>3. CASE n # 0
    <2> DEFINE f == CHOOSE f : f = [i \in 1 .. n |-> IF i = 1 THEN ss[i] ELSE f[i - 1] \o ss[i]]
    <2>1. FlattenSeq(ss) = f[n]
        BY <1>1, <1>3 DEF FlattenSeq
    <2>2. PICK g : g = [i \in 1 .. n |-> Joined(g, ss, i)]
        BY JoinExists
    <2>3. g = [i \in 1 .. n |-> IF i = 1 THEN ss[i] ELSE g[i - 1] \o ss[i]]
        BY <2>2 DEF Joined
    <2>4. f = [i \in 1 .. n |-> IF i = 1 THEN ss[i] ELSE f[i - 1] \o ss[i]]
        BY <2>3
    <2> HIDE DEF f
    <2>5. f = [i \in 1 .. n |-> Joined(f, ss, i)]
        BY <2>4 DEF Joined
    <2>6. PICK at, size : /\ at = [i \in 0 .. n |-> IF i = 0 THEN 0 ELSE Len(f[i])]
                          /\ size = [i \in 1 .. n |-> Len(ss[i])]
        OBVIOUS
    <2>7. IsCut(at, size, n)
        BY <2>5, <2>6, JoinsAre
    <2>8. \A i \in 1 .. n : f[i] \in Seq(S)
        BY <2>5, <2>6, JoinsAre
    <2>9. HasParts(f, at, size, ss, n)
        BY <2>5, <2>6, JoinsAre
    <2>10. /\ \A i \in 1 .. n : f[i] \in Seq(S)
          /\ IsCut(at, size, n)
          /\ \A i \in 1 .. n : \A a \in 1 .. i : \A j \in 1 .. size[a] : f[i][at[a - 1] + j] = ss[a][j]
        BY <2>7, <2>8, <2>9 DEF HasParts
    <2>11. PICK s : s = f[n]
        OBVIOUS
    <2>12. n \in 1 .. n /\ s \in Seq(S) /\ Len(s) = at[n]
        BY <1>3, <2>6, <2>10, <2>11
    <2>13. CutCovers(at, size, n) /\ CutWithin(at, size, n) /\ CutApart(at, size, n)
        BY <2>7, CutOnce
    <2>14. \A i \in 1 .. n : size[i] = Len(ss[i]) /\ size[i] \in Nat
        BY <2>6
    <2> DEFINE Pairs == {c \in (1 .. n) \X Nat : c[2] \in 1 .. size[c[1]]}
               place == [p \in 1 .. Len(s) |-> CHOOSE c \in Pairs : p = at[c[1] - 1] + c[2]]
    <2>15. ASSUME NEW p \in 1 .. Len(s)
           PROVE  /\ place[p] \in (1 .. n) \X Nat /\ place[p][2] \in 1 .. size[place[p][1]]
                  /\ p = at[place[p][1] - 1] + place[p][2]
        <3>1. PICK i \in 1 .. n : \E j \in 1 .. size[i] : p = at[i - 1] + j
            BY <2>12, <2>13 DEF CutCovers
        <3>2. PICK j \in 1 .. size[i] : p = at[i - 1] + j
            BY <3>1
        <3>3. <<i, j>> \in Pairs
            BY <2>14, <3>2
        <3>4. \E c \in Pairs : p = at[c[1] - 1] + c[2]
            BY <3>2, <3>3
        <3>5. place[p] \in Pairs /\ p = at[place[p][1] - 1] + place[p][2]
            BY <3>4
        <3> HIDE DEF place
        <3> QED
            BY <3>5
    <2>16. place \in [1 .. Len(s) -> (1 .. n) \X Nat]
        BY <2>15
    <2> HIDE DEF place
    <2>17. ASSUME NEW p \in 1 .. Len(s) PROVE s[p] = ss[place[p][1]][place[p][2]]
        <3>1. PICK a, j : a = place[p][1] /\ j = place[p][2]
            OBVIOUS
        <3>2. a \in 1 .. n /\ j \in 1 .. size[a] /\ p = at[a - 1] + j
            BY <2>15, <3>1
        <3>3. s[at[a - 1] + j] = ss[a][j]
            BY <2>10, <2>11, <2>12, <3>2
        <3> QED
            BY <3>1, <3>2, <3>3
    <2>18. \A p, q \in 1 .. Len(s) : place[p] = place[q] => p = q
        BY <2>15
    <2>19. ASSUME NEW i \in 1 .. n, NEW j \in 1 .. Len(ss[i]) PROVE \E p \in 1 .. Len(s) : place[p] = <<i, j>>
        <3>1. PICK p : p = at[i - 1] + j
            OBVIOUS
        <3>2. p \in 1 .. Len(s) /\ j \in 1 .. size[i]
            BY <2>12, <2>13, <2>14, <3>1 DEF CutWithin
        <3>3. PICK k, l : k = place[p][1] /\ l = place[p][2]
            OBVIOUS
        <3>4. k \in 1 .. n /\ l \in 1 .. size[k] /\ at[k - 1] + l = at[i - 1] + j
            BY <2>15, <3>1, <3>2, <3>3
        <3>5. i \in 1 .. n /\ j \in 1 .. size[i]
            BY <3>2
        <3>6. k = i /\ l = j
            <4>1. CutApart(at, size, n)
                BY <2>13
            <4>2. \A a, b \in 1 .. n : \A c \in 1 .. size[a] : \A d \in 1 .. size[b] :
                      at[a - 1] + c = at[b - 1] + d => a = b /\ c = d
                BY <4>1 DEF CutApart
            <4> HIDE DEF Pairs
            <4>3. \A b \in 1 .. n : \A c \in 1 .. size[k] : \A d \in 1 .. size[b] :
                      at[k - 1] + c = at[b - 1] + d => k = b /\ c = d
                BY <4>2, <3>4
            <4> QED
                BY <4>3, <3>4, <3>5
        <3>7. place[p][1] = i /\ place[p][2] = j
            BY <3>3, <3>6
        <3>8. place[p] = <<i, j>>
            BY <2>15, <3>2, <3>7
        <3> QED
            BY <3>2, <3>8
    <2>20. IsFlat(s, ss, place)
        BY <1>1, <2>14, <2>15, <2>16, <2>17, <2>18, <2>19 DEF IsFlat
    <2> QED
        BY <2>1, <2>11, <2>12, <2>20
<1> QED
    BY <1>2, <1>3

LEMMA SameCut ==
    ASSUME NEW at, NEW bt, NEW size, NEW n, IsCut(at, size, n), IsCut(bt, size, n)
    PROVE  at[n] = bt[n]
<1> DEFINE Bad == {i \in 0 .. n : at[i] # bt[i]}
<1>1. n \in Nat /\ at[0] = 0 /\ bt[0] = 0 /\ Bad \in SUBSET Nat
    BY DEF IsCut
<1>2. Bad = {}
    <2> SUFFICES ASSUME Bad # {} PROVE FALSE
        OBVIOUS
    <2>1. PICK i \in Bad : \A k \in Bad : i <= k
        BY <1>1, LeastOf
    <2>2. i # 0
        BY <1>1, <2>1
    <2>3. i \in 1 .. n /\ i - 1 \in 0 .. n /\ ~(i <= i - 1)
        BY <1>1, <2>1, <2>2
    <2>4. at[i - 1] = bt[i - 1]
        BY <2>1, <2>3
    <2>5. at[i] = at[i - 1] + size[i] /\ bt[i] = bt[i - 1] + size[i]
        BY <2>3 DEF IsCut
    <2> QED
        BY <2>1, <2>4, <2>5
<1> QED
    BY <1>1, <1>2

-------------------------------------------------------------------------------
(* The parts of a group: neither too large nor lopsided.                   *)

IsDivision(n, b, q, r) == q \in Nat /\ r \in 0 .. b - 1 /\ n = b * q + r

LEMMA DivisionIs ==
    ASSUME NEW n \in Nat, NEW b \in Nat \ {0}
    PROVE  IsDivision(n, b, n \div b, n % b)
<1>1. PICK q, r : q = n \div b /\ r = n % b
    OBVIOUS
<1>2. q \in Nat /\ r \in 0 .. b - 1 /\ n = b * q + r
    BY <1>1
<1> QED
    BY <1>1, <1>2 DEF IsDivision

LEMMA EnoughParts ==
    ASSUME NEW n \in Nat \ {0}, NEW cap \in Nat \ {0}, NEW q \in Nat, NEW r \in 0 .. cap - 1,
           n + cap - 1 = cap * q + r
    PROVE  q >= 1 /\ q <= n /\ n <= q * cap
OBVIOUS

LEMMA EvenParts ==
    ASSUME NEW n \in Nat \ {0}, NEW cap \in Nat \ {0}, NEW count \in 1 .. n, n <= count * cap,
           NEW q \in Nat, NEW r \in 0 .. count - 1, n = count * q + r
    PROVE  q >= 1 /\ q <= cap /\ (r > 0 => q + 1 <= cap)
<1>1. q >= 1
    <2> SUFFICES ASSUME q = 0 PROVE FALSE
        OBVIOUS
    <2>1. count * q = 0
        OBVIOUS
    <2> QED
        BY <2>1
<1>2. q <= cap
    <2> SUFFICES ASSUME q >= cap + 1 PROVE FALSE
        OBVIOUS
    <2>1. count * q >= count * (cap + 1)
        OBVIOUS
    <2>2. count * (cap + 1) = count * cap + count
        OBVIOUS
    <2> QED
        BY <2>1, <2>2
<1>3. ASSUME r > 0 PROVE q + 1 <= cap
    <2> SUFFICES ASSUME q >= cap PROVE FALSE
        OBVIOUS
    <2>1. count * q >= count * cap
        OBVIOUS
    <2> QED
        BY <1>3, <2>1
<1> QED
    BY <1>1, <1>2, <1>3

IsPartition(sizes, offset, count, n, cap) ==
    /\ count \in Nat \ {0} /\ sizes \in [1 .. count -> 1 .. cap] /\ Len(sizes) = count
    /\ IsCut(offset, sizes, count) /\ offset[count] = n
    /\ \A i, k \in 1 .. count : sizes[i] - sizes[k] \in -1 .. 1

LEMMA PartsAre ==
    ASSUME NEW n \in Nat \ {0}, NEW cap \in Nat \ {0},
           NEW sizes, sizes = PartitionSizes(n, cap), NEW offset, offset = OffsetsOf(sizes)
    PROVE  \E count : IsPartition(sizes, offset, count, n, cap)
<1>1. PICK m \in Nat : m = n + cap - 1
    OBVIOUS
<1>2. PICK count, rest : count = m \div cap /\ rest = m % cap
    OBVIOUS
<1>3. IsDivision(m, cap, count, rest)
    BY <1>2, DivisionIs
<1>4. count \in Nat /\ rest \in 0 .. cap - 1 /\ n + cap - 1 = cap * count + rest
    BY <1>1, <1>3 DEF IsDivision
<1>5. count \in 1 .. n /\ n <= count * cap /\ count \in Nat \ {0}
    BY <1>4, EnoughParts
<1>6. PICK q, r : q = n \div count /\ r = n % count
    OBVIOUS
<1>7. IsDivision(n, count, q, r)
    BY <1>5, <1>6, DivisionIs
<1>8. q \in Nat /\ r \in 0 .. count - 1 /\ n = count * q + r
    BY <1>7 DEF IsDivision
<1>9. q >= 1 /\ q <= cap /\ (r > 0 => q + 1 <= cap)
    BY <1>5, <1>8, EvenParts
<1>10. sizes = [i \in 1 .. count |-> q + (IF i <= r THEN 1 ELSE 0)]
    BY <1>1, <1>2, <1>6 DEF PartitionSizes
<1>11. /\ sizes \in [1 .. count -> 1 .. cap]
      /\ \A i \in 1 .. count : sizes[i] = q + (IF i <= r THEN 1 ELSE 0)
    <2>1. \A i \in 1 .. count : q + (IF i <= r THEN 1 ELSE 0) \in 1 .. cap
        BY <1>5, <1>8, <1>9
    <2> QED
        BY <1>10, <2>1
<1>12. Len(sizes) = count
    BY <1>5, <1>11, LenIs
<1>13. \A i, k \in 1 .. count : sizes[i] - sizes[k] \in -1 .. 1
    BY <1>8, <1>11
<1> DEFINE Upto(i) == i * q + (IF i <= r THEN i ELSE r)
           h == [i \in 0 .. count |-> Upto(i)]
<1>14. ASSUME NEW i \in 1 .. count PROVE h[i] = h[i - 1] + sizes[i]
    <2>1. i - 1 \in 0 .. count /\ i \in 0 .. count /\ i \in Nat
        BY <1>5
    <2>2. i * q = (i - 1) * q + q /\ i * q \in Int /\ (i - 1) * q \in Int
        BY <1>8, <2>1
    <2>3. Upto(i) = Upto(i - 1) + (q + (IF i <= r THEN 1 ELSE 0))
        BY <1>8, <2>1, <2>2
    <2> HIDE DEF Upto
    <2> QED
        BY <1>11, <2>1, <2>3
<1>15. h[0] = 0 /\ h[count] = n
    BY <1>5, <1>8
<1>16. h = [i \in 0 .. count |-> h[i]]
    OBVIOUS
<1> HIDE DEF h
<1>17. h = [i \in 0 .. count |-> IF i = 0 THEN 0 ELSE h[i - 1] + sizes[i]]
    <2>1. \A i \in 0 .. count : h[i] = IF i = 0 THEN 0 ELSE h[i - 1] + sizes[i]
        BY <1>5, <1>14, <1>15
    <2> QED
        BY <1>16, <2>1
<1>18. offset = [i \in 0 .. count |-> IF i = 0 THEN 0 ELSE offset[i - 1] + sizes[i]]
    <2> DEFINE f == CHOOSE f : f = [i \in 0 .. count |-> IF i = 0 THEN 0 ELSE f[i - 1] + sizes[i]]
    <2>1. offset = f
        BY <1>12 DEF OffsetsOf
    <2>2. f = [i \in 0 .. count |-> IF i = 0 THEN 0 ELSE f[i - 1] + sizes[i]]
        BY <1>17
    <2> HIDE DEF f
    <2> QED
        BY <2>1, <2>2
<1>19. \A i \in 1 .. count : sizes[i] \in Nat
    BY <1>11
<1>20. IsCut(offset, sizes, count)
    BY <1>5, <1>18, <1>19 DEF IsCut
<1>21. IsCut(h, sizes, count)
    BY <1>5, <1>14, <1>15, <1>19 DEF IsCut
<1>22. offset[count] = n
    BY <1>15, <1>20, <1>21, SameCut
<1> QED
    BY <1>5, <1>11, <1>12, <1>13, <1>20, <1>22 DEF IsPartition

-------------------------------------------------------------------------------
(* The groups of the alerts: KeysOf and MembersOf of LlmExchange.          *)

\* Every element of S once.
Lists(seq, n, S) ==
    /\ n \in Nat /\ seq \in [1 .. n -> S] /\ seq \in Seq(S) /\ Len(seq) = n
    /\ \A j, k \in 1 .. n : seq[j] = seq[k] => j = k
    /\ \A x \in S : \E k \in 1 .. n : seq[k] = x

LEMMA ArrangedLists ==
    ASSUME NEW S, IsFiniteSet(S), NEW R, IsOrder(R, S), NEW seq, IsArranged(seq, R, S),
           seq = [k \in DOMAIN seq |-> seq[k]]
    PROVE  Lists(seq, Cardinality(S), S)
<1>1. PICK n : n = Cardinality(S)
    OBVIOUS
<1>2. /\ n \in Nat /\ DOMAIN seq = 1 .. n
      /\ \A k \in 1 .. n : seq[k] \in S
      /\ \A j, k \in 1 .. n : seq[j] = seq[k] => j = k
      /\ \A x \in S : \E k \in 1 .. n : seq[k] = x
    BY <1>1, Arranged
<1>3. seq \in [1 .. n -> S]
    BY <1>2
<1>4. seq \in Seq(S) /\ Len(seq) = n
    BY <1>2, <1>3, LenIs
<1> QED
    BY <1>1, <1>2, <1>3, <1>4 DEF Lists

AllKeys(alerts) == {GroupKey(alerts[i]) : i \in DOMAIN alerts}
OfKey(alerts, key) == {i \in DOMAIN alerts : GroupKey(alerts[i]) = key}

LEMMA PlacesAreFinite ==
    ASSUME NEW alerts, IsToAssess(alerts)
    PROVE  /\ Len(alerts) \in Nat /\ DOMAIN alerts = 1 .. Len(alerts) /\ IsFiniteSet(DOMAIN alerts)
           /\ alerts \in [1 .. Len(alerts) -> {alerts[i] : i \in DOMAIN alerts}]
<1>1. PICK S : alerts \in Seq(S) /\ S = {alerts[i] : i \in DOMAIN alerts}
    BY DEF IsToAssess, IsArray
<1>2. Len(alerts) \in Nat /\ DOMAIN alerts = 1 .. Len(alerts) /\ alerts \in [1 .. Len(alerts) -> S]
    BY <1>1
<1>3. PICK n : n = Len(alerts) /\ n \in Nat
    BY <1>2
<1>4. IsFiniteSet(1 .. n)
    BY <1>3, FS_Interval
<1> QED
    BY <1>1, <1>2, <1>3, <1>4

LEMMA KeysInOrder ==
    ASSUME NEW alerts, IsToAssess(alerts)
    PROVE  \E n : Lists(KeysOf(alerts), n, AllKeys(alerts))
<1>1. PICK S, seq : S = AllKeys(alerts) /\ seq = KeysOf(alerts)
    OBVIOUS
<1> DEFINE Ranked(k) == CHOOSE x \in S : Cardinality({y \in S : KeyBefore(y, x)}) = k - 1
           R == {e \in S \X S : KeyBefore(e[1], e[2])}
<1>2. seq = [k \in 1 .. Cardinality(S) |-> Ranked(k)]
    BY <1>1 DEF KeysOf, SortedBy, AllKeys
<1>3. \A x, y : <<x, y>> \in R <=> x \in S /\ y \in S /\ KeyBefore(x, y)
    OBVIOUS
<1>4. IsFiniteSet(S)
    <2> DEFINE f == [i \in DOMAIN alerts |-> GroupKey(alerts[i])]
    <2>1. S = {f[i] : i \in DOMAIN alerts}
        BY <1>1 DEF AllKeys
    <2> HIDE DEF f
    <2> QED
        BY <2>1, PlacesAreFinite, ImageIsFinite
<1>5. \A x \in S : x = <<x[1], x[2]>> /\ x[1] \in {"alert_rule_url", "application"} /\ x[2] \in Int
    <2> SUFFICES ASSUME NEW x \in S
                 PROVE  x = <<x[1], x[2]>> /\ x[1] \in {"alert_rule_url", "application"} /\ x[2] \in Int
        OBVIOUS
    <2>1. PICK i \in DOMAIN alerts : x = GroupKey(alerts[i])
        BY <1>1 DEF AllKeys
    <2>2. PICK a : a = alerts[i]
        OBVIOUS
    <2>3. a.application \in Int /\ a.rule \in Int \union {NoRule}
        BY <2>2 DEF IsToAssess
    <2> QED
        BY <2>1, <2>2, <2>3 DEF GroupKey
<1> HIDE DEF R
<1>6. IsOrder(R, S)
    <2>1. \A x \in S : <<x, x>> \notin R
        BY <1>3, <1>5 DEF KeyBefore
    <2>2. \A x, y \in S : x = y \/ <<x, y>> \in R \/ <<y, x>> \in R
        <3> SUFFICES ASSUME NEW x \in S, NEW y \in S, <<x, y>> \notin R, <<y, x>> \notin R PROVE x = y
            OBVIOUS
        <3>1. x[1] = y[1] /\ x[2] = y[2]
            BY <1>3, <1>5 DEF KeyBefore
        <3> QED
            BY <1>5, <3>1
    <2>3. \A x, y, z \in S : <<x, y>> \in R /\ <<y, z>> \in R => <<x, z>> \in R
        BY <1>3, <1>5 DEF KeyBefore
    <2> QED
        BY <2>1, <2>2, <2>3 DEF IsOrder
<1>7. \A x \in S : Cardinality({y \in S : KeyBefore(y, x)}) = Rank(R, S, x)
    <2> SUFFICES ASSUME NEW x \in S PROVE Cardinality({y \in S : KeyBefore(y, x)}) = Rank(R, S, x)
        OBVIOUS
    <2>1. {y \in S : KeyBefore(y, x)} = {y \in S : <<y, x>> \in R}
        BY <1>3
    <2> QED
        BY <2>1 DEF Rank
<1>8. IsArranged(seq, R, S)
    <2>1. DOMAIN seq = 1 .. Cardinality(S)
        BY <1>2
    <2>2. ASSUME NEW k \in DOMAIN seq, \E x \in S : Rank(R, S, x) = k - 1
          PROVE  seq[k] \in S /\ Rank(R, S, seq[k]) = k - 1
        <3>1. seq[k] = Ranked(k)
            BY <1>2, <2>1
        <3>2. \E x \in S : Cardinality({y \in S : KeyBefore(y, x)}) = k - 1
            BY <1>7, <2>2
        <3>3. Ranked(k) \in S /\ Cardinality({y \in S : KeyBefore(y, Ranked(k))}) = k - 1
            BY <3>2
        <3> QED
            BY <1>7, <3>1, <3>3
    <2> QED
        BY <2>1, <2>2 DEF IsArranged
<1> HIDE DEF Ranked
<1>9. seq = [k \in DOMAIN seq |-> seq[k]]
    BY <1>2
<1> QED
    BY <1>1, <1>4, <1>6, <1>8, <1>9, ArrangedLists

LEMMA MembersInOrder ==
    ASSUME NEW alerts, IsToAssess(alerts), NEW key
    PROVE  \E n : Lists(MembersOf(alerts, key), n, OfKey(alerts, key))
<1>1. PICK S, seq : S = OfKey(alerts, key) /\ seq = MembersOf(alerts, key)
    OBVIOUS
<1> DEFINE Ranked(k) == CHOOSE x \in S : Cardinality({y \in S : MemberBefore(alerts, y, x)}) = k - 1
           R == {e \in S \X S : MemberBefore(alerts, e[1], e[2])}
<1>2. seq = [k \in 1 .. Cardinality(S) |-> Ranked(k)]
    BY <1>1 DEF MembersOf, SortedBy, OfKey
<1>3. \A x, y : <<x, y>> \in R <=> x \in S /\ y \in S /\ MemberBefore(alerts, x, y)
    OBVIOUS
<1>4. IsFiniteSet(S) /\ S \subseteq DOMAIN alerts /\ S \subseteq Nat
    BY <1>1, PlacesAreFinite, FS_Subset DEF OfKey
<1>5. \A x \in S : x \in Nat /\ alerts[x].key_field \in Int /\ alerts[x].application \in Int
    BY <1>4 DEF IsToAssess
<1> HIDE DEF R
<1>6. IsOrder(R, S)
    BY <1>3, <1>5 DEF IsOrder, MemberBefore
<1>7. \A x \in S : Cardinality({y \in S : MemberBefore(alerts, y, x)}) = Rank(R, S, x)
    <2> SUFFICES ASSUME NEW x \in S PROVE Cardinality({y \in S : MemberBefore(alerts, y, x)}) = Rank(R, S, x)
        OBVIOUS
    <2>1. {y \in S : MemberBefore(alerts, y, x)} = {y \in S : <<y, x>> \in R}
        BY <1>3
    <2> QED
        BY <2>1 DEF Rank
<1>8. IsArranged(seq, R, S)
    <2>1. DOMAIN seq = 1 .. Cardinality(S)
        BY <1>2
    <2>2. ASSUME NEW k \in DOMAIN seq, \E x \in S : Rank(R, S, x) = k - 1
          PROVE  seq[k] \in S /\ Rank(R, S, seq[k]) = k - 1
        <3>1. seq[k] = Ranked(k)
            BY <1>2, <2>1
        <3>2. \E x \in S : Cardinality({y \in S : MemberBefore(alerts, y, x)}) = k - 1
            BY <1>7, <2>2
        <3>3. Ranked(k) \in S /\ Cardinality({y \in S : MemberBefore(alerts, y, Ranked(k))}) = k - 1
            BY <3>2
        <3> QED
            BY <1>7, <3>1, <3>3
    <2> QED
        BY <2>1, <2>2 DEF IsArranged
<1> HIDE DEF Ranked
<1>9. seq = [k \in DOMAIN seq |-> seq[k]]
    BY <1>2
<1> QED
    BY <1>1, <1>4, <1>6, <1>8, <1>9, ArrangedLists

-------------------------------------------------------------------------------
(* The batches of a group.                                                 *)

LEMMA PartOf ==
    ASSUME NEW S, NEW m \in Nat, NEW s \in [1 .. m -> S], NEW a \in Nat, NEW size \in Nat, a + size <= m
    PROVE  /\ SubSeq(s, a + 1, a + size) \in [1 .. size -> S]
           /\ \A k \in 1 .. size : SubSeq(s, a + 1, a + size)[k] = s[a + k]
<1>1. s \in Seq(S) /\ Len(s) = m
    BY LenIs
<1>2. PICK t : t = SubSeq(s, a + 1, a + size)
    OBVIOUS
<1>3. \A i \in a + 1 .. a + size : s[i] \in S
    OBVIOUS
<1>4. Len(t) = size /\ t \in Seq(S)
    BY <1>1, <1>2
<1>5. \A k \in 1 .. size : t[k] = s[a + k]
    BY <1>1, <1>2
<1>6. t \in [1 .. size -> S]
    BY <1>4
<1> QED
    BY <1>2, <1>5, <1>6

Elements(alerts) == {alerts[i] : i \in DOMAIN alerts}

BatchIs(b, alerts, key, members, from, size) ==
    /\ b.key = key
    /\ b.alerts \in [1 .. size -> Elements(alerts)]
    /\ \A k \in 1 .. size : from + k \in DOMAIN members /\ b.alerts[k] = alerts[members[from + k]]
    /\ b.ids = [k \in 1 .. size |-> TransportId(b.alerts[k])]

AreBatches(bs, alerts, key, members, offset, sizes, count, m, cap) ==
    /\ Lists(members, m, OfKey(alerts, key)) /\ IsPartition(sizes, offset, count, m, cap)
    /\ DOMAIN bs = 1 .. count /\ bs = [i \in 1 .. count |-> bs[i]]
    /\ \A i \in 1 .. count : BatchIs(bs[i], alerts, key, members, offset[i - 1], sizes[i])

LEMMA BatchesOfAGroup ==
    ASSUME NEW alerts, IsToAssess(alerts), NEW cap \in Nat \ {0}, NEW key \in AllKeys(alerts),
           NEW members, members = MembersOf(alerts, key),
           NEW group, group.key = key,
           group.alerts = [k \in DOMAIN members |-> alerts[members[k]]],
           NEW sizes, sizes = PartitionSizes(Len(members), cap),
           NEW offset, offset = OffsetsOf(sizes)
    PROVE  \E count, m : AreBatches(BatchesOf(group, cap), alerts, key, members, offset, sizes, count, m, cap)
<1>1. PICK m : Lists(members, m, OfKey(alerts, key))
    BY MembersInOrder
<1>2. /\ m \in Nat /\ members \in [1 .. m -> OfKey(alerts, key)] /\ Len(members) = m
      /\ OfKey(alerts, key) # {} /\ OfKey(alerts, key) \subseteq DOMAIN alerts
      /\ \A x \in OfKey(alerts, key) : \E k \in 1 .. m : members[k] = x
    BY <1>1 DEF Lists, OfKey, AllKeys
<1>3. m \in Nat \ {0}
    BY <1>2
<1>4. PICK all : all = group.alerts
    OBVIOUS
<1>5. all \in [1 .. m -> Elements(alerts)] /\ \A k \in 1 .. m : all[k] = alerts[members[k]]
    BY <1>2, <1>4 DEF Elements
<1>6. Len(all) = m
    BY <1>2, <1>5, LenIs
<1>7. sizes = PartitionSizes(m, cap)
    BY <1>2
<1>8. PICK count : IsPartition(sizes, offset, count, m, cap)
    BY <1>3, <1>7, PartsAre
<1>9. /\ count \in Nat \ {0} /\ DOMAIN sizes = 1 .. count /\ Len(sizes) = count
      /\ \A i \in 1 .. count : sizes[i] \in Nat
      /\ IsCut(offset, sizes, count) /\ offset[count] = m
    BY <1>8 DEF IsPartition
<1> DEFINE Part(i) == SubSeq(group.alerts, offset[i - 1] + 1, offset[i])
           BatchAt(i) == [key |-> group.key, index |-> i, count |-> Len(sizes), alerts |-> Part(i),
                          ids |-> [k \in DOMAIN Part(i) |-> TransportId(Part(i)[k])]]
           bs == [i \in DOMAIN sizes |-> BatchAt(i)]
<1>10. BatchesOf(group, cap) = bs
    <2>1. PartitionSizes(Len(group.alerts), cap) = sizes
        BY <1>4, <1>6, <1>7
    <2>2. BatchesOf(group, cap) =
              LET sz == PartitionSizes(Len(group.alerts), cap)
                  of == OffsetsOf(sz)
              IN [i \in DOMAIN sz |->
                     [key |-> group.key, index |-> i, count |-> Len(sz),
                      alerts |-> SubSeq(group.alerts, of[i - 1] + 1, of[i]),
                      ids |-> [k \in DOMAIN SubSeq(group.alerts, of[i - 1] + 1, of[i]) |->
                                  TransportId(SubSeq(group.alerts, of[i - 1] + 1, of[i])[k])]]]
        BY DEF BatchesOf
    <2> QED
        BY <2>1, <2>2
<1>11. ASSUME NEW i \in 1 .. count
       PROVE  BatchIs(BatchAt(i), alerts, key, members, offset[i - 1], sizes[i])
    <2>1. PICK a, size, p : a = offset[i - 1] /\ size = sizes[i] /\ p = Part(i)
        OBVIOUS
    <2>2. /\ \A k \in 0 .. count : offset[k] \in Nat
          /\ \A k, l \in 0 .. count : k <= l => offset[k] <= offset[l]
        <3>1. IsCut(offset, sizes, count)
            BY <1>9
        <3> QED
            BY ONLY <3>1, CutGrows
    <2>3. i - 1 \in 0 .. count /\ i \in 0 .. count /\ count \in 0 .. count /\ i <= count
        BY <1>9
    <2>4. offset[i] = a + size /\ size \in Nat /\ a \in Nat /\ offset[i] <= m
        BY <1>9, <2>1, <2>2, <2>3 DEF IsCut
    <2>5. p = SubSeq(all, a + 1, a + size) /\ a + size <= m
        BY <1>4, <2>1, <2>4
    <2>6. p \in [1 .. size -> Elements(alerts)]
        BY <1>2, <1>5, <2>4, <2>5, PartOf
    <2>7. \A k \in 1 .. size : p[k] = all[a + k]
        BY <1>2, <1>5, <2>4, <2>5, PartOf
    <2>8. \A k \in 1 .. size : a + k \in 1 .. m
        BY <1>2, <2>4, <2>5
    <2>9. \A k \in 1 .. size : a + k \in DOMAIN members /\ p[k] = alerts[members[a + k]]
        BY <1>2, <1>5, <2>7, <2>8
    <2>10. PICK b : b = BatchAt(i)
        OBVIOUS
    <2>11. b.ids = [k \in DOMAIN p |-> TransportId(p[k])] /\ b.key = key /\ b.alerts = p
        BY <2>1, <2>10
    <2>12. b.ids = [k \in 1 .. size |-> TransportId(b.alerts[k])]
        BY <2>6, <2>11
    <2> HIDE DEF BatchAt
    <2>13. BatchIs(b, alerts, key, members, a, size)
        BY <2>6, <2>9, <2>11, <2>12 DEF BatchIs
    <2> QED
        BY <2>1, <2>10, <2>13
<1> HIDE DEF BatchAt
<1>12. \A i \in 1 .. count : BatchIs(bs[i], alerts, key, members, offset[i - 1], sizes[i])
    BY <1>9, <1>11
<1>13. DOMAIN bs = 1 .. count /\ bs = [i \in 1 .. count |-> bs[i]]
    BY <1>9
<1> HIDE DEF bs
<1>14. AreBatches(bs, alerts, key, members, offset, sizes, count, m, cap)
    BY <1>1, <1>8, <1>12, <1>13 DEF AreBatches
<1> QED
    BY <1>10, <1>14

-------------------------------------------------------------------------------
(* All the batches.                                                        *)

SizesOf(alerts, cap, key) == PartitionSizes(Len(MembersOf(alerts, key)), cap)
EndsOf(alerts, cap, key) == OffsetsOf(SizesOf(alerts, cap, key))

\* Of each key all parts, each once.
BatchesAre(bs, at, alerts, cap) ==
    /\ Len(bs) \in Nat /\ DOMAIN bs = 1 .. Len(bs)
    /\ \A b \in 1 .. Len(bs) :
           /\ at[b][1] \in AllKeys(alerts) /\ at[b][2] \in 1 .. Len(SizesOf(alerts, cap, at[b][1]))
           /\ at[b] = <<at[b][1], at[b][2]>>
           /\ BatchIs(bs[b], alerts, at[b][1], MembersOf(alerts, at[b][1]),
                      EndsOf(alerts, cap, at[b][1])[at[b][2] - 1], SizesOf(alerts, cap, at[b][1])[at[b][2]])
    /\ \A b, c \in 1 .. Len(bs) : at[b] = at[c] => b = c
    /\ \A key \in AllKeys(alerts) : \A i \in 1 .. Len(SizesOf(alerts, cap, key)) :
           \E b \in 1 .. Len(bs) : at[b] = <<key, i>>

LEMMA KeyParts ==
    ASSUME NEW alerts, IsToAssess(alerts), NEW cap \in Nat \ {0}, NEW key \in AllKeys(alerts)
    PROVE  \E count, m : /\ Lists(MembersOf(alerts, key), m, OfKey(alerts, key))
                         /\ IsPartition(SizesOf(alerts, cap, key), EndsOf(alerts, cap, key), count, m, cap)
<1>1. PICK m : Lists(MembersOf(alerts, key), m, OfKey(alerts, key))
    BY MembersInOrder
<1>2. m \in Nat /\ Len(MembersOf(alerts, key)) = m /\ m # 0
    <2>1. OfKey(alerts, key) # {}
        BY DEF OfKey, AllKeys
    <2> QED
        BY <1>1, <2>1 DEF Lists
<1>3. m \in Nat \ {0} /\ SizesOf(alerts, cap, key) = PartitionSizes(m, cap)
    BY <1>2 DEF SizesOf
<1>4. \E count : IsPartition(SizesOf(alerts, cap, key), EndsOf(alerts, cap, key), count, m, cap)
    BY <1>3, PartsAre DEF EndsOf
<1> QED
    BY <1>1, <1>4

LEMMA TheBatches ==
    ASSUME NEW alerts, IsToAssess(alerts), NEW configured, Cap(configured) \in Nat \ {0}
    PROVE  \E at : BatchesAre(BuildBatches(alerts, configured), at, alerts, Cap(configured))
<1>1. PICK cap, groups, keys : cap = Cap(configured) /\ groups = GroupAlerts(alerts) /\ keys = KeysOf(alerts)
    OBVIOUS
<1>2. PICK n : Lists(keys, n, AllKeys(alerts))
    BY <1>1, KeysInOrder
<1>3. n \in Nat /\ DOMAIN keys = 1 .. n /\ \A g \in 1 .. n : keys[g] \in AllKeys(alerts)
    BY <1>2 DEF Lists
<1>4. /\ DOMAIN groups = 1 .. n
      /\ \A g \in 1 .. n :
             /\ groups[g].key = keys[g]
             /\ groups[g].alerts = [k \in DOMAIN MembersOf(alerts, keys[g]) |->
                                       alerts[MembersOf(alerts, keys[g])[k]]]
    BY <1>1, <1>3 DEF GroupAlerts
<1>5. PICK ss : ss = [g \in 1 .. n |-> BatchesOf(groups[g], cap)]
    OBVIOUS
<1>6. BuildBatches(alerts, configured) = FlattenSeq(ss)
    BY <1>1, <1>4, <1>5 DEF BuildBatches
<1>7. ASSUME NEW g \in 1 .. n
      PROVE  \E count, m : AreBatches(ss[g], alerts, keys[g], MembersOf(alerts, keys[g]),
                                      EndsOf(alerts, cap, keys[g]), SizesOf(alerts, cap, keys[g]),
                                      count, m, cap)
    <2>1. cap \in Nat \ {0} /\ keys[g] \in AllKeys(alerts)
        BY <1>1, <1>3
    <2>2. PICK group, key, members : group = groups[g] /\ key = keys[g] /\ members = MembersOf(alerts, key)
        OBVIOUS
    <2>3. group.key = key /\ group.alerts = [k \in DOMAIN members |-> alerts[members[k]]]
        BY <1>4, <2>2
    <2>4. PICK sizes, offset : sizes = PartitionSizes(Len(members), cap) /\ offset = OffsetsOf(sizes)
        OBVIOUS
    <2>5. \E count, m : AreBatches(BatchesOf(group, cap), alerts, key, members, offset, sizes, count, m, cap)
        BY <2>1, <2>2, <2>3, <2>4, BatchesOfAGroup
    <2>6. sizes = SizesOf(alerts, cap, key) /\ offset = EndsOf(alerts, cap, key)
        BY <2>2, <2>4 DEF SizesOf, EndsOf
    <2>7. ss[g] = BatchesOf(group, cap)
        BY <1>5, <2>2
    <2> QED
        BY <2>2, <2>5, <2>6, <2>7
<1>8. \A g \in 1 .. n :
          /\ Len(SizesOf(alerts, cap, keys[g])) \in Nat
          /\ ss[g] = [i \in 1 .. Len(SizesOf(alerts, cap, keys[g])) |-> ss[g][i]]
          /\ \A i \in 1 .. Len(SizesOf(alerts, cap, keys[g])) :
                 BatchIs(ss[g][i], alerts, keys[g], MembersOf(alerts, keys[g]),
                         EndsOf(alerts, cap, keys[g])[i - 1], SizesOf(alerts, cap, keys[g])[i])
    BY <1>7 DEF AreBatches, IsPartition
<1> DEFINE S == {ss[c[1]][c[2]] : c \in (1 .. n) \X Nat}
<1>9. ASSUME NEW g \in 1 .. n
      PROVE  ss[g] \in Seq(S) /\ Len(ss[g]) = Len(SizesOf(alerts, cap, keys[g]))
    <2>1. PICK l, s : l = Len(SizesOf(alerts, cap, keys[g])) /\ s = ss[g]
        OBVIOUS
    <2>2. l \in Nat /\ s = [i \in 1 .. l |-> s[i]]
        BY <1>8, <2>1
    <2>3. ASSUME NEW i \in 1 .. l PROVE s[i] \in S
        <3>1. PICK c : c = <<g, i>>
            OBVIOUS
        <3>2. c \in (1 .. n) \X Nat /\ ss[c[1]][c[2]] = s[i]
            BY <2>1, <2>2, <3>1
        <3> QED
            BY <3>2
    <2> HIDE DEF S
    <2>4. s \in [1 .. l -> S]
        BY <2>2, <2>3
    <2>5. s \in Seq(S) /\ Len(s) = l
        BY <2>2, <2>4, LenIs
    <2> QED
        BY <2>1, <2>5
<1> HIDE DEF S
<1>10. ss \in [1 .. n -> Seq(S)]
    BY <1>5, <1>9
<1>11. PICK bs : bs = FlattenSeq(ss)
    OBVIOUS
<1>12. bs \in Seq(S)
    BY <1>3, <1>10, <1>11, Flattened
<1>13. PICK place : IsFlat(bs, ss, place)
    BY <1>3, <1>10, <1>11, Flattened
<1>14. Len(ss) = n
    BY <1>3, <1>10, LenIs
<1> DEFINE at == [b \in 1 .. Len(bs) |-> <<keys[place[b][1]], place[b][2]>>]
<1>15. Len(bs) \in Nat /\ DOMAIN bs = 1 .. Len(bs)
    BY <1>12
<1>16. ASSUME NEW b \in 1 .. Len(bs)
       PROVE  /\ place[b][1] \in 1 .. n /\ place[b] = <<place[b][1], place[b][2]>>
              /\ place[b][2] \in 1 .. Len(SizesOf(alerts, cap, keys[place[b][1]]))
              /\ bs[b] = ss[place[b][1]][place[b][2]]
    <2>1. place[b] \in (1 .. n) \X Nat
        BY <1>13, <1>14 DEF IsFlat
    <2>2. PICK g, i : g = place[b][1] /\ i = place[b][2]
        OBVIOUS
    <2>3. g \in 1 .. n /\ place[b] = <<g, i>>
        BY <2>1, <2>2
    <2>4. i \in 1 .. Len(ss[g]) /\ bs[b] = ss[g][i]
        BY <1>13, <2>2 DEF IsFlat
    <2>5. i \in 1 .. Len(SizesOf(alerts, cap, keys[g]))
        BY <1>9, <2>3, <2>4
    <2> QED
        BY <2>2, <2>3, <2>4, <2>5
<1>17. ASSUME NEW b \in 1 .. Len(bs)
       PROVE  /\ at[b][1] \in AllKeys(alerts) /\ at[b][2] \in 1 .. Len(SizesOf(alerts, cap, at[b][1]))
              /\ at[b] = <<at[b][1], at[b][2]>>
              /\ BatchIs(bs[b], alerts, at[b][1], MembersOf(alerts, at[b][1]),
                         EndsOf(alerts, cap, at[b][1])[at[b][2] - 1],
                         SizesOf(alerts, cap, at[b][1])[at[b][2]])
    <2>1. PICK g, i : g = place[b][1] /\ i = place[b][2]
        OBVIOUS
    <2>2. g \in 1 .. n /\ i \in 1 .. Len(SizesOf(alerts, cap, keys[g])) /\ bs[b] = ss[g][i]
        BY <1>16, <2>1
    <2>3. at[b][1] = keys[g] /\ at[b][2] = i /\ at[b] = <<keys[g], i>>
        BY <2>1
    <2>4. BatchIs(bs[b], alerts, keys[g], MembersOf(alerts, keys[g]),
                  EndsOf(alerts, cap, keys[g])[i - 1], SizesOf(alerts, cap, keys[g])[i])
        BY <1>8, <2>2
    <2> QED
        BY <1>3, <2>2, <2>3, <2>4
<1>18. ASSUME NEW b \in 1 .. Len(bs), NEW c \in 1 .. Len(bs), at[b] = at[c] PROVE b = c
    <2>1. keys[place[b][1]] = keys[place[c][1]] /\ place[b][2] = place[c][2]
        BY <1>18
    <2>2. place[b][1] = place[c][1]
        BY <1>2, <1>16, <2>1 DEF Lists
    <2>3. place[b] = place[c]
        BY <1>16, <2>1, <2>2
    <2> QED
        BY <1>13, <2>3 DEF IsFlat
<1>19. ASSUME NEW key \in AllKeys(alerts), NEW i \in 1 .. Len(SizesOf(alerts, cap, key))
       PROVE  \E b \in 1 .. Len(bs) : at[b] = <<key, i>>
    <2>1. PICK g \in 1 .. n : keys[g] = key
        BY <1>2 DEF Lists
    <2>2. i \in 1 .. Len(ss[g])
        BY <1>9, <2>1
    <2>3. PICK b \in 1 .. Len(bs) : place[b] = <<g, i>>
        BY <1>13, <1>14, <2>2 DEF IsFlat
    <2> QED
        BY <2>1, <2>3
<1> HIDE DEF at
<1>20. BatchesAre(bs, at, alerts, cap)
    BY <1>15, <1>17, <1>18, <1>19 DEF BatchesAre
<1> QED
    BY <1>1, <1>6, <1>11, <1>20

LEMMA IntervalCount ==
    ASSUME NEW m \in Nat
    PROVE  IsFiniteSet(1 .. m) /\ Cardinality(1 .. m) = m
<1>1. IsFiniteSet(1 .. m)
    BY FS_Interval
<1>2. Cardinality(1 .. m) = m
    <2>1. Cardinality(1 .. m) = IF 1 > m THEN 0 ELSE m - 1 + 1
        BY FS_Interval
    <2> QED
        BY <2>1
<1> QED
    BY <1>1, <1>2

LEMMA EveryAlertIsSent ==
    ASSUME NEW alerts, IsToAssess(alerts), NEW cap \in Nat \ {0},
           NEW bs, NEW at, BatchesAre(bs, at, alerts, cap),
           NEW parts, parts = [b \in DOMAIN bs |-> bs[b].alerts],
           NEW sent, sent = FlattenSeq(parts)
    PROVE  Len(sent) = Len(alerts) /\ Range(sent) = Range(alerts)
<1>1. PICK n, N : n = Len(bs) /\ N = Len(alerts)
    OBVIOUS
<1>2. n \in Nat /\ DOMAIN bs = 1 .. n
    BY <1>1 DEF BatchesAre
<1>3. N \in Nat /\ DOMAIN alerts = 1 .. N
    BY <1>1, PlacesAreFinite
<1> DEFINE Key(b) == at[b][1]
           Members(b) == MembersOf(alerts, Key(b))
           From(b) == EndsOf(alerts, cap, Key(b))[at[b][2] - 1]
           Size(b) == SizesOf(alerts, cap, Key(b))[at[b][2]]
<1>4. ASSUME NEW b \in 1 .. n
      PROVE  /\ Key(b) \in AllKeys(alerts) /\ at[b][2] \in 1 .. Len(SizesOf(alerts, cap, Key(b)))
             /\ at[b] = <<Key(b), at[b][2]>>
             /\ BatchIs(bs[b], alerts, Key(b), Members(b), From(b), Size(b))
    BY <1>1 DEF BatchesAre
<1>5. ASSUME NEW b \in 1 .. n PROVE Size(b) \in Nat
    <2>1. PICK count, m : IsPartition(SizesOf(alerts, cap, Key(b)), EndsOf(alerts, cap, Key(b)), count, m, cap)
        BY <1>4, KeyParts
    <2> QED
        BY <1>4, <2>1 DEF IsPartition
<1>6. ASSUME NEW b \in 1 .. n
      PROVE  /\ parts[b] = bs[b].alerts /\ parts[b] \in Seq(Elements(alerts)) /\ Len(parts[b]) = Size(b)
             /\ \A k \in 1 .. Size(b) : /\ From(b) + k \in DOMAIN Members(b)
                                        /\ parts[b][k] = alerts[Members(b)[From(b) + k]]
    <2>1. parts[b] = bs[b].alerts
        BY <1>2
    <2>2. PICK size, p : size = Size(b) /\ p = parts[b]
        OBVIOUS
    <2> HIDE DEF Size, From, Members, Key
    <2>3. size \in Nat /\ p \in [1 .. size -> Elements(alerts)]
        BY <1>4, <1>5, <2>1, <2>2 DEF BatchIs
    <2>4. p \in Seq(Elements(alerts)) /\ Len(p) = size
        BY <2>3, LenIs
    <2> QED
        BY <1>4, <2>1, <2>2, <2>4 DEF BatchIs
<1>7. parts \in [1 .. n -> Seq(Elements(alerts))]
    <2>1. parts = [b \in 1 .. n |-> parts[b]]
        BY <1>2
    <2> QED
        BY <1>6, <2>1
<1>8. sent \in Seq(Elements(alerts))
    BY <1>2, <1>7, Flattened
<1>9. PICK place : IsFlat(sent, parts, place)
    BY <1>2, <1>7, Flattened
<1>10. Len(parts) = n
    BY <1>2, <1>7, LenIs
<1>11. PICK M \in Nat : M = Len(sent)
    BY <1>8
<1>12. sent \in [1 .. M -> Elements(alerts)]
    BY <1>8, <1>11
<1> HIDE DEF Size, From, Members, Key
<1>13. ASSUME NEW p \in 1 .. M
       PROVE  /\ place[p][1] \in 1 .. n /\ place[p] = <<place[p][1], place[p][2]>>
              /\ place[p][2] \in 1 .. Size(place[p][1])
              /\ sent[p] = parts[place[p][1]][place[p][2]]
    <2>1. place[p] \in (1 .. n) \X Nat
        BY <1>9, <1>10, <1>11 DEF IsFlat
    <2>2. PICK b, k : b = place[p][1] /\ k = place[p][2]
        OBVIOUS
    <2>3. b \in 1 .. n /\ place[p] = <<b, k>>
        BY <2>1, <2>2
    <2>4. k \in 1 .. Len(parts[b]) /\ sent[p] = parts[b][k]
        BY <1>9, <1>11, <2>2 DEF IsFlat
    <2> QED
        BY <1>6, <2>2, <2>3, <2>4
<1> DEFINE F(p) == Members(place[p][1])[From(place[p][1]) + place[p][2]]
           f == [p \in 1 .. M |-> F(p)]
<1>14. ASSUME NEW p \in 1 .. M
       PROVE  f[p] \in 1 .. N /\ GroupKey(alerts[f[p]]) = Key(place[p][1]) /\ sent[p] = alerts[f[p]]
    <2>1. PICK b, k : b = place[p][1] /\ k = place[p][2]
        OBVIOUS
    <2>2. b \in 1 .. n /\ k \in 1 .. Size(b) /\ sent[p] = parts[b][k]
        BY <1>13, <2>1
    <2>3. From(b) + k \in DOMAIN Members(b) /\ parts[b][k] = alerts[Members(b)[From(b) + k]]
        BY <1>6, <2>2
    <2>4. PICK m : Lists(Members(b), m, OfKey(alerts, Key(b)))
        BY <1>4, <2>2, MembersInOrder DEF Members
    <2>5. Members(b)[From(b) + k] \in OfKey(alerts, Key(b))
        BY <2>3, <2>4 DEF Lists
    <2>6. f[p] = Members(b)[From(b) + k]
        BY <2>1
    <2> QED
        BY <1>3, <2>1, <2>2, <2>3, <2>5, <2>6 DEF OfKey
<1>15. ASSUME NEW p \in 1 .. M, NEW q \in 1 .. M, f[p] = f[q] PROVE p = q
    <2>1. PICK b, k : b = place[p][1] /\ k = place[p][2]
        OBVIOUS
    <2>2. PICK c, l : c = place[q][1] /\ l = place[q][2]
        OBVIOUS
    <2>3. b \in 1 .. n /\ k \in 1 .. Size(b) /\ c \in 1 .. n /\ l \in 1 .. Size(c)
        BY <1>13, <2>1, <2>2
    <2>4. Key(b) = Key(c)
        <3>1. GroupKey(alerts[f[p]]) = Key(b)
            BY <1>14, <2>1
        <3>2. GroupKey(alerts[f[q]]) = Key(c)
            BY <1>14, <2>2
        <3> HIDE DEF f, F
        <3> QED
            BY <1>15, <3>1, <3>2
    <2>5. PICK key, i, j : key = Key(b) /\ i = at[b][2] /\ j = at[c][2]
        OBVIOUS
    <2>6. /\ key \in AllKeys(alerts) /\ at[b] = <<key, i>> /\ at[c] = <<key, j>>
          /\ i \in 1 .. Len(SizesOf(alerts, cap, key)) /\ j \in 1 .. Len(SizesOf(alerts, cap, key))
        BY <1>4, <2>3, <2>4, <2>5
    <2>7. PICK members, sizes, ends : /\ members = MembersOf(alerts, key)
                                      /\ sizes = SizesOf(alerts, cap, key)
                                      /\ ends = EndsOf(alerts, cap, key)
        OBVIOUS
    <2>8. PICK count, m : Lists(members, m, OfKey(alerts, key)) /\ IsPartition(sizes, ends, count, m, cap)
        BY <2>6, <2>7, KeyParts
    <2>9. /\ Members(b) = members /\ Members(c) = members /\ Size(b) = sizes[i] /\ Size(c) = sizes[j]
          /\ From(b) = ends[i - 1] /\ From(c) = ends[j - 1]
        BY <2>4, <2>5, <2>7 DEF Members, Size, From
    <2>10. f[p] = members[ends[i - 1] + k] /\ f[q] = members[ends[j - 1] + l]
        BY <2>1, <2>2, <2>9
    <2>11. ends[i - 1] + k \in DOMAIN members /\ ends[j - 1] + l \in DOMAIN members
        BY <1>6, <2>3, <2>9
    <2>12. ends[i - 1] + k = ends[j - 1] + l
        BY <1>15, <2>8, <2>10, <2>11 DEF Lists
    <2>13. IsCut(ends, sizes, count) /\ Len(sizes) = count
        BY <2>8 DEF IsPartition
    <2>14. CutApart(ends, sizes, count)
        BY <2>13, CutOnce
    <2>15. i \in 1 .. count /\ j \in 1 .. count /\ k \in 1 .. sizes[i] /\ l \in 1 .. sizes[j]
        BY <2>3, <2>6, <2>7, <2>9, <2>13
    <2> HIDE DEF f, F
    <2>16. \A d \in 1 .. count : \A e \in 1 .. sizes[i] : \A g \in 1 .. sizes[d] :
               ends[i - 1] + e = ends[d - 1] + g => i = d /\ e = g
        BY <2>14, <2>15 DEF CutApart
    <2>17. i = j /\ k = l
        BY <2>12, <2>15, <2>16
    <2>18. b = c
        BY <1>1, <2>3, <2>6, <2>17 DEF BatchesAre
    <2>19. place[p] = place[q]
        <3>1. place[p] = <<b, k>>
            BY <1>13, <2>1
        <3>2. place[q] = <<c, l>>
            BY <1>13, <2>2
        <3> QED
            BY <2>17, <2>18, <3>1, <3>2
    <2> QED
        BY <1>9, <1>11, <2>19 DEF IsFlat
<1>16. ASSUME NEW x \in 1 .. N PROVE \E p \in 1 .. M : f[p] = x
    <2>1. PICK key : key = GroupKey(alerts[x])
        OBVIOUS
    <2>2. key \in AllKeys(alerts) /\ x \in OfKey(alerts, key)
        BY <1>3, <2>1 DEF AllKeys, OfKey
    <2>3. PICK members, sizes, ends : /\ members = MembersOf(alerts, key)
                                      /\ sizes = SizesOf(alerts, cap, key)
                                      /\ ends = EndsOf(alerts, cap, key)
        OBVIOUS
    <2>4. PICK count, m : Lists(members, m, OfKey(alerts, key)) /\ IsPartition(sizes, ends, count, m, cap)
        BY <2>2, <2>3, KeyParts
    <2>5. PICK y \in 1 .. m : members[y] = x
        BY <2>2, <2>4 DEF Lists
    <2>6. IsCut(ends, sizes, count) /\ Len(sizes) = count /\ ends[count] = m
        BY <2>4 DEF IsPartition
    <2>7. CutCovers(ends, sizes, count)
        BY <2>6, CutOnce
    <2>8. PICK i \in 1 .. count : \E k \in 1 .. sizes[i] : y = ends[i - 1] + k
        BY <2>5, <2>6, <2>7 DEF CutCovers
    <2>9. PICK k \in 1 .. sizes[i] : y = ends[i - 1] + k
        BY <2>8
    <2>10. PICK b \in 1 .. n : at[b] = <<key, i>>
        BY <1>1, <2>2, <2>3, <2>6 DEF BatchesAre
    <2>11. Members(b) = members /\ Size(b) = sizes[i] /\ From(b) = ends[i - 1]
        BY <2>3, <2>10 DEF Members, Size, From, Key
    <2>12. k \in 1 .. Len(parts[b])
        BY <1>6, <2>9, <2>11
    <2>13. PICK p \in 1 .. M : place[p] = <<b, k>>
        BY <1>9, <1>10, <1>11, <2>12 DEF IsFlat
    <2>14. f[p] = members[ends[i - 1] + k]
        BY <2>11, <2>13
    <2> QED
        BY <2>5, <2>9, <2>14
<1>17. f = [p \in 1 .. M |-> f[p]]
    OBVIOUS
<1> HIDE DEF f, F
<1>18. f \in [1 .. M -> 1 .. N]
    BY <1>14, <1>17
<1>19. f \in Bijection(1 .. M, 1 .. N)
    BY <1>15, <1>16, <1>18 DEF Bijection, Injection, Surjection, IsInjective
<1>20. M = N
    <2>1. IsFiniteSet(1 .. M) /\ Cardinality(1 .. M) = M
        BY <1>11, IntervalCount
    <2>2. IsFiniteSet(1 .. N) /\ Cardinality(1 .. N) = N
        BY <1>3, IntervalCount
    <2>3. Cardinality(1 .. M) = Cardinality(1 .. N)
        <3>1. PICK S, T : S = 1 .. M /\ T = 1 .. N
            OBVIOUS
        <3>2. f \in Bijection(S, T) /\ IsFiniteSet(S)
            BY <1>19, <2>1, <3>1
        <3>3. Cardinality(T) = Cardinality(S)
            <4>1. ExistsBijection(S, T)
                BY <3>2 DEF ExistsBijection
            <4> QED
                BY <3>2, <4>1, FS_Bijection
        <3> QED
            BY <3>1, <3>3
    <2> QED
        BY <2>1, <2>2, <2>3
<1>21. \A p \in 1 .. M : sent[p] = alerts[f[p]]
    BY <1>14
<1>22. Range(sent) = Range(alerts)
    <2>1. DOMAIN sent = 1 .. M
        BY <1>12
    <2>2. \A p \in 1 .. M : f[p] \in 1 .. N
        BY <1>18
    <2>3. Range(sent) \subseteq Range(alerts)
        BY <1>3, <1>21, <2>1, <2>2 DEF Range
    <2>4. ASSUME NEW x \in 1 .. N PROVE alerts[x] \in Range(sent)
        <3>1. PICK p \in 1 .. M : f[p] = x
            BY <1>16
        <3> QED
            BY <1>21, <2>1, <3>1 DEF Range
    <2>5. Range(alerts) \subseteq Range(sent)
        BY <1>3, <2>4 DEF Range
    <2> QED
        BY <2>3, <2>5
<1> QED
    BY <1>1, <1>11, <1>20, <1>22

-------------------------------------------------------------------------------
(* One batch.                                                              *)

\* Alerts of one group, no more than the cap, told apart by what they are called.
IsBatch(b, alerts, cap, size) ==
    /\ size \in 1 .. cap /\ b.alerts \in [1 .. size -> Elements(alerts)]
    /\ b.ids = [k \in 1 .. size |-> TransportId(b.alerts[k])]
    /\ \A k \in 1 .. size : GroupKey(b.alerts[k]) = b.key
    /\ \A j, k \in 1 .. size : b.ids[j] = b.ids[k] => j = k

LEMMA EachIsABatch ==
    ASSUME NEW alerts, IsToAssess(alerts), NEW cap \in Nat \ {0},
           NEW bs, NEW at, BatchesAre(bs, at, alerts, cap), NEW b \in 1 .. Len(bs)
    PROVE  IsBatch(bs[b], alerts, cap, SizesOf(alerts, cap, at[b][1])[at[b][2]])
<1>1. PICK key, i : key = at[b][1] /\ i = at[b][2]
    OBVIOUS
<1>2. PICK members, sizes, ends : /\ members = MembersOf(alerts, key) /\ sizes = SizesOf(alerts, cap, key)
                                  /\ ends = EndsOf(alerts, cap, key)
    OBVIOUS
<1>3. /\ key \in AllKeys(alerts) /\ i \in 1 .. Len(sizes)
      /\ BatchIs(bs[b], alerts, key, members, ends[i - 1], sizes[i])
    BY <1>1, <1>2 DEF BatchesAre
<1>4. PICK count, m : Lists(members, m, OfKey(alerts, key)) /\ IsPartition(sizes, ends, count, m, cap)
    BY <1>2, <1>3, KeyParts
<1>5. PICK size, from, x : size = sizes[i] /\ from = ends[i - 1] /\ x = bs[b]
    OBVIOUS
<1>6. i \in 1 .. count /\ size \in 1 .. cap /\ from \in Nat
    <2>1. i \in 1 .. count /\ size \in 1 .. cap /\ count \in Nat
        BY <1>3, <1>4, <1>5 DEF IsPartition
    <2>2. \A k \in 0 .. count : ends[k] \in Nat
        BY <1>4, CutGrows DEF IsPartition
    <2>3. i - 1 \in 0 .. count
        BY <2>1
    <2> QED
        BY <1>5, <2>1, <2>2, <2>3
<1>7. /\ x.key = key /\ x.alerts \in [1 .. size -> Elements(alerts)]
      /\ x.ids = [k \in 1 .. size |-> TransportId(x.alerts[k])]
      /\ \A k \in 1 .. size : from + k \in DOMAIN members /\ x.alerts[k] = alerts[members[from + k]]
    BY <1>3, <1>5 DEF BatchIs
<1>8. ASSUME NEW k \in 1 .. size PROVE members[from + k] \in OfKey(alerts, key)
    <2>1. from + k \in 1 .. m
        BY <1>4, <1>7 DEF Lists
    <2> QED
        BY <1>4, <2>1 DEF Lists
<1>9. \A k \in 1 .. size : GroupKey(x.alerts[k]) = x.key
    BY <1>7, <1>8 DEF OfKey
<1>10. ASSUME NEW j \in 1 .. size, NEW k \in 1 .. size, x.ids[j] = x.ids[k] PROVE j = k
    <2>1. PICK p, q : p = members[from + j] /\ q = members[from + k]
        OBVIOUS
    <2>2. p \in DOMAIN alerts /\ q \in DOMAIN alerts
        BY <1>8, <2>1 DEF OfKey
    <2>3. TransportId(alerts[p]) = TransportId(alerts[q])
        BY <1>7, <1>10, <2>1
    <2>4. p = q
        BY <2>2, <2>3 DEF IsToAssess
    <2>5. from + j \in 1 .. m /\ from + k \in 1 .. m
        BY <1>4, <1>7 DEF Lists
    <2>6. from + j = from + k
        BY <1>4, <2>1, <2>4, <2>5 DEF Lists
    <2> QED
        BY <1>6, <2>6
<1>11. IsBatch(x, alerts, cap, size)
    BY <1>6, <1>7, <1>9, <1>10 DEF IsBatch
<1> QED
    BY <1>1, <1>2, <1>5, <1>11

LEMMA NearlyOneSize ==
    ASSUME NEW alerts, IsToAssess(alerts), NEW cap \in Nat \ {0},
           NEW bs, NEW at, BatchesAre(bs, at, alerts, cap),
           NEW b \in 1 .. Len(bs), NEW c \in 1 .. Len(bs), bs[c].key = bs[b].key
    PROVE  Len(bs[c].alerts) - Len(bs[b].alerts) \in -1 .. 1
<1>1. PICK key, i, j : key = at[b][1] /\ i = at[b][2] /\ j = at[c][2]
    OBVIOUS
<1>2. bs[b].key = at[b][1] /\ bs[c].key = at[c][1]
    BY DEF BatchesAre, BatchIs
<1>3. at[c][1] = key
    BY <1>1, <1>2
<1>4. PICK sizes, ends : sizes = SizesOf(alerts, cap, key) /\ ends = EndsOf(alerts, cap, key)
    OBVIOUS
<1>5. key \in AllKeys(alerts) /\ i \in 1 .. Len(sizes) /\ j \in 1 .. Len(sizes)
    BY <1>1, <1>3, <1>4 DEF BatchesAre
<1>6. PICK count, m : IsPartition(sizes, ends, count, m, cap)
    BY <1>4, <1>5, KeyParts
<1>7. sizes[j] - sizes[i] \in -1 .. 1
    BY <1>5, <1>6 DEF IsPartition
<1>8. IsBatch(bs[b], alerts, cap, sizes[i])
    BY <1>1, <1>4, EachIsABatch
<1>9. IsBatch(bs[c], alerts, cap, sizes[j])
    BY <1>1, <1>3, <1>4, EachIsABatch
<1>10. PICK u, v, x, y : u = sizes[i] /\ v = sizes[j] /\ x = bs[b].alerts /\ y = bs[c].alerts
    OBVIOUS
<1>11. u \in Nat /\ v \in Nat /\ x \in [1 .. u -> Elements(alerts)] /\ y \in [1 .. v -> Elements(alerts)]
    BY <1>8, <1>9, <1>10 DEF IsBatch
<1>12. Len(x) = u /\ Len(y) = v
    BY <1>11, LenIs
<1> QED
    BY <1>7, <1>10, <1>12

LEMMA NothingIsLost ==
    ASSUME NEW alerts, IsToAssess(alerts), NEW cap \in Nat \ {0}, NEW size,
           NEW batch, IsBatch(batch, alerts, cap, size)
    PROVE  IsLossless(batch)
<1>1. PICK all, shared : all = batch.alerts /\ shared = SharedFieldNames(batch)
    OBVIOUS
<1>2. DOMAIN all = 1 .. size /\ size \in Nat \ {0} /\ \A k \in 1 .. size : all[k] \in Elements(alerts)
    BY <1>1 DEF IsBatch
<1>3. ASSUME NEW k \in 1 .. size
      PROVE  ReconstructDocument(BuildRequest(batch), k) = all[k].source
    <2>1. PICK source, first : source = all[k].source /\ first = all[1].source
        OBVIOUS
    <2>2. source = [f \in DOMAIN source |-> source[f]]
        <3>1. PICK i \in DOMAIN alerts : all[k] = alerts[i]
            BY <1>2 DEF Elements
        <3> QED
            BY <2>1, <3>1 DEF IsToAssess
    <2>3. \A f \in shared : f \in DOMAIN source /\ source[f] = first[f]
        BY <1>1, <1>2, <2>1 DEF SharedFieldNames
    <2>4. PICK own : own = [f \in DOMAIN source \ shared |-> source[f]]
        OBVIOUS
    <2>5. PICK common : common = [f \in shared |-> first[f]]
        OBVIOUS
    <2>6. BuildRequest(batch).alerts[k].fields = own /\ BuildRequest(batch).shared = common
        <3>1. BuildRequest(batch) =
                  [batch_id |-> BatchId(batch),
                   shared |-> [f \in shared |-> all[1].source[f]],
                   alerts |-> [j \in DOMAIN all |->
                                  [alert_id |-> batch.ids[j], schema |-> all[j].schema,
                                   fields |-> [f \in DOMAIN all[j].source \ shared |-> all[j].source[f]]]]]
            BY <1>1 DEF BuildRequest
        <3>2. PICK request : request = BuildRequest(batch)
            OBVIOUS
        <3>3. request.shared = common
            BY <2>1, <2>5, <3>1, <3>2
        <3>4. request.alerts = [j \in DOMAIN all |->
                                  [alert_id |-> batch.ids[j], schema |-> all[j].schema,
                                   fields |-> [f \in DOMAIN all[j].source \ shared |-> all[j].source[f]]]]
            BY <3>1, <3>2
        <3>5. request.alerts[k].fields = own
            BY <1>2, <2>1, <2>4, <3>4
        <3> QED
            BY <3>2, <3>3, <3>5
    <2>7. ReconstructDocument(BuildRequest(batch), k) =
              [f \in DOMAIN own \union DOMAIN common |-> IF f \in DOMAIN own THEN own[f] ELSE common[f]]
        BY <2>6 DEF ReconstructDocument
    <2>8. DOMAIN own \union DOMAIN common = DOMAIN source
        BY <2>3, <2>4, <2>5
    <2>9. \A f \in DOMAIN source : (IF f \in DOMAIN own THEN own[f] ELSE common[f]) = source[f]
        BY <2>3, <2>4, <2>5
    <2> QED
        BY <2>1, <2>2, <2>7, <2>8, <2>9
<1> QED
    BY <1>1, <1>2, <1>3 DEF IsLossless

\* What is sent is all that is to be assessed (property BatchesAreWhole).
LEMMA BatchesWhole ==
    ASSUME NEW alerts, IsToAssess(alerts), NEW configured, Cap(configured) \in Nat \ {0}
    PROVE  BatchesAreWhole(alerts, configured)
<1>1. PICK cap, bs : cap = Cap(configured) /\ bs = BuildBatches(alerts, configured)
    OBVIOUS
<1>2. PICK at : BatchesAre(bs, at, alerts, cap)
    BY <1>1, TheBatches
<1>3. PICK parts, sent : parts = [b \in DOMAIN bs |-> bs[b].alerts] /\ sent = FlattenSeq(parts)
    OBVIOUS
<1>4. Len(sent) = Len(alerts) /\ Range(sent) = Range(alerts)
    BY <1>1, <1>2, <1>3, EveryAlertIsSent
<1>5. DOMAIN bs = 1 .. Len(bs)
    BY <1>2 DEF BatchesAre
<1>6. ASSUME NEW b \in DOMAIN bs
      PROVE  /\ Len(bs[b].alerts) \in 1 .. cap
             /\ \A a \in Range(bs[b].alerts) : GroupKey(a) = bs[b].key
             /\ IsLossless(bs[b])
             /\ \A c \in DOMAIN bs : bs[c].key = bs[b].key =>
                                         Len(bs[c].alerts) - Len(bs[b].alerts) \in -1 .. 1
    <2>1. PICK size : IsBatch(bs[b], alerts, cap, size)
        BY <1>1, <1>2, <1>5, EachIsABatch
    <2>2. PICK all : all = bs[b].alerts
        OBVIOUS
    <2>3. size \in Nat /\ size \in 1 .. cap /\ all \in [1 .. size -> Elements(alerts)]
        BY <2>1, <2>2 DEF IsBatch
    <2>4. Len(all) = size
        BY <2>3, LenIs
    <2>5. \A a \in Range(all) : GroupKey(a) = bs[b].key
        BY <2>1, <2>2, <2>3 DEF IsBatch, Range
    <2>6. IsLossless(bs[b])
        BY <1>1, <2>1, NothingIsLost
    <2>7. \A c \in DOMAIN bs : bs[c].key = bs[b].key => Len(bs[c].alerts) - Len(bs[b].alerts) \in -1 .. 1
        BY <1>1, <1>2, <1>5, NearlyOneSize
    <2> QED
        BY <2>2, <2>3, <2>4, <2>5, <2>6, <2>7
<1>7. BatchesAreWhole(alerts, configured) =
          LET batches == bs
              flat == FlattenSeq([b \in DOMAIN bs |-> bs[b].alerts])
          IN  /\ Len(flat) = Len(alerts) /\ Range(flat) = Range(alerts)
              /\ \A b \in DOMAIN bs :
                     /\ Len(bs[b].alerts) \in 1 .. cap
                     /\ \A a \in Range(bs[b].alerts) : GroupKey(a) = bs[b].key
                     /\ IsLossless(bs[b])
                     /\ \A c \in DOMAIN bs :
                            bs[c].key = bs[b].key =>
                                Len(bs[c].alerts) - Len(bs[b].alerts) \in -1 .. 1
    BY <1>1 DEF BatchesAreWhole
<1> QED
    BY <1>3, <1>4, <1>6, <1>7

-------------------------------------------------------------------------------
(* The answer to a batch.                                                  *)

LEMMA AsManyAs ==
    ASSUME NEW n \in Nat, NEW m \in Nat, NEW f, f \in Injection(1 .. n, 1 .. m)
    PROVE  /\ n = m => \A j \in 1 .. m : \E k \in 1 .. n : f[k] = j
           /\ (\A j \in 1 .. m : \E k \in 1 .. n : f[k] = j) => n = m
<1>1. PICK S, T : S = 1 .. n /\ T = 1 .. m
    OBVIOUS
<1>2. /\ IsFiniteSet(S) /\ Cardinality(S) = n /\ IsFiniteSet(T) /\ Cardinality(T) = m
    BY <1>1, IntervalCount
<1>3. f \in Injection(S, T)
    BY <1>1
<1>4. Cardinality(S) = Cardinality(T) <=> f \in Surjection(S, T)
    BY <1>2, <1>3, FS_Injection
<1>5. f \in [S -> T]
    BY <1>3 DEF Injection
<1>6. f \in Surjection(S, T) <=> \A j \in T : \E k \in S : f[k] = j
    BY <1>5 DEF Surjection
<1> QED
    BY <1>1, <1>2, <1>4, <1>6

\* How many there are of what is told apart.
LEMMA CountOf ==
    ASSUME NEW n \in Nat, NEW f, \A j, k \in 1 .. n : f[j] = f[k] => j = k
    PROVE  Cardinality({f[k] : k \in 1 .. n}) = n
<1>1. PICK S, T : S = 1 .. n /\ T = {f[k] : k \in 1 .. n}
    OBVIOUS
<1>2. PICK g : g = [k \in S |-> f[k]]
    OBVIOUS
<1>3. g \in Bijection(S, T)
    <2>1. g \in [S -> T]
        BY <1>1, <1>2
    <2>2. \A j, k \in S : g[j] = g[k] => j = k
        BY <1>1, <1>2
    <2>3. \A t \in T : \E k \in S : g[k] = t
        BY <1>1, <1>2
    <2> QED
        BY <2>1, <2>2, <2>3 DEF Bijection, Injection, Surjection, IsInjective
<1>4. IsFiniteSet(S) /\ Cardinality(S) = n
    BY <1>1, IntervalCount
<1>5. ExistsBijection(S, T)
    BY <1>3 DEF ExistsBijection
<1>6. Cardinality(T) = Cardinality(S)
    BY <1>4, <1>5, FS_Bijection
<1> QED
    BY <1>1, <1>4, <1>6

LEMMA ToldApart ==
    ASSUME NEW n \in Nat, NEW f, Cardinality({f[k] : k \in 1 .. n}) = n
    PROVE  \A j, k \in 1 .. n : f[j] = f[k] => j = k
<1>1. PICK S, T : S = 1 .. n /\ T = {f[k] : k \in 1 .. n}
    OBVIOUS
<1>2. PICK g : g = [k \in S |-> f[k]]
    OBVIOUS
<1>3. g \in Surjection(S, T)
    BY <1>1, <1>2 DEF Surjection
<1>4. IsFiniteSet(S) /\ Cardinality(S) = n
    BY <1>1, IntervalCount
<1>5. Cardinality(T) = Cardinality(S) <=> g \in Injection(S, T)
    BY <1>3, <1>4, FS_Surjection
<1>6. g \in Injection(S, T)
    BY <1>1, <1>4, <1>5
<1>7. \A j, k \in S : g[j] = g[k] => j = k
    BY <1>6 DEF Injection, IsInjective
<1> QED
    BY <1>1, <1>2, <1>7

\* The j-th is the only one said of id.
OnlyOne(said, n, id, j) == j \in 1 .. n /\ \A i \in 1 .. n : said[i] = id <=> i = j

\* What is said is what is asked, with nothing said twice.
AllSaid(said, n, ids, size) ==
    /\ Cardinality({said[j] : j \in 1 .. n}) = n
    /\ {said[j] : j \in 1 .. n} = {ids[k] : k \in 1 .. size}

EachOnce(said, n, ids, size) ==
    n = size /\ \A k \in 1 .. size : \E j : OnlyOne(said, n, ids[k], j)

LEMMA SaidOnce ==
    ASSUME NEW n \in Nat, NEW size \in Nat, NEW said, NEW ids,
           \A j, k \in 1 .. size : ids[j] = ids[k] => j = k
    PROVE  AllSaid(said, n, ids, size) <=> EachOnce(said, n, ids, size)
<1>1. PICK Names, Ids : Names = {said[j] : j \in 1 .. n} /\ Ids = {ids[k] : k \in 1 .. size}
    OBVIOUS
<1>2. Cardinality(Ids) = size
    BY <1>1, CountOf
<1>3. ASSUME Cardinality(Names) = n, Names = Ids
      PROVE  n = size /\ \A k \in 1 .. size : \E j : OnlyOne(said, n, ids[k], j)
    <2>1. n = size
        BY <1>2, <1>3
    <2>2. Cardinality({said[j] : j \in 1 .. n}) = n
        BY <1>1, <1>3
    <2>3. \A i, j \in 1 .. n : said[i] = said[j] => i = j
        BY <2>2, ToldApart
    <2>4. ASSUME NEW k \in 1 .. size PROVE \E j : OnlyOne(said, n, ids[k], j)
        <3>1. PICK j \in 1 .. n : said[j] = ids[k]
            BY <1>1, <1>3
        <3>2. OnlyOne(said, n, ids[k], j)
            BY <2>3, <3>1 DEF OnlyOne
        <3> QED
            BY <3>2
    <2> QED
        BY <2>1, <2>4
<1>4. ASSUME n = size, \A k \in 1 .. size : \E j : OnlyOne(said, n, ids[k], j)
      PROVE  Cardinality(Names) = n /\ Names = Ids
    <2> DEFINE f == [k \in 1 .. size |-> CHOOSE j : OnlyOne(said, n, ids[k], j)]
    <2>1. ASSUME NEW k \in 1 .. size PROVE f[k] \in 1 .. n /\ said[f[k]] = ids[k]
        <3>1. OnlyOne(said, n, ids[k], f[k])
            BY <1>4
        <3> QED
            BY <3>1 DEF OnlyOne
    <2>2. f = [k \in 1 .. size |-> f[k]]
        OBVIOUS
    <2> HIDE DEF f
    <2>3. f \in [1 .. size -> 1 .. n]
        BY <2>1, <2>2
    <2>4. \A j, k \in 1 .. size : f[j] = f[k] => j = k
        BY <2>1
    <2>5. f \in Injection(1 .. size, 1 .. n)
        BY <2>3, <2>4 DEF Injection, IsInjective
    <2>6. \A j \in 1 .. n : \E k \in 1 .. size : f[k] = j
        BY <1>4, <2>5, AsManyAs
    <2>7. Names = Ids
        BY <1>1, <2>1, <2>6
    <2> QED
        BY <1>2, <1>4, <2>7
<1> QED
    BY <1>1, <1>3, <1>4 DEF AllSaid, EachOnce

Named(n) == [j \in 1 .. n |-> response.verdicts[j].alert_id]

LEMMA StatedOnce ==
    ASSUME IsArray(response.verdicts), NEW id, NEW n, n = Len(response.verdicts)
    PROVE  /\ \A v \in StatedFor(id) : \E j : OnlyOne(Named(n), n, id, j) /\ v = response.verdicts[j]
           /\ \A j : OnlyOne(Named(n), n, id, j) => StatedFor(id) = {response.verdicts[j]}
<1>1. PICK vs, said : vs = response.verdicts /\ said = Named(n)
    OBVIOUS
<1>2. n \in Nat /\ DOMAIN vs = 1 .. n /\ said = [j \in 1 .. n |-> vs[j].alert_id]
    <2>1. PICK S : vs \in Seq(S)
        BY <1>1 DEF IsArray
    <2> QED
        BY <1>1, <2>1 DEF Named
<1>3. PICK named : named = {j \in 1 .. n : vs[j].alert_id = id}
    OBVIOUS
<1>4. StatedFor(id) = IF Cardinality(named) = 1 THEN {vs[j] : j \in named} ELSE {}
    BY <1>1, <1>2, <1>3 DEF StatedFor
<1>5. IsFiniteSet(named)
    <2>1. IsFiniteSet(1 .. n)
        BY <1>2, FS_Interval
    <2> QED
        BY <1>3, <2>1, FS_Subset
<1>6. \A j : OnlyOne(said, n, id, j) <=> named = {j}
    BY <1>2, <1>3 DEF OnlyOne
<1>7. ASSUME NEW v \in StatedFor(id)
      PROVE  \E j : OnlyOne(said, n, id, j) /\ v = vs[j]
    <2>1. Cardinality(named) = 1 /\ v \in {vs[j] : j \in named}
        BY <1>4
    <2>2. PICK j : named = {j}
        BY <1>5, <2>1, FS_Singleton
    <2> QED
        BY <1>6, <2>1, <2>2
<1>8. ASSUME NEW j, OnlyOne(said, n, id, j)
      PROVE  StatedFor(id) = {vs[j]}
    <2>1. named = {j}
        BY <1>6, <1>8
    <2>2. Cardinality(named) = 1
        BY <2>1, FS_Singleton
    <2> QED
        BY <1>4, <2>1, <2>2
<1> QED
    BY <1>1, <1>7, <1>8

\* What is said of the k-th alert of the batch, that can be said of it.
SaidOf(batch, k) ==
    {v \in StatedFor(batch.ids[k]) : ValidVerdict(v) /\ Applicable(v, batch.alerts[k])}

InOrder(verdicts, ids) ==
    [k \in DOMAIN ids |-> verdicts[CHOOSE j \in DOMAIN verdicts : verdicts[j].alert_id = ids[k]]]

WholeAnswer(batch) ==
    /\ response.batch_id = BatchId(batch)
    /\ Len(response.verdicts) = Len(batch.ids)
    /\ \A k \in DOMAIN batch.alerts : SaidOf(batch, k) # {}

\* The response is taken exactly when it is whole, each alert with its own verdict.
LEMMA TakenWhole ==
    ASSUME NEW alerts, NEW cap \in Nat \ {0}, NEW size, NEW batch, IsBatch(batch, alerts, cap, size),
           IsArray(response.verdicts)
    PROVE  IF WholeAnswer(batch)
           THEN /\ ValidateResponse(response, batch) # <<>>
                /\ \A k \in 1 .. size : ValidateResponse(response, batch)[k] \in SaidOf(batch, k)
           ELSE ValidateResponse(response, batch) = <<>>
<1>1. PICK ids, n, vs : ids = batch.ids /\ n = Len(response.verdicts) /\ vs = response.verdicts
    OBVIOUS
<1>2. PICK said : said = Named(n)
    OBVIOUS
<1>3. n \in Nat /\ DOMAIN vs = 1 .. n /\ said = [j \in 1 .. n |-> vs[j].alert_id]
    <2>1. PICK S : vs \in Seq(S)
        BY <1>1 DEF IsArray
    <2> QED
        BY <1>1, <1>2, <2>1 DEF Named
<1>4. /\ size \in Nat \ {0} /\ DOMAIN batch.alerts = 1 .. size
      /\ ids = [k \in 1 .. size |-> TransportId(batch.alerts[k])]
      /\ \A j, k \in 1 .. size : ids[j] = ids[k] => j = k
    BY <1>1 DEF IsBatch
<1>5. DOMAIN ids = 1 .. size /\ Len(ids) = size
    <2>1. ids \in [1 .. size -> {ids[k] : k \in 1 .. size}]
        BY <1>4
    <2> QED
        BY <1>4, <2>1, LenIs
<1>6. \A id : \A v \in StatedFor(id) : \E j : OnlyOne(said, n, id, j) /\ v = vs[j]
    BY <1>1, <1>2, StatedOnce
<1>7. \A id : \A j : OnlyOne(said, n, id, j) => StatedFor(id) = {vs[j]}
    BY <1>1, <1>2, StatedOnce
<1>8. PICK ordered : ordered = InRequestOrder(response, batch)
    OBVIOUS
<1>9. ordered = [k \in 1 .. size |-> vs[CHOOSE j \in DOMAIN vs : vs[j].alert_id = ids[k]]]
    <2>1. ordered = InOrder(response.verdicts, batch.ids)
        BY <1>8 DEF InRequestOrder, InOrder
    <2>2. ordered = InOrder(vs, ids)
        BY <1>1, <2>1
    <2> QED
        BY <1>5, <2>2 DEF InOrder
<1>10. ASSUME NEW k \in 1 .. size, NEW j, OnlyOne(said, n, ids[k], j) PROVE ordered[k] = vs[j]
    <2>1. \A i \in 1 .. n : vs[i].alert_id = ids[k] <=> i = j
        BY <1>3, <1>10 DEF OnlyOne
    <2>2. (CHOOSE i \in DOMAIN vs : vs[i].alert_id = ids[k]) = j
        BY <1>3, <1>10, <2>1 DEF OnlyOne
    <2> QED
        BY <1>9, <2>2
<1> DEFINE Covers == EachOnce(said, n, ids, size)
           Taken == /\ response.batch_id = BatchId(batch)
                    /\ \A j \in 1 .. n : ValidVerdict(vs[j])
                    /\ Covers
                    /\ \A k \in 1 .. size : Applicable(ordered[k], batch.alerts[k])
<1>11. CoversRequest(response, batch) <=> Covers
    <2>1. Range(ids) = {ids[k] : k \in 1 .. size}
        BY <1>5 DEF Range
    <2>2. {vs[j].alert_id : j \in 1 .. n} = {said[j] : j \in 1 .. n}
        BY <1>3
    <2>3. CoversRequest(response, batch) <=>
              /\ Cardinality({vs[j].alert_id : j \in 1 .. n}) = n
              /\ {vs[j].alert_id : j \in 1 .. n} = Range(ids)
        BY <1>1, <1>3 DEF CoversRequest
    <2>4. CoversRequest(response, batch) <=> AllSaid(said, n, ids, size)
        BY <2>1, <2>2, <2>3 DEF AllSaid
    <2>5. AllSaid(said, n, ids, size) <=> EachOnce(said, n, ids, size)
        BY <1>3, <1>4, SaidOnce
    <2> QED
        BY <2>4, <2>5
<1>12. ValidateResponse(response, batch) = IF Taken THEN ordered ELSE <<>>
    <2>1. DOMAIN ordered = 1 .. size
        BY <1>9
    <2> HIDE DEF Covers
    <2>2. ValidateResponse(response, batch) =
              IF /\ response.batch_id = BatchId(batch)
                 /\ \A j \in DOMAIN vs : ValidVerdict(vs[j])
                 /\ CoversRequest(response, batch)
                 /\ \A k \in DOMAIN ordered : Applicable(ordered[k], batch.alerts[k])
              THEN ordered ELSE <<>>
        BY <1>1, <1>8 DEF ValidateResponse
    <2> QED
        BY <1>3, <1>11, <2>1, <2>2
<1>13. ASSUME Taken
       PROVE  WholeAnswer(batch) /\ \A k \in 1 .. size : ordered[k] \in SaidOf(batch, k)
    <2>1. ASSUME NEW k \in 1 .. size PROVE ordered[k] \in SaidOf(batch, k)
        <3>1. PICK j : OnlyOne(said, n, ids[k], j)
            BY <1>13 DEF EachOnce
        <3>2. ordered[k] = vs[j] /\ j \in 1 .. n /\ StatedFor(ids[k]) = {vs[j]}
            BY <1>7, <1>10, <3>1 DEF OnlyOne
        <3>3. ValidVerdict(ordered[k]) /\ Applicable(ordered[k], batch.alerts[k])
            BY <1>13, <3>2
        <3> QED
            BY <1>1, <3>2, <3>3 DEF SaidOf
    <2>2. response.batch_id = BatchId(batch) /\ n = size
        BY <1>13 DEF EachOnce
    <2> QED
        BY <1>1, <1>4, <1>5, <2>1, <2>2 DEF WholeAnswer
<1>14. ASSUME WholeAnswer(batch)
       PROVE  Taken
    <2>1. n = size /\ response.batch_id = BatchId(batch)
        BY <1>1, <1>5, <1>14 DEF WholeAnswer
    <2>2. ASSUME NEW k \in 1 .. size
          PROVE  \E j : /\ OnlyOne(said, n, ids[k], j) /\ ValidVerdict(vs[j])
                        /\ Applicable(vs[j], batch.alerts[k])
        <3>1. PICK v \in StatedFor(ids[k]) : ValidVerdict(v) /\ Applicable(v, batch.alerts[k])
            BY <1>1, <1>4, <1>14 DEF WholeAnswer, SaidOf
        <3>2. PICK j : OnlyOne(said, n, ids[k], j) /\ v = vs[j]
            BY <1>6
        <3> QED
            BY <3>1, <3>2
    <2>3. Covers
        BY <2>1, <2>2 DEF EachOnce
    <2>4. ASSUME NEW k \in 1 .. size PROVE Applicable(ordered[k], batch.alerts[k])
        <3>1. PICK j : OnlyOne(said, n, ids[k], j) /\ Applicable(vs[j], batch.alerts[k])
            BY <2>2
        <3> QED
            BY <1>10, <3>1
    <2>5. ASSUME NEW j \in 1 .. n PROVE ValidVerdict(vs[j])
        <3>1. {said[i] : i \in 1 .. n} = {ids[k] : k \in 1 .. size}
            <4>1. AllSaid(said, n, ids, size)
                BY <1>3, <1>4, <2>3, SaidOnce
            <4> QED
                BY <4>1 DEF AllSaid
        <3>2. PICK k \in 1 .. size : said[j] = ids[k]
            BY <3>1
        <3>3. PICK i : OnlyOne(said, n, ids[k], i) /\ ValidVerdict(vs[i])
            BY <2>2
        <3>4. i = j
            BY <3>2, <3>3 DEF OnlyOne
        <3> QED
            BY <3>3, <3>4
    <2> QED
        BY <2>1, <2>3, <2>4, <2>5
<1>15. ordered # <<>>
    <2>1. 1 \in DOMAIN ordered
        BY <1>4, <1>9
    <2> QED
        BY <2>1
<1> HIDE DEF Taken
<1> QED
    BY <1>12, <1>13, <1>14, <1>15

LEMMA LastOf ==
    ASSUME NEW n \in Nat, NEW S, S \subseteq 1 .. n, S # {}
    PROVE  \E k \in S : \A j \in k + 1 .. n : j \notin S
<1> DEFINE T == {i \in 0 .. n : n - i \in S}
<1>1. T \in SUBSET Nat /\ T # {}
    <2>1. PICK k \in S : TRUE
        OBVIOUS
    <2>2. n - k \in 0 .. n /\ n - (n - k) = k
        BY <2>1
    <2>3. n - k \in T
        BY <2>1, <2>2
    <2>4. T \subseteq Nat
        OBVIOUS
    <2> QED
        BY <2>3, <2>4
<1>2. PICK i \in T : \A j \in T : i <= j
    BY <1>1, LeastOf
<1>3. n - i \in S
    BY <1>2
<1>4. ASSUME NEW j \in n - i + 1 .. n PROVE j \notin S
    <2>1. n - j \in 0 .. n /\ ~(i <= n - j) /\ n - (n - j) = j
        BY <1>2
    <2>2. n - j \notin T
        BY <1>2, <2>1
    <2> QED
        BY <2>1, <2>2
<1> QED
    BY <1>3, <1>4

OutcomesBy(verdicts, alerts) ==
    LET Latest(identity) == CHOOSE k \in DOMAIN alerts :
            /\ IdentityOf(alerts[k]) = identity
            /\ \A j \in k + 1 .. Len(alerts) : IdentityOf(alerts[j]) # identity
    IN [identity \in {IdentityOf(alerts[k]) : k \in DOMAIN alerts} |->
           IF verdicts = <<>> THEN "unassessed" ELSE StateForVerdict(verdicts[Latest(identity)])]

\* An alert has the state of the latest of its identity, if the answer is whole.
LEMMA OutcomeOfAnAlert ==
    ASSUME NEW alerts, NEW cap \in Nat \ {0}, NEW size, NEW batch, IsBatch(batch, alerts, cap, size),
           IsArray(response.verdicts),
           NEW k \in 1 .. size, NEW identity, identity = IdentityOf(batch.alerts[k]),
           NEW outs, outs = OutcomesOf(response, batch)
    PROVE  /\ identity \in DOMAIN outs
           /\ WholeAnswer(batch) =>
                  \E j \in 1 .. size : /\ IdentityOf(batch.alerts[j]) = identity
                                       /\ \E v \in SaidOf(batch, j) : outs[identity] = StateForVerdict(v)
           /\ ~WholeAnswer(batch) => outs[identity] = "unassessed"
<1>1. PICK all, verdicts : all = batch.alerts /\ verdicts = ValidateResponse(response, batch)
    OBVIOUS
<1>2. DOMAIN all = 1 .. size /\ size \in Nat /\ Len(all) = size
    <2>1. size \in Nat /\ all \in [1 .. size -> Elements(alerts)]
        BY <1>1 DEF IsBatch
    <2> QED
        BY <2>1, LenIs
<1> DEFINE Latest(i) == CHOOSE j \in DOMAIN all :
                            /\ IdentityOf(all[j]) = i
                            /\ \A l \in j + 1 .. Len(all) : IdentityOf(all[l]) # i
<1>3. outs = [i \in {IdentityOf(all[j]) : j \in DOMAIN all} |->
                 IF verdicts = <<>> THEN "unassessed" ELSE StateForVerdict(verdicts[Latest(i)])]
    <2>1. outs = OutcomesBy(ValidateResponse(response, batch), batch.alerts)
        BY DEF OutcomesOf, OutcomesBy
    <2>2. outs = OutcomesBy(verdicts, all)
        BY <1>1, <2>1
    <2> QED
        BY <2>2 DEF OutcomesBy
<1>4. PICK last : last = Latest(identity)
    OBVIOUS
<1>5. last \in 1 .. size /\ IdentityOf(all[last]) = identity
    <2> DEFINE S == {j \in 1 .. size : IdentityOf(all[j]) = identity}
    <2>1. S \subseteq 1 .. size /\ S # {}
        BY <1>1
    <2> HIDE DEF S
    <2>2. PICK m \in S : \A j \in m + 1 .. size : j \notin S
        BY <1>2, <2>1, LastOf
    <2> USE DEF S
    <2>3. \E j \in DOMAIN all : /\ IdentityOf(all[j]) = identity
                                /\ \A l \in j + 1 .. Len(all) : IdentityOf(all[l]) # identity
        BY <1>2, <2>2
    <2> HIDE DEF S
    <2>4. last \in DOMAIN all /\ IdentityOf(all[last]) = identity
        BY <1>4, <2>3
    <2> QED
        BY <1>2, <2>4
<1> HIDE DEF Latest
<1>6. identity \in DOMAIN outs
    BY <1>1, <1>2, <1>3
<1>7. outs[identity] = IF verdicts = <<>> THEN "unassessed" ELSE StateForVerdict(verdicts[last])
    BY <1>1, <1>2, <1>3, <1>4
<1>8. IF WholeAnswer(batch) THEN verdicts # <<>> /\ \A j \in 1 .. size : verdicts[j] \in SaidOf(batch, j)
      ELSE verdicts = <<>>
    BY <1>1, TakenWhole
<1> QED
    BY <1>1, <1>5, <1>6, <1>7, <1>8

\* Whatever has been answered is what the outcomes say of the batch.
ExchangeInv ==
    /\ desk \in Desks
    /\ desk.kind = "exchange" =>
        /\ asked \in 0 .. Len(Batches)
        /\ response # NoResponse =>
            /\ asked > 0 /\ IsArray(response.verdicts)
            /\ \A i \in DOMAIN OutcomesOf(response, Batches[asked]) :
                   outcomes[i] = OutcomesOf(response, Batches[asked])[i]

LEMMA SomeBatches ==
    ASSUME NEW d \in Desks, d.kind = "exchange", NEW bs, bs = BuildBatches(d.alerts, d.configured)
    PROVE  /\ IsToAssess(d.alerts) /\ Cap(d.configured) \in Nat \ {0}
           /\ Len(bs) \in Nat /\ DOMAIN bs = 1 .. Len(bs)
<1>1. IsToAssess(d.alerts) /\ d.configured \in Nat \ {0} /\ MAX_BATCH_SIZE \in Nat \ {0}
    BY ExchangesAssumption
<1>2. Cap(d.configured) \in Nat \ {0}
    BY <1>1 DEF Cap
<1>3. PICK at : BatchesAre(bs, at, d.alerts, Cap(d.configured))
    BY <1>1, <1>2, TheBatches
<1> QED
    BY <1>1, <1>2, <1>3 DEF BatchesAre

LEMMA ExchangeInit == Init => ExchangeInv
<1> SUFFICES ASSUME Init PROVE ExchangeInv
    OBVIOUS
<1>1. desk \in Desks /\ asked = 0 /\ response = NoResponse
    BY DEF Init
<1>2. desk.kind = "exchange" => Len(Batches) \in Nat
    BY <1>1, SomeBatches DEF Batches
<1> QED
    BY <1>1, <1>2 DEF ExchangeInv

LEMMA ExchangeStays == ExchangeInv /\ [Next]_vars => ExchangeInv'
<1> SUFFICES ASSUME ExchangeInv, [Next]_vars PROVE ExchangeInv'
    OBVIOUS
<1>1. desk \in Desks /\ desk' = desk
    BY DEF ExchangeInv, Next, Ask, Answered, Reading, Operating, vars, deskVars
<1>2. PICK bs : bs = Batches /\ bs = Batches'
    BY <1>1 DEF Batches
<1>3. desk.kind = "exchange" => Len(bs) \in Nat /\ DOMAIN bs = 1 .. Len(bs) /\ asked \in 0 .. Len(bs)
    BY <1>1, <1>2, SomeBatches DEF Batches, ExchangeInv
<1>4. CASE Ask
    <2>1. response' = NoResponse /\ asked' \in 0 .. Len(bs)
        BY <1>2, <1>3, <1>4 DEF Ask
    <2> QED
        BY <1>1, <1>2, <2>1 DEF ExchangeInv, NoResponse
<1>5. CASE Answered
    <2>1. PICK batch, new : batch = bs[asked] /\ new = OutcomesOf(response', batch)
        OBVIOUS
    <2>2. /\ asked' = asked /\ asked \in 1 .. Len(bs) /\ response' \in Responses(batch)
          /\ outcomes' = WithOutcomes(outcomes, new)
        <3>1. asked' = asked /\ asked > 0 /\ desk.kind = "exchange"
            BY <1>5 DEF Answered
        <3>2. asked \in 1 .. Len(bs)
            BY <1>3, <3>1
        <3>3. /\ response' \in Responses(Batches[asked])
              /\ outcomes' = WithOutcomes(outcomes, OutcomesOf(response', Batches[asked]))
            BY <1>5 DEF Answered
        <3> QED
            BY <1>2, <2>1, <3>1, <3>2, <3>3
    <2>3. IsArray(response'.verdicts)
        <3>1. bs = BuildBatches(desk.alerts, desk.configured) /\ desk.kind = "exchange"
            BY <1>2, <1>5 DEF Batches, Answered
        <3>2. \A b \in DOMAIN bs : \A r \in Responses(bs[b]) : IsArray(r.verdicts)
            BY <1>1, <3>1, ExchangesAssumption
        <3> QED
            BY <1>3, <2>1, <2>2, <3>1, <3>2
    <2>4. \A i \in DOMAIN new : outcomes'[i] = new[i]
        BY <2>2 DEF WithOutcomes
    <2>5. new = OutcomesOf(response', Batches'[asked'])
        BY <1>2, <2>1, <2>2
    <2>6. asked' > 0 /\ asked' \in 0 .. Len(Batches')
        BY <1>2, <1>3, <1>5, <2>2 DEF Answered
    <2> QED
        BY <1>1, <2>3, <2>4, <2>5, <2>6 DEF ExchangeInv
<1>6. ASSUME UNCHANGED deskVars PROVE ExchangeInv'
    BY <1>6 DEF ExchangeInv, deskVars, Batches, NoResponse
<1>7. CASE Reading
    BY <1>6, <1>7 DEF Reading
<1>8. CASE Operating
    BY <1>6, <1>8 DEF Operating
<1>9. CASE UNCHANGED vars
    BY <1>6, <1>9 DEF vars, deskVars
<1> QED
    BY <1>4, <1>5, <1>7, <1>8, <1>9 DEF Next

LEMMA ExchangeBinds == ExchangeInv => AnswersBind
<1> SUFFICES ASSUME ExchangeInv, desk.kind = "exchange"
             PROVE  AnswersBind
    BY DEF AnswersBind
<1>1. PICK bs, cap : bs = Batches /\ cap = Cap(desk.configured)
    OBVIOUS
<1>2. /\ IsToAssess(desk.alerts) /\ cap \in Nat \ {0} /\ Len(bs) \in Nat /\ DOMAIN bs = 1 .. Len(bs)
    BY <1>1, SomeBatches DEF ExchangeInv, Batches
<1>3. BatchesAreWhole(desk.alerts, desk.configured)
    BY <1>1, <1>2, BatchesWhole
<1>4. ASSUME response # NoResponse, NEW k \in DOMAIN Batches[asked].alerts
      PROVE  LET batch == Batches[asked]
                 identity == IdentityOf(batch.alerts[k])
                 same == {j \in DOMAIN batch.alerts : IdentityOf(batch.alerts[j]) = identity}
             IN  IF WholeAnswer(batch)
                 THEN \E j \in same : outcomes[identity] \in {StateForVerdict(v) : v \in SaidOf(batch, j)}
                 ELSE outcomes[identity] = "unassessed"
    <2>1. PICK batch, outs : batch = Batches[asked] /\ outs = OutcomesOf(response, batch)
        OBVIOUS
    <2>2. /\ asked \in 1 .. Len(bs) /\ IsArray(response.verdicts)
          /\ \A i \in DOMAIN outs : outcomes[i] = outs[i]
        BY <1>1, <1>2, <1>4, <2>1 DEF ExchangeInv
    <2>3. PICK at : BatchesAre(bs, at, desk.alerts, cap)
        BY <1>1, <1>2, TheBatches DEF Batches
    <2>4. PICK size : IsBatch(batch, desk.alerts, cap, size)
        BY <1>1, <1>2, <2>1, <2>2, <2>3, EachIsABatch
    <2>5. DOMAIN batch.alerts = 1 .. size
        BY <2>4 DEF IsBatch
    <2>6. PICK identity : identity = IdentityOf(batch.alerts[k])
        OBVIOUS
    <2>7. k \in 1 .. size
        BY <1>4, <2>1, <2>5
    <2>8. identity \in DOMAIN outs
        BY <1>2, <2>1, <2>2, <2>4, <2>6, <2>7, OutcomeOfAnAlert
    <2>9. WholeAnswer(batch) =>
              \E j \in 1 .. size : /\ IdentityOf(batch.alerts[j]) = identity
                                   /\ \E v \in SaidOf(batch, j) : outs[identity] = StateForVerdict(v)
        BY <1>2, <2>1, <2>2, <2>4, <2>6, <2>7, OutcomeOfAnAlert
    <2>10. ~WholeAnswer(batch) => outs[identity] = "unassessed"
        BY <1>2, <2>1, <2>2, <2>4, <2>6, <2>7, OutcomeOfAnAlert
    <2>11. outcomes[identity] = outs[identity]
        BY <2>2, <2>8
    <2> QED
        BY <2>1, <2>5, <2>6, <2>9, <2>10, <2>11
<1> QED
    BY <1>3, <1>4 DEF AnswersBind, WholeAnswer, SaidOf

\* No verdict is attached to an alert it was not given for, whatever the alerts,
\* the size of the batches and the answers (property AnswersBind;
\* src/llm/grouping.py, request.py, response.py, assess.py).
THEOREM AnswersAreBound == Spec => []AnswersBind
<1> QED
    BY ExchangeInit, ExchangeStays, ExchangeBinds, PTL DEF Spec
===============================================================================
