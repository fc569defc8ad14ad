-------------------------- MODULE SchemaStream_proofs --------------------------
(***************************************************************************)
(* The accumulator is a function of the rows it has read, whatever their   *)
(* number, and what finish() makes of it are the figures that the rows     *)
(* define.                                                                 *)
(***************************************************************************)
EXTENDS RuleEngine, SchemaStream, TLAPS, FiniteSetTheorems, WellFoundedInduction

\* A set of naturals has a least one: the induction of this module.
LEMMA LeastOf ==
    ASSUME NEW T \in SUBSET Nat, T # {}
    PROVE  \E n \in T : \A m \in T : n <= m
<1> DEFINE R == {p \in Nat \X Nat : p[1] < p[2]}
<1>1. IsWellFoundedOn(R, Nat)
    BY NatLessThanWellFounded DEF OpToRel
<1> HIDE DEF R
<1>2. PICK n \in T : \A m \in T : <<m, n>> \notin R
    BY <1>1, WFMin
<1>3. ASSUME NEW m \in T PROVE n <= m
    <2>1. m \in Nat /\ n \in Nat /\ <<m, n>> \notin R
        BY <1>2
    <2> QED
        BY <2>1 DEF R
<1> QED
    BY <1>3

LEMMA MinIs ==
    ASSUME NEW T \in SUBSET Nat, T # {}
    PROVE  Min(T) \in T /\ \A m \in T : Min(T) <= m
BY LeastOf DEF Min

LEMMA MinIsThe ==
    ASSUME NEW T \in SUBSET Nat, NEW n \in T, \A m \in T : n <= m
    PROVE  Min(T) = n
<1>1. Min(T) \in T /\ Min(T) <= n
    BY MinIs
<1>2. n <= Min(T) /\ n \in Nat /\ Min(T) \in Nat
    BY <1>1
<1> QED
    BY <1>1, <1>2

LEMMA LeastIsMin ==
    ASSUME NEW T \in SUBSET Int, NEW n \in T, \A m \in T : n <= m
    PROVE  Min(T) = n
<1>1. \E x \in T : \A y \in T : x <= y
    OBVIOUS
<1>2. Min(T) \in T /\ \A m \in T : Min(T) <= m
    BY <1>1 DEF Min
<1> DEFINE m == Min(T)
<1> HIDE DEF m
<1>3. m \in Int /\ n \in Int /\ m <= n /\ n <= m
    BY <1>2 DEF m
<1>4. m = n
    BY <1>3
<1> QED
    BY <1>4 DEF m

LEMMA GreatestIsMax ==
    ASSUME NEW T \in SUBSET Int, NEW n \in T, \A m \in T : m <= n
    PROVE  Max(T) = n
<1>1. \E x \in T : \A y \in T : x >= y
    OBVIOUS
<1>2. Max(T) \in T /\ \A m \in T : Max(T) >= m
    BY <1>1 DEF Max
<1> DEFINE m == Max(T)
<1> HIDE DEF m
<1>3. m \in Int /\ n \in Int /\ m <= n /\ n <= m
    BY <1>2 DEF m
<1>4. m = n
    BY <1>3
<1> QED
    BY <1>4 DEF m

LEMMA SmallestSet ==
    ASSUME NEW C, C # {}, \A T \in C : IsFiniteSet(T)
    PROVE  \E T \in C : \A U \in C : U \subseteq T => U = T
<1> DEFINE N == {Cardinality(T) : T \in C}
<1>1. N \in SUBSET Nat /\ N # {}
    BY FS_CardinalityType
<1>2. PICK n \in N : \A m \in N : n <= m
    BY <1>1, LeastOf
<1>3. PICK T \in C : Cardinality(T) = n
    OBVIOUS
<1>4. ASSUME NEW U \in C, U \subseteq T, U # T PROVE FALSE
    <2>1. IsFiniteSet(T) /\ Cardinality(U) < Cardinality(T)
        BY <1>4, FS_Subset, FS_CardinalityType
    <2>2. Cardinality(U) \in Nat /\ Cardinality(U) \in N /\ n \in Nat
        BY <1>1, <1>4, FS_CardinalityType
    <2> QED
        BY <1>2, <1>3, <2>1, <2>2
<1> QED
    BY <1>4

LEMMA DisjointUnion ==
    ASSUME NEW S, NEW T, IsFiniteSet(S), IsFiniteSet(T), S \cap T = {}
    PROVE  Cardinality(S \cup T) = Cardinality(S) + Cardinality(T)
<1>1. Cardinality(S \cup T) = Cardinality(S) + Cardinality(T) - Cardinality(S \cap T)
    BY FS_Union
<1>2. Cardinality(S \cap T) = 0
    BY FS_EmptySet
<1> QED
    BY <1>1, <1>2, FS_CardinalityType

LEMMA Image ==
    ASSUME NEW J, IsFiniteSet(J), NEW key
    PROVE  IsFiniteSet({key[i] : i \in J})
<1> DEFINE f == [i \in J |-> key[i]]
           T == {key[i] : i \in J}
<1>1. f \in Surjection(J, T)
    BY DEF Surjection
<1> QED
    BY <1>1, FS_Surjection

-------------------------------------------------------------------------------
\* A sum over classes of a finite set counts its elements in these classes.
Class(J, key, T) == {i \in J : key[i] \in T}

LEMMA SumOfClasses ==
    ASSUME NEW J, IsFiniteSet(J), NEW key, NEW S, IsFiniteSet(S), NEW f,
           \A x \in S : f[x] = Cardinality(Class(J, key, {x}))
    PROVE  SumOf(f, S) = Cardinality(Class(J, key, S))
<1> DEFINE In(T) == Class(J, key, T)
           Pick(T) == CHOOSE x \in T : TRUE
           Step(g) == [T \in SUBSET S |->
                          IF T = {} THEN 0 ELSE f[Pick(T)] + g[T \ {Pick(T)}]]
           h == [T \in SUBSET S |-> Cardinality(In(T))]
           g == CHOOSE k : k = Step(k)
<1>1. SumOf(f, S) = g[S]
    BY DEF SumOf, FoldFunctionOnSet, MapThenFoldSet
<1>2. \A T : IsFiniteSet(In(T)) /\ Cardinality(In(T)) \in Nat
    BY FS_Subset, FS_CardinalityType DEF Class
<1>3. ASSUME NEW T \in SUBSET S, T # {}
      PROVE  /\ Pick(T) \in T
             /\ Cardinality(In(T)) = f[Pick(T)] + Cardinality(In(T \ {Pick(T)}))
    <2> DEFINE x == Pick(T)
    <2>1. x \in T
        BY <1>3
    <2> HIDE DEF x
    <2>2. /\ In(T) = In({x}) \cup In(T \ {x})
          /\ In({x}) \cap In(T \ {x}) = {}
        BY <2>1 DEF Class
    <2>3. Cardinality(In({x}) \cup In(T \ {x})) = Cardinality(In({x})) + Cardinality(In(T \ {x}))
        BY <1>2, <2>2, DisjointUnion
    <2>4. f[x] = Cardinality(In({x}))
        BY <2>1
    <2> QED
        BY <2>1, <2>2, <2>3, <2>4 DEF x
<1>4. Cardinality(In({})) = 0
    BY FS_EmptySet DEF Class
<1>5. h = Step(h)
    <2>1. ASSUME NEW T \in SUBSET S
          PROVE  h[T] = IF T = {} THEN 0 ELSE f[Pick(T)] + h[T \ {Pick(T)}]
        <3> HIDE DEF In, Pick
        <3>1. CASE T = {}
            BY <3>1, <1>4
        <3>2. CASE T # {}
            BY <3>2, <1>3
        <3> QED
            BY <3>1, <3>2
    <2> HIDE DEF In, Pick
    <2> QED
        BY <2>1
<1>6. g = Step(g)
    BY <1>5
<1> HIDE DEF g
<1>7. \A T \in SUBSET S : g[T] = IF T = {} THEN 0 ELSE f[Pick(T)] + g[T \ {Pick(T)}]
    <2> HIDE DEF Pick
    <2> QED
        BY <1>6
<1>8. ASSUME {T \in SUBSET S : g[T] # Cardinality(In(T))} # {} PROVE FALSE
    <2> DEFINE C == {T \in SUBSET S : g[T] # Cardinality(In(T))}
    <2>1. \A T \in C : IsFiniteSet(T)
        BY FS_Subset
    <2>2. C # {}
        BY <1>8
    <2> HIDE DEF C
    <2>3. PICK T \in C : \A U \in C : U \subseteq T => U = T
        BY <2>1, <2>2, SmallestSet
    <2>4. T \in SUBSET S /\ g[T] # Cardinality(In(T))
        BY <2>3 DEF C
    <2> HIDE DEF In, Pick
    <2>5. T # {}
        BY <1>4, <1>7, <2>4
    <2>6. T \ {Pick(T)} \notin C
        BY <1>3, <2>3, <2>4, <2>5
    <2>7. g[T \ {Pick(T)}] = Cardinality(In(T \ {Pick(T)}))
        BY <2>4, <2>6 DEF C
    <2> QED
        BY <1>3, <1>7, <2>4, <2>5, <2>7
<1> QED
    BY <1>1, <1>8

-------------------------------------------------------------------------------
\* The accumulator of a sequence of rows.
RowRules(row) == CoreRules(row) \cup ReadinessRules(row)
Signature(panels, row) == <<Mask(panels, row), CoreRules(row) # {}, IsHidden(panels, row)>>

RulesOf(rows, I) == UNION {RowRules(rows[i]) : i \in I}
SignaturesOf(panels, rows, I) == {Signature(panels, rows[i]) : i \in I}
Ruled(rows, I, r) == {i \in I : r \in RowRules(rows[i])}
Signed(panels, rows, I, s) == {i \in I : Signature(panels, rows[i]) = s}

DayOfRows(panels, rows, I) ==
    [count |-> Cardinality(I),
     rules |-> [r \in RulesOf(rows, I) |-> Cardinality(Ruled(rows, I, r))],
     signatures |-> [s \in SignaturesOf(panels, rows, I) |->
                        [count |-> Cardinality(Signed(panels, rows, I, s)),
                         first |-> Min(Signed(panels, rows, I, s))]]]

SamplesOfRows(rows, I) ==
    [r \in RulesOf(rows, I) |-> [matched_rows |-> Cardinality(Ruled(rows, I, r)),
                                 sample |-> Min(Ruled(rows, I, r))]]

ScopesOfRows(rows, I) ==
    [count |-> Cardinality(I),
     scopes |-> {Scope(rows[i]) : i \in I},
     nodes |-> {<<Scope(rows[i]), rows[i].node_name>> : i \in {j \in I : ~Blank(rows[j].node_name)}}]

-------------------------------------------------------------------------------
\* A row later than those of a set joins it.
Joins(old, new, I, k) ==
    /\ I \in SUBSET Nat /\ IsFiniteSet(I)
    /\ k \in Nat /\ \A i \in I : i < k
    /\ \A i \in I : new[i] = old[i]

LEMMA MinGrows ==
    ASSUME NEW T \in SUBSET Nat, NEW k \in Nat, \A t \in T : t < k
    PROVE  Min(T \cup {k}) = IF T = {} THEN k ELSE Min(T)
<1>1. CASE T = {}
    BY <1>1, MinIsThe
<1>2. CASE T # {}
    <2>1. Min(T) \in T /\ \A t \in T : Min(T) <= t
        BY <1>2, MinIs
    <2> DEFINE m == Min(T)
    <2> HIDE DEF m
    <2>2. m \in T \cup {k} /\ T \cup {k} \in SUBSET Nat
        BY <2>1 DEF m
    <2>3. m \in Nat /\ m < k
        BY <2>1 DEF m
    <2>4. \A t \in T \cup {k} : m <= t
        BY <2>1, <2>3 DEF m
    <2>5. Min(T \cup {k}) = m
        BY <2>2, <2>4, MinIsThe
    <2> QED
        BY <1>2, <2>5 DEF m
<1> QED
    BY <1>1, <1>2

LEMMA CountGrows ==
    ASSUME NEW T, IsFiniteSet(T), NEW k, k \notin T
    PROVE  Cardinality(T \cup {k}) = Cardinality(T) + 1
BY FS_AddElement

LEMMA JoinCounts ==
    ASSUME NEW old, NEW new, NEW I, NEW k, Joins(old, new, I, k)
    PROVE  /\ Cardinality(I \cup {k}) = Cardinality(I) + 1
           /\ Cardinality(I) \in Nat
BY CountGrows, FS_CardinalityType DEF Joins

LEMMA RuledGrows ==
    ASSUME NEW old, NEW new, NEW I, NEW k, Joins(old, new, I, k), NEW r
    PROVE  Ruled(new, I \cup {k}, r)
               = Ruled(old, I, r) \cup (IF r \in RowRules(new[k]) THEN {k} ELSE {})
BY DEF Joins, Ruled

LEMMA RulesGrow ==
    ASSUME NEW old, NEW new, NEW I, NEW k, Joins(old, new, I, k)
    PROVE  RulesOf(new, I \cup {k}) = RulesOf(old, I) \cup RowRules(new[k])
BY DEF Joins, RulesOf

LEMMA RuledIs ==
    ASSUME NEW old, NEW new, NEW I, NEW k, Joins(old, new, I, k), NEW r
    PROVE  /\ Ruled(old, I, r) \in SUBSET Nat /\ IsFiniteSet(Ruled(old, I, r))
           /\ k \notin Ruled(old, I, r) /\ \A i \in Ruled(old, I, r) : i < k
           /\ Ruled(old, I, r) = {} <=> r \notin RulesOf(old, I)
<1>1. Ruled(old, I, r) \in SUBSET I
    BY DEF Ruled
<1>2. Ruled(old, I, r) = {} <=> r \notin RulesOf(old, I)
    BY DEF Ruled, RulesOf
<1>3. IsFiniteSet(I) /\ I \in SUBSET Nat /\ k \in Nat /\ \A i \in I : i < k
    BY DEF Joins
<1>4. k \notin I
    BY <1>3
<1>5. IsFiniteSet(Ruled(old, I, r))
    BY <1>1, <1>3, FS_Subset
<1> QED
    BY <1>1, <1>2, <1>3, <1>4, <1>5

LEMMA SignedGrows ==
    ASSUME NEW panels, NEW old, NEW new, NEW I, NEW k, Joins(old, new, I, k), NEW s
    PROVE  Signed(panels, new, I \cup {k}, s)
               = Signed(panels, old, I, s)
                     \cup (IF s = Signature(panels, new[k]) THEN {k} ELSE {})
BY DEF Joins, Signed

LEMMA SignaturesGrow ==
    ASSUME NEW panels, NEW old, NEW new, NEW I, NEW k, Joins(old, new, I, k)
    PROVE  SignaturesOf(panels, new, I \cup {k})
               = SignaturesOf(panels, old, I) \cup {Signature(panels, new[k])}
BY DEF Joins, SignaturesOf

LEMMA SignedIs ==
    ASSUME NEW panels, NEW old, NEW new, NEW I, NEW k, Joins(old, new, I, k), NEW s
    PROVE  /\ Signed(panels, old, I, s) \in SUBSET Nat /\ IsFiniteSet(Signed(panels, old, I, s))
           /\ k \notin Signed(panels, old, I, s) /\ \A i \in Signed(panels, old, I, s) : i < k
           /\ Signed(panels, old, I, s) = {} <=> s \notin SignaturesOf(panels, old, I)
<1>1. Signed(panels, old, I, s) \in SUBSET I
    BY DEF Signed
<1>2. Signed(panels, old, I, s) = {} <=> s \notin SignaturesOf(panels, old, I)
    BY DEF Signed, SignaturesOf
<1>3. IsFiniteSet(I) /\ I \in SUBSET Nat /\ k \in Nat /\ \A i \in I : i < k
    BY DEF Joins
<1>4. k \notin I
    BY <1>3
<1>5. IsFiniteSet(Signed(panels, old, I, s))
    BY <1>1, <1>3, FS_Subset
<1> QED
    BY <1>1, <1>2, <1>3, <1>4, <1>5

LEMMA NoDay ==
    ASSUME NEW panels, NEW rows PROVE DayOfRows(panels, rows, {}) = EmptyDay
<1>1. RulesOf(rows, {}) = {} /\ SignaturesOf(panels, rows, {}) = {}
    BY DEF RulesOf, SignaturesOf
<1> QED
    BY <1>1, FS_EmptySet DEF DayOfRows, EmptyDay, EmptyBag, SetToBag

LEMMA RulesAdded ==
    ASSUME NEW panels, NEW old, NEW new, NEW I, NEW k, Joins(old, new, I, k)
    PROVE  DayOfRows(panels, old, I).rules (+) SetToBag(RowRules(new[k]))
               = DayOfRows(panels, new, I \cup {k}).rules
<1> DEFINE R == RowRules(new[k])
           B == [r \in RulesOf(old, I) |-> Cardinality(Ruled(old, I, r))]
           C == [r \in RulesOf(new, I \cup {k}) |-> Cardinality(Ruled(new, I \cup {k}, r))]
<1>1. B (+) SetToBag(R) = [r \in RulesOf(old, I) \cup R |->
          (IF r \in RulesOf(old, I) THEN B[r] ELSE 0) + (IF r \in R THEN 1 ELSE 0)]
    BY DEF (+), SetToBag
<1>2. RulesOf(new, I \cup {k}) = RulesOf(old, I) \cup R
    BY RulesGrow
<1>3. ASSUME NEW r \in RulesOf(old, I) \cup R
      PROVE  (IF r \in RulesOf(old, I) THEN B[r] ELSE 0) + (IF r \in R THEN 1 ELSE 0) = C[r]
    <2> DEFINE T == Ruled(old, I, r)
    <2>1. IsFiniteSet(T) /\ k \notin T /\ (T = {} <=> r \notin RulesOf(old, I))
        BY RuledIs
    <2>2. Cardinality(T) \in Nat /\ (T = {} => Cardinality(T) = 0)
        BY <2>1, FS_CardinalityType, FS_EmptySet
    <2>3. Cardinality(T \cup {k}) = Cardinality(T) + 1
        BY <2>1, CountGrows
    <2>4. Ruled(new, I \cup {k}, r) = T \cup (IF r \in R THEN {k} ELSE {})
        BY RuledGrows
    <2>5. C[r] = Cardinality(Ruled(new, I \cup {k}, r))
        BY <1>2, <1>3
    <2>6. (IF r \in RulesOf(old, I) THEN B[r] ELSE 0) = Cardinality(T)
        <3>1. r \in RulesOf(old, I) => B[r] = Cardinality(T)
            OBVIOUS
        <3> HIDE DEF B, T
        <3> QED
            BY <2>1, <2>2, <3>1
    <2> HIDE DEF T, R, B, C
    <2>7. CASE r \in R
        BY <2>2, <2>3, <2>4, <2>5, <2>6, <2>7
    <2>8. CASE r \notin R
        <3>1. C[r] = Cardinality(T)
            BY <2>4, <2>5, <2>8
        <3> QED
            BY <2>2, <2>6, <2>8, <3>1
    <2> QED
        BY <2>7, <2>8
<1> HIDE DEF R
<1>4. C = [r \in RulesOf(old, I) \cup R |-> C[r]]
    BY <1>2
<1>5. B (+) SetToBag(R) = C
    <2> HIDE DEF B, C
    <2> QED
        BY <1>1, <1>3, <1>4
<1> QED
    BY <1>5 DEF DayOfRows, R

LEMMA SignatureAdded ==
    ASSUME NEW panels, NEW old, NEW new, NEW I, NEW k, Joins(old, new, I, k),
           NEW S, S = DayOfRows(panels, old, I).signatures,
           NEW sig, sig = Signature(panels, new[k]),
           NEW seen, seen = At(S, sig, [count |-> 0, first |-> k])
    PROVE  Put(S, sig, [seen EXCEPT !.count = @ + 1])
               = DayOfRows(panels, new, I \cup {k}).signatures
<1> DEFINE X == [s \in SignaturesOf(panels, new, I \cup {k}) |->
                    [count |-> Cardinality(Signed(panels, new, I \cup {k}, s)),
                     first |-> Min(Signed(panels, new, I \cup {k}, s))]]
           Y == Put(S, sig, [seen EXCEPT !.count = @ + 1])
<1>1. /\ DOMAIN S = SignaturesOf(panels, old, I)
      /\ \A s \in DOMAIN S : S[s] = [count |-> Cardinality(Signed(panels, old, I, s)),
                                     first |-> Min(Signed(panels, old, I, s))]
    BY DEF DayOfRows
<1>2. SignaturesOf(panels, new, I \cup {k}) = DOMAIN S \cup {sig}
    BY <1>1, SignaturesGrow
<1>3. Y = [s \in DOMAIN S \cup {sig} |-> IF s = sig THEN [seen EXCEPT !.count = @ + 1] ELSE S[s]]
    BY DEF Put
<1>4. ASSUME NEW s \in DOMAIN S, s # sig PROVE X[s] = S[s]
    <2>1. Signed(panels, new, I \cup {k}, s) = Signed(panels, old, I, s)
        <3>1. Signed(panels, new, I \cup {k}, s) = Signed(panels, old, I, s)
                  \cup (IF s = Signature(panels, new[k]) THEN {k} ELSE {})
            BY SignedGrows
        <3> QED
            BY <1>4, <3>1
    <2> QED
        BY <1>1, <1>2, <1>4, <2>1
<1>5. X[sig] = [seen EXCEPT !.count = @ + 1]
    <2> DEFINE T == Signed(panels, old, I, sig)
    <2>1. /\ T \in SUBSET Nat /\ IsFiniteSet(T) /\ k \notin T /\ \A i \in T : i < k
          /\ T = {} <=> sig \notin DOMAIN S
        BY <1>1, SignedIs
    <2>2. Signed(panels, new, I \cup {k}, sig) = T \cup {k}
        BY SignedGrows
    <2>3. X[sig] = [count |-> Cardinality(T \cup {k}), first |-> Min(T \cup {k})]
        BY <1>2, <2>2
    <2> HIDE DEF T, X
    <2>4. k \in Nat
        BY DEF Joins
    <2>5. Cardinality(T \cup {k}) = Cardinality(T) + 1
        BY <2>1, CountGrows
    <2>6. Min(T \cup {k}) = IF T = {} THEN k ELSE Min(T)
        BY <2>1, <2>4, MinGrows
    <2>7. seen = [count |-> Cardinality(T), first |-> IF T = {} THEN k ELSE Min(T)]
        <3>1. CASE T = {}
            BY <2>1, <3>1, FS_EmptySet DEF At
        <3>2. CASE T # {}
            BY <1>1, <2>1, <3>2 DEF At, T
        <3> QED
            BY <3>1, <3>2
    <2> QED
        BY <2>3, <2>5, <2>6, <2>7
<1>6. X = [s \in DOMAIN S \cup {sig} |-> X[s]]
    BY <1>2
<1> HIDE DEF X, Y
<1>7. X = Y
    BY <1>3, <1>4, <1>5, <1>6
<1> QED
    BY <1>7 DEF X, Y, DayOfRows

\* A day's record of a set of rows, one of them added.
LEMMA DayAdded ==
    ASSUME NEW panels, NEW old, NEW new, NEW I, NEW k, Joins(old, new, I, k)
    PROVE  AddDay(DayOfRows(panels, old, I), panels, new[k], k)
               = DayOfRows(panels, new, I \cup {k})
<1> DEFINE D == DayOfRows(panels, old, I)
           E == DayOfRows(panels, new, I \cup {k})
           sig == Signature(panels, new[k])
<1>1. D.count + 1 = E.count
    BY JoinCounts DEF DayOfRows
<1>2. D.rules (+) SetToBag(RowRules(new[k])) = E.rules
    BY RulesAdded
<1>3. Put(D.signatures, sig, [At(D.signatures, sig, [count |-> 0, first |-> k])
                                EXCEPT !.count = @ + 1]) = E.signatures
    BY SignatureAdded
<1>4. E = [count |-> E.count, rules |-> E.rules, signatures |-> E.signatures]
    BY DEF DayOfRows
<1>5. AddDay(D, panels, new[k], k) =
          [count |-> D.count + 1,
           rules |-> D.rules (+) SetToBag(RowRules(new[k])),
           signatures |-> Put(D.signatures, sig, [At(D.signatures, sig, [count |-> 0, first |-> k])
                                                    EXCEPT !.count = @ + 1])]
    BY DEF AddDay, Signature, RowRules
<1> HIDE DEF D, E, sig
<1> QED
    BY <1>1, <1>2, <1>3, <1>4, <1>5 DEF D, E

\* A sample is the first row a rule held of.
LEMMA SamplesAdded ==
    ASSUME NEW old, NEW new, NEW I, NEW k, Joins(old, new, I, k)
    PROVE  RecordAll(SamplesOfRows(old, I), RowRules(new[k]), k)
               = SamplesOfRows(new, I \cup {k})
<1> DEFINE R == RowRules(new[k])
           S == SamplesOfRows(old, I)
           X == SamplesOfRows(new, I \cup {k})
           Y == RecordAll(S, R, k)
<1>1. /\ DOMAIN S = RulesOf(old, I)
      /\ \A r \in DOMAIN S : S[r] = [matched_rows |-> Cardinality(Ruled(old, I, r)),
                                     sample |-> Min(Ruled(old, I, r))]
    BY DEF SamplesOfRows
<1>2. DOMAIN X = DOMAIN S \cup R
    BY <1>1, RulesGrow DEF SamplesOfRows
<1>3. ASSUME NEW r \in DOMAIN X
      PROVE  X[r] = [matched_rows |-> Cardinality(Ruled(new, I \cup {k}, r)),
                     sample |-> Min(Ruled(new, I \cup {k}, r))]
    BY <1>3 DEF SamplesOfRows
<1> HIDE DEF S, X, R
<1>4. Y = [r \in DOMAIN S \cup R |-> IF r \in R THEN Record(S, r, k, 1)[r] ELSE S[r]]
    BY DEF RecordAll
<1>5. ASSUME NEW r \in DOMAIN S \cup R, r \notin R PROVE X[r] = S[r]
    <2>1. Ruled(new, I \cup {k}, r)
              = Ruled(old, I, r) \cup (IF r \in RowRules(new[k]) THEN {k} ELSE {})
        BY RuledGrows
    <2>2. Ruled(new, I \cup {k}, r) = Ruled(old, I, r)
        BY <1>5, <2>1 DEF R
    <2> QED
        BY <1>1, <1>2, <1>3, <1>5, <2>2
<1>6. ASSUME NEW r \in R PROVE X[r] = Record(S, r, k, 1)[r]
    <2> DEFINE T == Ruled(old, I, r)
               was == At(S, r, [matched_rows |-> 0, sample |-> k])
    <2>1. /\ T \in SUBSET Nat /\ IsFiniteSet(T) /\ k \notin T /\ \A i \in T : i < k
          /\ T = {} <=> r \notin DOMAIN S
        BY <1>1, RuledIs
    <2>2. Ruled(new, I \cup {k}, r) = T \cup (IF r \in RowRules(new[k]) THEN {k} ELSE {})
        BY RuledGrows
    <2>3. Ruled(new, I \cup {k}, r) = T \cup {k}
        BY <2>2 DEF R
    <2>4. X[r] = [matched_rows |-> Cardinality(T \cup {k}), sample |-> Min(T \cup {k})]
        BY <1>2, <1>3, <2>3
    <2>5. Record(S, r, k, 1)[r] = [was EXCEPT !.matched_rows = @ + 1]
        BY DEF Record, Put
    <2> HIDE DEF T
    <2>6. k \in Nat
        BY DEF Joins
    <2>7. Cardinality(T \cup {k}) = Cardinality(T) + 1
        BY <2>1, CountGrows
    <2>8. Min(T \cup {k}) = IF T = {} THEN k ELSE Min(T)
        BY <2>1, <2>6, MinGrows
    <2>9. was = [matched_rows |-> Cardinality(T), sample |-> IF T = {} THEN k ELSE Min(T)]
        <3>1. CASE T = {}
            BY <2>1, <3>1, FS_EmptySet DEF At
        <3>2. CASE T # {}
            BY <1>1, <2>1, <3>2 DEF At, T
        <3> QED
            BY <3>1, <3>2
    <2> QED
        BY <2>4, <2>5, <2>7, <2>8, <2>9
<1>7. X = [r \in DOMAIN S \cup R |-> X[r]]
    BY <1>2 DEF X, SamplesOfRows
<1> HIDE DEF Y
<1>8. X = Y
    BY <1>4, <1>5, <1>6, <1>7
<1> QED
    BY <1>8 DEF X, Y, S, R

\* Where the rows of a day come from.
LEMMA ScopesAdded ==
    ASSUME NEW old, NEW new, NEW I, NEW k, Joins(old, new, I, k)
    PROVE  AddScope(ScopesOfRows(old, I), new[k]) = ScopesOfRows(new, I \cup {k})
<1> DEFINE S == ScopesOfRows(old, I)
           X == ScopesOfRows(new, I \cup {k})
<1>1. S.count + 1 = X.count
    BY JoinCounts DEF ScopesOfRows
<1>2. S.scopes \cup {Scope(new[k])} = X.scopes
    BY DEF ScopesOfRows, Joins
<1>3. S.nodes \cup (IF Blank(new[k].node_name) THEN {} ELSE {<<Scope(new[k]), new[k].node_name>>})
          = X.nodes
    <2>1. {j \in I \cup {k} : ~Blank(new[j].node_name)}
              = {j \in I : ~Blank(old[j].node_name)}
                    \cup (IF Blank(new[k].node_name) THEN {} ELSE {k})
        BY DEF Joins
    <2>2. \A i \in {j \in I : ~Blank(old[j].node_name)} : new[i] = old[i]
        BY DEF Joins
    <2> QED
        BY <2>1, <2>2 DEF ScopesOfRows
<1>4. X = [count |-> X.count, scopes |-> X.scopes, nodes |-> X.nodes]
    BY DEF ScopesOfRows
<1> HIDE DEF S, X
<1> QED
    BY <1>1, <1>2, <1>3, <1>4 DEF AddScope, S, X

-------------------------------------------------------------------------------
\* The best row so far.
Best(rows, I) ==
    {i \in I : \A j \in I : \/ rows[j].at < rows[i].at
                            \/ rows[j].at = rows[i].at /\ rows[i].doc <= rows[j].doc}

IsTimed(rows, I) == \A i \in I : rows[i].at \in Int /\ rows[i].doc \in Int

LEMMA BestOfOne ==
    ASSUME NEW rows, NEW k \in Nat, IsTimed(rows, {k})
    PROVE  Best(rows, {k}) = {k} /\ Min({k}) = k
<1>1. Min({k}) = k
    BY MinIsThe
<1> QED
    BY <1>1 DEF Best, IsTimed

LEMMA BestGrows ==
    ASSUME NEW old, NEW new, NEW I, NEW k, Joins(old, new, I, k), IsTimed(new, I \cup {k}),
           Best(old, I) # {}, NEW m, m = Min(Best(old, I))
    PROVE  /\ Best(new, I \cup {k}) # {}
           /\ new[Min(Best(new, I \cup {k}))]
                  = IF Supersedes(new[k], old[m]) THEN new[k] ELSE old[m]
<1> DEFINE B == Best(old, I)
           C == Best(new, I \cup {k})
<1>1. I \in SUBSET Nat /\ k \in Nat /\ k \notin I /\ \A i \in I : i < k /\ new[i] = old[i]
    BY DEF Joins
<1>2. B \in SUBSET I /\ C \in SUBSET (I \cup {k})
    BY DEF Best
<1>3. m \in B /\ \A i \in B : m <= i
    BY <1>1, <1>2, MinIs
<1>4. /\ old[m].at \in Int /\ old[m].doc \in Int /\ new[k].at \in Int /\ new[k].doc \in Int
      /\ \A i \in I : old[i].at \in Int /\ old[i].doc \in Int
    BY <1>1, <1>2, <1>3 DEF IsTimed
<1>5. \A j \in I : \/ old[j].at < old[m].at
                   \/ old[j].at = old[m].at /\ old[m].doc <= old[j].doc
    BY <1>3 DEF Best
<1>6. CASE Supersedes(new[k], old[m])
    <2>1. k \in C
        BY <1>1, <1>4, <1>5, <1>6 DEF Best, Supersedes
    <2>2. ASSUME NEW i \in I PROVE i \notin C
        <3>1. \/ old[i].at < new[k].at
              \/ old[i].at = new[k].at /\ new[k].doc < old[i].doc
            BY <1>1, <1>4, <1>5, <1>6 DEF Supersedes
        <3> QED
            BY <1>1, <1>4, <3>1 DEF Best
    <2>3. C = {k}
        BY <1>2, <2>1, <2>2
    <2>4. Min({k}) = k
        BY <1>1, MinIsThe
    <2> QED
        BY <1>6, <2>3, <2>4
<1>7. CASE ~ Supersedes(new[k], old[m])
    <2>1. \/ new[k].at < old[m].at
          \/ new[k].at = old[m].at /\ old[m].doc <= new[k].doc
        BY <1>4, <1>7 DEF Supersedes
    <2>2. m \in C
        BY <1>1, <1>2, <1>3, <1>5, <2>1 DEF Best
    <2>3. ASSUME NEW i \in C PROVE m <= i
        <3>1. CASE i = k
            BY <1>1, <1>2, <1>3, <3>1
        <3>2. CASE i \in I
            <4>1. i \in B
                BY <1>1, <3>2, <2>3 DEF Best
            <4> QED
                BY <1>3, <4>1
        <3> QED
            BY <1>2, <3>1, <3>2
    <2>4. C \in SUBSET Nat
        BY <1>1, <1>2
    <2>5. Min(C) = m
        BY <2>2, <2>3, <2>4, MinIsThe
    <2> QED
        BY <1>1, <1>2, <1>3, <1>7, <2>2, <2>5
<1> QED
    BY <1>6, <1>7

-------------------------------------------------------------------------------
\* An identity's record, of the rows that are its own.
On(rows, I, d) == {i \in I : rows[i].date = d}
DatesOf(rows, I) == {rows[i].date : i \in I}
DaysOfRows(panels, rows, I) == [d \in DatesOf(rows, I) |-> DayOfRows(panels, rows, On(rows, I, d))]

IdentityIs(idn, panels, rows, I) ==
    /\ Best(rows, I) # {} /\ idn.representative = rows[Min(Best(rows, I))]
    /\ idn.first_ordinal = Min(I) /\ idn.first_seen = rows[Min(I)].at
    /\ idn.days = DaysOfRows(panels, rows, I)
    /\ idn.samples = SamplesOfRows(rows, I)

\* A record depends on the rows it is of, and on no others.
LEMMA SameDay ==
    ASSUME NEW panels, NEW old, NEW new, NEW I, \A i \in I : new[i] = old[i]
    PROVE  DayOfRows(panels, new, I) = DayOfRows(panels, old, I)
<1>1. RulesOf(new, I) = RulesOf(old, I) /\ SignaturesOf(panels, new, I) = SignaturesOf(panels, old, I)
    BY DEF RulesOf, SignaturesOf
<1>2. /\ \A r : Ruled(new, I, r) = Ruled(old, I, r)
      /\ \A s : Signed(panels, new, I, s) = Signed(panels, old, I, s)
    BY DEF Ruled, Signed
<1> QED
    BY <1>1, <1>2 DEF DayOfRows

LEMMA SameSamples ==
    ASSUME NEW old, NEW new, NEW I, \A i \in I : new[i] = old[i]
    PROVE  SamplesOfRows(new, I) = SamplesOfRows(old, I)
<1>1. RulesOf(new, I) = RulesOf(old, I) /\ \A r : Ruled(new, I, r) = Ruled(old, I, r)
    BY DEF RulesOf, Ruled
<1> QED
    BY <1>1 DEF SamplesOfRows

LEMMA SameScopes ==
    ASSUME NEW old, NEW new, NEW I, \A i \in I : new[i] = old[i]
    PROVE  ScopesOfRows(new, I) = ScopesOfRows(old, I)
<1>1. /\ {Scope(new[i]) : i \in I} = {Scope(old[i]) : i \in I}
      /\ {j \in I : ~Blank(new[j].node_name)} = {j \in I : ~Blank(old[j].node_name)}
    OBVIOUS
<1> DEFINE J == {j \in I : ~Blank(old[j].node_name)}
<1>2. {<<Scope(new[i]), new[i].node_name>> : i \in J} = {<<Scope(old[i]), old[i].node_name>> : i \in J}
    OBVIOUS
<1> QED
    BY <1>1, <1>2 DEF ScopesOfRows

LEMMA SameIdentity ==
    ASSUME NEW idn, NEW panels, NEW old, NEW new, NEW I \in SUBSET Nat, \A i \in I : new[i] = old[i],
           I # {}, IdentityIs(idn, panels, old, I)
    PROVE  IdentityIs(idn, panels, new, I)
<1>1. Best(new, I) = Best(old, I)
    BY DEF Best
<1>2. Best(old, I) \in SUBSET Nat /\ Best(old, I) \subseteq I
    BY DEF Best
<1>3. Min(Best(old, I)) \in I /\ Min(I) \in I
    BY <1>2, MinIs DEF IdentityIs
<1>4. SamplesOfRows(new, I) = SamplesOfRows(old, I)
    BY SameSamples
<1>5. DatesOf(new, I) = DatesOf(old, I) /\ \A d : On(new, I, d) = On(old, I, d)
    BY DEF DatesOf, On
<1>6. ASSUME NEW d PROVE DayOfRows(panels, new, On(new, I, d)) = DayOfRows(panels, old, On(old, I, d))
    <2>1. \A i \in On(old, I, d) : new[i] = old[i]
        BY DEF On
    <2> QED
        BY <1>5, <2>1, SameDay
<1>7. DaysOfRows(panels, new, I) = DaysOfRows(panels, old, I)
    BY <1>5, <1>6 DEF DaysOfRows
<1> QED
    BY <1>1, <1>3, <1>4, <1>7 DEF IdentityIs

\* One more row of the identity on its day; the other days stay.
LEMMA DaysAdded ==
    ASSUME NEW panels, NEW old, NEW new, NEW I, NEW k, Joins(old, new, I, k),
           NEW days, days = DaysOfRows(panels, old, I), NEW d, d = new[k].date
    PROVE  Put(days, d, AddDay(At(days, d, EmptyDay), panels, new[k], k))
               = DaysOfRows(panels, new, I \cup {k})
<1>1. DatesOf(new, I \cup {k}) = DOMAIN days \cup {d} /\ DOMAIN days = DatesOf(old, I)
    BY DEF DatesOf, DaysOfRows, Joins
<1>2. ASSUME NEW e, e # d
      PROVE  DayOfRows(panels, new, On(new, I \cup {k}, e)) = DayOfRows(panels, old, On(old, I, e))
    <2>1. On(new, I \cup {k}, e) = On(old, I, e) /\ \A i \in On(old, I, e) : new[i] = old[i]
        BY <1>2 DEF On, Joins
    <2> QED
        BY <2>1, SameDay
<1>3. DayOfRows(panels, new, On(new, I \cup {k}, d)) = AddDay(At(days, d, EmptyDay), panels, new[k], k)
    <2> DEFINE J == On(old, I, d)
    <2>1. On(new, I \cup {k}, d) = J \cup {k}
        BY DEF On, Joins
    <2>2. J \in SUBSET I
        BY DEF On
    <2>3. Joins(old, new, J, k)
        BY <2>2, FS_Subset DEF Joins
    <2>4. At(days, d, EmptyDay) = DayOfRows(panels, old, J)
        <3>1. CASE d \in DatesOf(old, I)
            BY <3>1 DEF At, DaysOfRows
        <3>2. CASE d \notin DatesOf(old, I)
            <4>1. J = {}
                BY <3>2 DEF On, DatesOf
            <4> QED
                BY <3>2, <4>1, NoDay DEF At, DaysOfRows
        <3> QED
            BY <3>1, <3>2
    <2> QED
        BY <2>1, <2>3, <2>4, DayAdded
<1>4. ASSUME NEW e \in DOMAIN days \cup {d}
      PROVE  (IF e = d THEN AddDay(At(days, d, EmptyDay), panels, new[k], k) ELSE days[e])
                 = DayOfRows(panels, new, On(new, I \cup {k}, e))
    BY <1>1, <1>2, <1>3 DEF DaysOfRows
<1> QED
    BY <1>1, <1>4 DEF Put, DaysOfRows

LEMMA NoSamples ==
    ASSUME NEW rows PROVE SamplesOfRows(rows, {}) = <<>>
<1>1. RulesOf(rows, {}) = {}
    BY DEF RulesOf
<1> QED
    BY <1>1 DEF SamplesOfRows

LEMMA NoDays ==
    ASSUME NEW panels, NEW rows PROVE DaysOfRows(panels, rows, {}) = <<>>
BY DEF DaysOfRows, DatesOf

LEMMA IdentityAdded ==
    ASSUME NEW panels, NEW old, NEW new, NEW I, NEW k, Joins(old, new, I, k), IsTimed(new, I \cup {k}),
           NEW idn, \/ I # {} /\ IdentityIs(idn, panels, old, I)
                    \/ I = {} /\ idn = NewIdentity(new[k], k)
    PROVE  IdentityIs(AddIdentity(idn, panels, new[k], k), panels, new, I \cup {k})
<1> DEFINE more == AddIdentity(idn, panels, new[k], k)
<1>1. idn.days = DaysOfRows(panels, old, I) /\ idn.samples = SamplesOfRows(old, I)
    <2>1. CASE I # {} /\ IdentityIs(idn, panels, old, I)
        BY <2>1 DEF IdentityIs
    <2>2. CASE I = {} /\ idn = NewIdentity(new[k], k)
        BY <2>2, NoDays, NoSamples DEF NewIdentity
    <2> QED
        BY <2>1, <2>2
<1>2. more.days = DaysOfRows(panels, new, I \cup {k})
    <2> DEFINE days == idn.days
               d == new[k].date
    <2>1. more.days = Put(days, d, AddDay(At(days, d, EmptyDay), panels, new[k], k))
        BY DEF AddIdentity
    <2> HIDE DEF more, days, d
    <2> QED
        BY <1>1, <2>1, DaysAdded DEF days, d
<1>3. more.samples = SamplesOfRows(new, I \cup {k})
    <2>1. more.samples = RecordAll(idn.samples, RowRules(new[k]), k)
        BY DEF AddIdentity, RowRules
    <2> QED
        BY <1>1, <2>1, SamplesAdded
<1>4. I \in SUBSET Nat /\ k \in Nat /\ (\A i \in I : i < k) /\ (\A i \in I : new[i] = old[i])
    BY DEF Joins
<1>5. more.first_ordinal = Min(I \cup {k}) /\ more.first_seen = new[Min(I \cup {k})].at
    <2>1. Min(I \cup {k}) = IF I = {} THEN k ELSE Min(I)
        BY <1>4, MinGrows
    <2>2. more.first_ordinal = idn.first_ordinal /\ more.first_seen = idn.first_seen
        BY DEF AddIdentity
    <2>3. CASE I # {} /\ IdentityIs(idn, panels, old, I)
        <3>1. Min(I) \in I
            BY <1>4, <2>3, MinIs
        <3> QED
            BY <1>4, <2>1, <2>2, <2>3, <3>1 DEF IdentityIs
    <2>4. CASE I = {} /\ idn = NewIdentity(new[k], k)
        BY <2>1, <2>2, <2>4 DEF NewIdentity
    <2> QED
        BY <2>3, <2>4
<1>6. more.representative
          = IF Supersedes(new[k], idn.representative) THEN new[k] ELSE idn.representative
    BY DEF AddIdentity
<1>7. Best(new, I \cup {k}) # {} /\ more.representative = new[Min(Best(new, I \cup {k}))]
    <2>1. CASE I # {} /\ IdentityIs(idn, panels, old, I)
        BY <1>6, <2>1, BestGrows DEF IdentityIs
    <2>2. CASE I = {} /\ idn = NewIdentity(new[k], k)
        <3>1. idn.representative = new[k]
            BY <2>2 DEF NewIdentity
        <3>2. more.representative = new[k]
            BY <1>6, <3>1
        <3>3. I \cup {k} = {k}
            BY <2>2
        <3>4. Best(new, {k}) = {k} /\ Min({k}) = k
            BY <1>4, <3>3, BestOfOne
        <3> QED
            BY <3>2, <3>3, <3>4
    <2> QED
        BY <2>1, <2>2
<1> HIDE DEF more
<1>8. IdentityIs(more, panels, new, I \cup {k})
    BY <1>2, <1>3, <1>5, <1>7 DEF IdentityIs
<1> QED
    BY <1>8 DEF more

-------------------------------------------------------------------------------
\* The firing facts of a set of rows, by their instants alone.
FiresOf(rows, I) == {i \in I : ~IsClear(rows[i])}
ClearsOf(rows, I) == {i \in I : IsClear(rows[i])}

\* A clear parts two instants if it is not before the one and before the other.
Parted(rows, I, t, u) ==
    \E m \in ClearsOf(rows, I) : t <= rows[m].at /\ rows[m].at < u

\* The firing rows after every clear; those of the same episode; and the instants at which
\* a clear ends an episode.
Trailing(rows, I) ==
    {i \in FiresOf(rows, I) : \A m \in ClearsOf(rows, I) : rows[m].at < rows[i].at}
Episode(rows, I, i) ==
    {j \in FiresOf(rows, I) :
        ~Parted(rows, I, rows[i].at, rows[j].at) /\ ~Parted(rows, I, rows[j].at, rows[i].at)}
CycleTimes(rows, I) ==
    {t \in {rows[m].at : m \in ClearsOf(rows, I)} :
        \E i \in FiresOf(rows, I) : rows[i].at <= t /\ ~Parted(rows, I, rows[i].at, t)}

EpisodeSizes(rows, I) == {0} \cup {Cardinality(Episode(rows, I, i)) : i \in FiresOf(rows, I)}
Recent(C, t) == {u \in C : u <= t /\ t - u < FLAP_WINDOW}
CycleCounts(C) == {0} \cup {Cardinality(Recent(C, t)) : t \in C}

IsMaxOf(n, T) == n \in T /\ \A m \in T : m <= n
IsMinOf(n, T) == n \in T /\ \A m \in T : n <= m

\* What the accumulator knows of the instants that are complete, a cycle being forgotten
\* once it is too old for the next one.
CompleteIs(a, rows, I) ==
    /\ a.current = Cardinality(Trailing(rows, I))
    /\ IsMaxOf(a.max_episode, EpisodeSizes(rows, I))
    /\ IF Trailing(rows, I) = {} THEN a.open_since = Null
       ELSE IsMinOf(a.open_since, {rows[i].at : i \in Trailing(rows, I)})
    /\ a.cycles \subseteq CycleTimes(rows, I)
    /\ \A t \in CycleTimes(rows, I) \ a.cycles : \E i \in I : rows[i].at - t >= FLAP_WINDOW
    /\ IsMaxOf(a.max_cycles, CycleCounts(CycleTimes(rows, I)))

\* The rows of an instant are later than those before them.
ComesAfter(rows, I, P, p) ==
    /\ IsFiniteSet(I) /\ IsFiniteSet(P) /\ P # {} /\ p \in Int
    /\ \A i \in I : rows[i].at \in Int /\ rows[i].at < p
    /\ \A i \in P : rows[i].at = p

LEMMA TrailingGrows ==
    ASSUME NEW rows, NEW I, NEW P, NEW p, ComesAfter(rows, I, P, p)
    PROVE  Trailing(rows, I \cup P)
               = IF ClearsOf(rows, P) = {} THEN Trailing(rows, I) \cup FiresOf(rows, P) ELSE {}
<1>1. CASE ClearsOf(rows, P) = {}
    <2>1. ClearsOf(rows, I \cup P) = ClearsOf(rows, I)
        BY <1>1 DEF ClearsOf
    <2> QED
        BY <1>1, <2>1 DEF Trailing, FiresOf, ClearsOf, ComesAfter
<1>2. CASE ClearsOf(rows, P) # {}
    <2>1. PICK m \in ClearsOf(rows, I \cup P) : rows[m].at = p
        BY <1>2 DEF ClearsOf, ComesAfter
    <2>2. \A i \in FiresOf(rows, I \cup P) : ~(p < rows[i].at)
        BY DEF FiresOf, ComesAfter
    <2> QED
        BY <1>2, <2>1, <2>2 DEF Trailing
<1> QED
    BY <1>1, <1>2

LEMMA PartedBefore ==
    ASSUME NEW rows, NEW I, NEW P, NEW p, ComesAfter(rows, I, P, p), NEW t, NEW u \in Int, u <= p
    PROVE  Parted(rows, I \cup P, t, u) <=> Parted(rows, I, t, u)
BY DEF Parted, ClearsOf, ComesAfter

\* A firing row before every trailing one has its episode already.
LEMMA EpisodeStays ==
    ASSUME NEW rows, NEW I, NEW P, NEW p, ComesAfter(rows, I, P, p),
           NEW i \in FiresOf(rows, I), i \notin Trailing(rows, I)
    PROVE  Episode(rows, I \cup P, i) = Episode(rows, I, i)
<1>1. rows[i].at \in Int /\ rows[i].at <= p
    BY DEF FiresOf, ComesAfter
<1>2. PICK m \in ClearsOf(rows, I) : rows[i].at <= rows[m].at
    BY DEF Trailing, FiresOf, ClearsOf, ComesAfter
<1>3. \A j \in FiresOf(rows, P) : Parted(rows, I \cup P, rows[i].at, rows[j].at)
    BY <1>2 DEF Parted, FiresOf, ClearsOf, ComesAfter
<1>4. \A j \in FiresOf(rows, I) : rows[j].at \in Int /\ rows[j].at <= p
    BY DEF FiresOf, ComesAfter
<1>5. \A j \in FiresOf(rows, I) :
          /\ Parted(rows, I \cup P, rows[i].at, rows[j].at) <=> Parted(rows, I, rows[i].at, rows[j].at)
          /\ Parted(rows, I \cup P, rows[j].at, rows[i].at) <=> Parted(rows, I, rows[j].at, rows[i].at)
    BY <1>1, <1>4, PartedBefore
<1>6. FiresOf(rows, I \cup P) = FiresOf(rows, I) \cup FiresOf(rows, P)
    BY DEF FiresOf
<1> QED
    BY <1>3, <1>5, <1>6 DEF Episode

\* The trailing rows and those of the instant are one episode.
LEMMA EpisodeGrows ==
    ASSUME NEW rows, NEW I, NEW P, NEW p, ComesAfter(rows, I, P, p),
           NEW i \in Trailing(rows, I) \cup FiresOf(rows, P)
    PROVE  Episode(rows, I \cup P, i) = Trailing(rows, I) \cup FiresOf(rows, P)
<1> DEFINE N == Trailing(rows, I) \cup FiresOf(rows, P)
<1>1. FiresOf(rows, I \cup P) = FiresOf(rows, I) \cup FiresOf(rows, P)
    BY DEF FiresOf
<1>2. \A j \in N : /\ j \in FiresOf(rows, I \cup P) /\ rows[j].at \in Int /\ rows[j].at <= p
                   /\ \A m \in ClearsOf(rows, I) : rows[m].at < rows[j].at
    BY <1>1 DEF Trailing, FiresOf, ClearsOf, ComesAfter
<1>3. \A m \in ClearsOf(rows, I) : rows[m].at \in Int
    BY DEF ClearsOf, ComesAfter
<1>4. \A j, k \in N : ~Parted(rows, I \cup P, rows[j].at, rows[k].at)
    <2> SUFFICES ASSUME NEW j \in N, NEW k \in N, Parted(rows, I, rows[j].at, rows[k].at)
                 PROVE  FALSE
        BY <1>2, PartedBefore
    <2> QED
        BY <1>2, <1>3 DEF Parted
<1>5. \A j \in FiresOf(rows, I) \ Trailing(rows, I) : Parted(rows, I \cup P, rows[j].at, rows[i].at)
    <2> SUFFICES ASSUME NEW j \in FiresOf(rows, I) \ Trailing(rows, I)
                 PROVE  Parted(rows, I \cup P, rows[j].at, rows[i].at)
        OBVIOUS
    <2>1. PICK m \in ClearsOf(rows, I) : rows[j].at <= rows[m].at
        BY DEF Trailing, FiresOf, ClearsOf, ComesAfter
    <2>2. rows[m].at < rows[i].at /\ m \in ClearsOf(rows, I \cup P)
        BY <1>2 DEF ClearsOf
    <2> QED
        BY <2>1, <2>2 DEF Parted
<1>6. \A j \in N : j \in Episode(rows, I \cup P, i)
    BY <1>2, <1>4 DEF Episode
<1>7. \A j \in Episode(rows, I \cup P, i) : j \in N
    BY <1>1, <1>5 DEF Episode
<1> QED
    BY <1>6, <1>7

LEMMA FiniteFires ==
    ASSUME NEW rows, NEW I, IsFiniteSet(I)
    PROVE  /\ IsFiniteSet(FiresOf(rows, I)) /\ IsFiniteSet(ClearsOf(rows, I))
           /\ IsFiniteSet(Trailing(rows, I)) /\ \A i : IsFiniteSet(Episode(rows, I, i))
           /\ Cardinality(FiresOf(rows, I)) \in Nat /\ Cardinality(ClearsOf(rows, I)) \in Nat
           /\ Cardinality(Trailing(rows, I)) \in Nat /\ \A i : Cardinality(Episode(rows, I, i)) \in Nat
<1>1. FiresOf(rows, I) \subseteq I /\ ClearsOf(rows, I) \subseteq I
    BY DEF FiresOf, ClearsOf
<1>2. IsFiniteSet(FiresOf(rows, I)) /\ IsFiniteSet(ClearsOf(rows, I))
    BY <1>1, FS_Subset
<1>3. IsFiniteSet(Trailing(rows, I)) /\ \A i : IsFiniteSet(Episode(rows, I, i))
    BY <1>2, FS_Subset DEF Trailing, Episode
<1> QED
    BY <1>2, <1>3, FS_CardinalityType

LEMMA TrailingCount ==
    ASSUME NEW rows, NEW I, NEW P, NEW p, ComesAfter(rows, I, P, p)
    PROVE  Cardinality(Trailing(rows, I) \cup FiresOf(rows, P))
               = Cardinality(Trailing(rows, I)) + Cardinality(FiresOf(rows, P))
<1>1. Trailing(rows, I) \cap FiresOf(rows, P) = {}
    BY DEF Trailing, FiresOf, ComesAfter
<1>2. IsFiniteSet(Trailing(rows, I)) /\ IsFiniteSet(FiresOf(rows, P))
    BY FiniteFires DEF ComesAfter
<1> QED
    BY <1>1, <1>2, DisjointUnion

LEMMA EpisodesGrow ==
    ASSUME NEW rows, NEW I, NEW P, NEW p, ComesAfter(rows, I, P, p),
           NEW old, IsMaxOf(old, EpisodeSizes(rows, I)),
           NEW now, now = Cardinality(Trailing(rows, I)) + Cardinality(FiresOf(rows, P)),
           NEW new, \/ new = old /\ now <= old
                    \/ new = now /\ old <= now
    PROVE  IsMaxOf(new, EpisodeSizes(rows, I \cup P))
<1> DEFINE N == Trailing(rows, I) \cup FiresOf(rows, P)
           J == I \cup P
<1>1. now = Cardinality(N)
    BY TrailingCount
<1>2. IsFiniteSet(J) /\ IsFiniteSet(I) /\ IsFiniteSet(P)
    BY FS_Union DEF ComesAfter
<1>3. /\ IsFiniteSet(FiresOf(rows, P)) /\ IsFiniteSet(Trailing(rows, I))
      /\ \A i : IsFiniteSet(Episode(rows, J, i)) /\ Cardinality(Episode(rows, J, i)) \in Nat
      /\ \A i : Cardinality(Episode(rows, I, i)) \in Nat
      /\ now \in Nat
    <2>1. /\ IsFiniteSet(FiresOf(rows, P)) /\ IsFiniteSet(Trailing(rows, I))
          /\ \A i : Cardinality(Episode(rows, I, i)) \in Nat
          /\ Cardinality(FiresOf(rows, P)) \in Nat /\ Cardinality(Trailing(rows, I)) \in Nat
        BY <1>2, FiniteFires
    <2> HIDE DEF J
    <2>2. \A i : IsFiniteSet(Episode(rows, J, i)) /\ Cardinality(Episode(rows, J, i)) \in Nat
        BY <1>2, FiniteFires
    <2> QED
        BY <2>1, <2>2
<1>4. old \in Nat /\ new \in Nat /\ now <= new /\ old <= new
    BY <1>3 DEF IsMaxOf, EpisodeSizes
<1>5. FiresOf(rows, J) = FiresOf(rows, I) \cup FiresOf(rows, P)
    BY DEF FiresOf
<1>6. \A i \in N : i \in FiresOf(rows, J) /\ Cardinality(Episode(rows, J, i)) = now
    <2> SUFFICES ASSUME NEW i \in N
                 PROVE  i \in FiresOf(rows, J) /\ Cardinality(Episode(rows, J, i)) = now
        OBVIOUS
    <2>1. i \in FiresOf(rows, J)
        BY <1>5 DEF Trailing
    <2>2. Episode(rows, J, i) = N
        BY EpisodeGrows
    <2> QED
        BY <1>1, <2>1, <2>2
<1>7. \A i \in FiresOf(rows, J) \ N :
          i \in FiresOf(rows, I) /\ Cardinality(Episode(rows, J, i)) = Cardinality(Episode(rows, I, i))
    BY <1>5, EpisodeStays
<1>8. \A i \in FiresOf(rows, I) : Cardinality(Episode(rows, I, i)) <= old
    BY DEF IsMaxOf, EpisodeSizes
<1>9. \A i \in FiresOf(rows, J) : Cardinality(Episode(rows, J, i)) <= new
    <2> SUFFICES ASSUME NEW i \in FiresOf(rows, J)
                 PROVE  Cardinality(Episode(rows, J, i)) <= new
        OBVIOUS
    <2>1. CASE i \in N
        BY <1>4, <1>6, <2>1
    <2>2. CASE i \notin N
        <3>1. /\ Cardinality(Episode(rows, J, i)) = Cardinality(Episode(rows, I, i))
              /\ Cardinality(Episode(rows, I, i)) <= old
            BY <1>7, <1>8, <2>2
        <3>2. Cardinality(Episode(rows, I, i)) \in Nat
            BY <1>3
        <3> QED
            BY <1>4, <3>1, <3>2
    <2> QED
        BY <2>1, <2>2
<1>10. \A i \in Trailing(rows, I) : Cardinality(Episode(rows, I, i)) <= now
    <2> SUFFICES ASSUME NEW i \in Trailing(rows, I) PROVE Episode(rows, I, i) \subseteq N
        <3>1. IsFiniteSet(N)
            BY <1>3, FS_Union
        <3> HIDE DEF N
        <3> QED
            BY <1>1, <3>1, FS_Subset
    <2>1. \A j \in FiresOf(rows, I) : rows[j].at \in Int /\ rows[j].at <= p
        BY DEF FiresOf, ComesAfter
    <2>2. i \in FiresOf(rows, I)
        BY DEF Trailing
    <2>3. \A j \in Episode(rows, I, i) : j \in Episode(rows, J, i)
        BY <1>5, <2>1, <2>2, PartedBefore DEF Episode
    <2> QED
        BY <2>3, EpisodeGrows
<1>11. new \in EpisodeSizes(rows, J)
    <2>1. CASE N = {}
        <3>1. now = 0
            BY <1>1, <2>1, FS_EmptySet
        <3>2. CASE new = 0
            BY <3>2 DEF EpisodeSizes
        <3>3. CASE new # 0
            <4>1. PICK i \in FiresOf(rows, I) : new = Cardinality(Episode(rows, I, i))
                BY <3>1, <3>3 DEF IsMaxOf, EpisodeSizes
            <4>2. i \in FiresOf(rows, J) \ N
                BY <1>5, <2>1, <4>1
            <4> QED
                BY <1>7, <4>1, <4>2 DEF EpisodeSizes
        <3> QED
            BY <3>2, <3>3
    <2>2. CASE N # {} /\ new = now
        BY <1>6, <2>2 DEF EpisodeSizes
    <2>3. CASE new # now
        <3>1. new = old /\ new > now
            BY <1>3, <1>4, <2>3
        <3>2. PICK i \in FiresOf(rows, I) : new = Cardinality(Episode(rows, I, i))
            BY <1>3, <3>1 DEF IsMaxOf, EpisodeSizes
        <3>3. i \notin Trailing(rows, I)
            BY <1>3, <1>10, <3>1, <3>2
        <3>4. Episode(rows, J, i) = Episode(rows, I, i) /\ i \in FiresOf(rows, J)
            BY <1>5, <3>2, <3>3, EpisodeStays
        <3> QED
            BY <3>2, <3>4 DEF EpisodeSizes
    <2> QED
        BY <2>1, <2>2, <2>3
<1> HIDE DEF N, J
<1>12. \A m \in EpisodeSizes(rows, J) : m <= new
    BY <1>4, <1>9 DEF EpisodeSizes
<1> QED
    BY <1>11, <1>12 DEF IsMaxOf, J

LEMMA CyclesGrow ==
    ASSUME NEW rows, NEW I, NEW P, NEW p, ComesAfter(rows, I, P, p)
    PROVE  CycleTimes(rows, I \cup P)
               = CycleTimes(rows, I)
                     \cup (IF /\ ClearsOf(rows, P) # {}
                              /\ Trailing(rows, I) \cup FiresOf(rows, P) # {} THEN {p} ELSE {})
<1> DEFINE J == I \cup P
           N == Trailing(rows, I) \cup FiresOf(rows, P)
<1>1. /\ FiresOf(rows, J) = FiresOf(rows, I) \cup FiresOf(rows, P)
      /\ ClearsOf(rows, J) = ClearsOf(rows, I) \cup ClearsOf(rows, P)
    BY DEF FiresOf, ClearsOf
<1>2. /\ \A i \in FiresOf(rows, I) \cup ClearsOf(rows, I) : rows[i].at \in Int /\ rows[i].at < p
      /\ \A i \in FiresOf(rows, P) \cup ClearsOf(rows, P) : rows[i].at = p
      /\ p \in Int
    BY DEF FiresOf, ClearsOf, ComesAfter
<1>3. ASSUME NEW t \in CycleTimes(rows, I) PROVE t \in CycleTimes(rows, J)
    <2>1. /\ t \in {rows[m].at : m \in ClearsOf(rows, I)} /\ t \in Int /\ t < p
          /\ \E i \in FiresOf(rows, I) : rows[i].at <= t /\ ~Parted(rows, I, rows[i].at, t)
        BY <1>2 DEF CycleTimes
    <2>2. t <= p
        BY <1>2, <2>1
    <2>3. \A u : Parted(rows, I \cup P, u, t) <=> Parted(rows, I, u, t)
        BY <2>1, <2>2, PartedBefore
    <2> QED
        BY <1>1, <2>1, <2>3 DEF CycleTimes
<1>4. ASSUME NEW t \in CycleTimes(rows, J), t # p PROVE t \in CycleTimes(rows, I)
    <2>1. /\ t \in {rows[m].at : m \in ClearsOf(rows, J)}
          /\ \E i \in FiresOf(rows, J) : rows[i].at <= t /\ ~Parted(rows, J, rows[i].at, t)
        BY DEF CycleTimes
    <2>2. t \in {rows[m].at : m \in ClearsOf(rows, I)} /\ t \in Int /\ t < p
        BY <1>1, <1>2, <1>4, <2>1
    <2>3. \A u : Parted(rows, I \cup P, u, t) <=> Parted(rows, I, u, t)
        <3>1. t <= p
            BY <1>2, <2>2
        <3> QED
            BY <2>2, <3>1, PartedBefore
    <2>4. PICK i \in FiresOf(rows, J) : rows[i].at <= t /\ ~Parted(rows, I, rows[i].at, t)
        BY <2>1, <2>3
    <2>5. i \in FiresOf(rows, I)
        <3>1. rows[i].at # p
            BY <1>2, <2>2, <2>4
        <3> QED
            BY <1>1, <1>2, <3>1
    <2> QED
        BY <2>2, <2>4, <2>5 DEF CycleTimes
<1>5. \A i : Parted(rows, J, rows[i].at, p) <=> Parted(rows, I, rows[i].at, p)
    BY <1>2, PartedBefore
<1>6. \A i \in FiresOf(rows, I) : ~Parted(rows, I, rows[i].at, p) <=> i \in Trailing(rows, I)
    BY <1>2 DEF Parted, Trailing
<1>7. \A i \in FiresOf(rows, P) : ~Parted(rows, I, rows[i].at, p)
    BY <1>2 DEF Parted
<1>8. p \in {rows[m].at : m \in ClearsOf(rows, J)} <=> ClearsOf(rows, P) # {}
    <2>1. ASSUME NEW m \in ClearsOf(rows, P) PROVE p \in {rows[n].at : n \in ClearsOf(rows, J)}
        <3>1. rows[m].at = p /\ m \in ClearsOf(rows, J)
            BY <1>1, <1>2
        <3> HIDE DEF J
        <3> QED
            BY <3>1
    <2>2. ASSUME NEW m \in ClearsOf(rows, J), rows[m].at = p PROVE ClearsOf(rows, P) # {}
        <3>1. rows[m].at \in Int /\ ~(rows[m].at < p)
            BY <1>2, <2>2
        <3>2. m \notin ClearsOf(rows, I)
            BY <1>2, <3>1
        <3> QED
            BY <1>1, <3>2
    <2> HIDE DEF J
    <2> QED
        BY <2>1, <2>2
<1>9. (\E i \in FiresOf(rows, J) : rows[i].at <= p /\ ~Parted(rows, J, rows[i].at, p)) <=> N # {}
    <2>1. \A i \in FiresOf(rows, J) : rows[i].at <= p
        BY <1>1, <1>2
    <2>2. \A i \in FiresOf(rows, J) : ~Parted(rows, J, rows[i].at, p) <=> i \in N
        BY <1>1, <1>2, <1>5, <1>6, <1>7 DEF Trailing
    <2>3. N \subseteq FiresOf(rows, J)
        BY <1>1 DEF Trailing
    <2> QED
        BY <2>1, <2>2, <2>3
<1> HIDE DEF J, N
<1>10. p \in CycleTimes(rows, J) <=> ClearsOf(rows, P) # {} /\ N # {}
    <2>1. p \in CycleTimes(rows, J)
              <=> /\ p \in {rows[m].at : m \in ClearsOf(rows, J)}
                  /\ \E i \in FiresOf(rows, J) : rows[i].at <= p /\ ~Parted(rows, J, rows[i].at, p)
        BY DEF CycleTimes
    <2> QED
        BY <1>8, <1>9, <2>1
<1>11. p \notin CycleTimes(rows, I)
    BY <1>2 DEF CycleTimes
<1> QED
    BY <1>3, <1>4, <1>10, <1>11 DEF J, N

LEMMA CountsGrow ==
    ASSUME NEW C \in SUBSET Int, IsFiniteSet(C), NEW p \in Int, \A u \in C : u < p,
           NEW old, IsMaxOf(old, CycleCounts(C)),
           NEW n, n = Cardinality({u \in C : p - u < FLAP_WINDOW} \cup {p}),
           NEW new, \/ new = old /\ n <= old
                    \/ new = n /\ old <= n
    PROVE  IsMaxOf(new, CycleCounts(C \cup {p}))
<1> DEFINE D == C \cup {p}
<1>1. FLAP_WINDOW \in Nat \ {0}
    BY FiringAssumption
<1>2. \A t \in C : Recent(D, t) = Recent(C, t)
    BY DEF Recent
<1>3. Recent(D, p) = {u \in C : p - u < FLAP_WINDOW} \cup {p}
    <2>1. p <= p /\ p - p < FLAP_WINDOW
        BY <1>1
    <2>2. \A u \in C : u <= p
        OBVIOUS
    <2> QED
        BY <2>1, <2>2 DEF Recent
<1>4. \A t : Cardinality(Recent(C, t)) \in Nat
    BY FS_Subset, FS_CardinalityType DEF Recent
<1>5. n \in Nat
    <2>1. IsFiniteSet({u \in C : p - u < FLAP_WINDOW} \cup {p})
        BY FS_Subset, FS_AddElement
    <2> QED
        BY <2>1, FS_CardinalityType
<1> HIDE DEF D
<1>6. CycleCounts(D) = CycleCounts(C) \cup {n}
    <2>1. D = C \cup {p}
        BY DEF D
    <2>2. Cardinality(Recent(D, p)) = n
        BY <1>3
    <2> QED
        BY <1>2, <2>1, <2>2 DEF CycleCounts
<1>7. CycleCounts(C) \subseteq Nat
    BY <1>4 DEF CycleCounts
<1> QED
    BY <1>5, <1>6, <1>7 DEF IsMaxOf, D

LEMMA MaxOfTwo ==
    ASSUME NEW m \in Int, NEW n \in Int
    PROVE  Max({m, n}) = IF n <= m THEN m ELSE n
<1>1. CASE n <= m
    <2>1. \A k \in {m, n} : k <= m
        BY <1>1
    <2> QED
        BY <1>1, <2>1, GreatestIsMax
<1>2. CASE ~(n <= m)
    <2>1. \A k \in {m, n} : k <= n
        BY <1>2
    <2> QED
        BY <1>2, <2>1, GreatestIsMax
<1> QED
    BY <1>1, <1>2

\* What is known of an instant while it is read.
PendingIs(a, rows, P, p) ==
    /\ a.pending_at = p
    /\ a.fires = Cardinality(FiresOf(rows, P))
    /\ a.clears = Cardinality(ClearsOf(rows, P))

IsFiringRecord(a) ==
    a = [first |-> a.first, pending_at |-> a.pending_at, fires |-> a.fires, clears |-> a.clears,
         count |-> a.count, clear_count |-> a.clear_count, current |-> a.current,
         max_episode |-> a.max_episode, open_since |-> a.open_since, cycles |-> a.cycles,
         max_cycles |-> a.max_cycles]

\* The fields of Flush, one at a time.
Now(a) == a.current + a.fires
Closes(a) == a.clears > 0 /\ Now(a) > 0
CyclesLeft(a) == {t \in a.cycles : a.pending_at - t < FLAP_WINDOW}
CyclesNow(a) == IF Closes(a) THEN CyclesLeft(a) \cup {a.pending_at} ELSE CyclesLeft(a)

LEMMA FlushFields ==
    ASSUME NEW a, IsFiringRecord(a), a.pending_at # Null
    PROVE  /\ IsFiringRecord(Flush(a))
           /\ Flush(a).max_episode = Max({a.max_episode, Now(a)})
           /\ Flush(a).cycles = CyclesNow(a)
           /\ Flush(a).max_cycles
                  = Max({a.max_cycles, IF Closes(a) THEN Cardinality(CyclesNow(a)) ELSE 0})
           /\ Flush(a).current = IF a.clears > 0 THEN 0 ELSE Now(a)
           /\ Flush(a).open_since = IF a.clears > 0 THEN Null
                                    ELSE IF a.current = 0 /\ a.fires > 0 THEN a.pending_at
                                    ELSE a.open_since
           /\ Flush(a).first = a.first /\ Flush(a).pending_at = a.pending_at
           /\ Flush(a).count = a.count /\ Flush(a).clear_count = a.clear_count
<1> DEFINE now == Now(a)
           closes == Closes(a)
           cycles == CyclesNow(a)
           R(mx, mc, cur, since) ==
        [first |-> a.first, pending_at |-> a.pending_at, fires |-> 0, clears |-> 0,
         count |-> a.count, clear_count |-> a.clear_count, current |-> cur,
         max_episode |-> mx, open_since |-> since, cycles |-> cycles, max_cycles |-> mc]
<1>1. Flush(a) = [a EXCEPT
           !.max_episode = Max({a.max_episode, now}),
           !.cycles = cycles,
           !.max_cycles = Max({a.max_cycles, IF closes THEN Cardinality(cycles) ELSE 0}),
           !.current = IF a.clears > 0 THEN 0 ELSE now,
           !.open_since = IF a.clears > 0 THEN Null
                          ELSE IF a.current = 0 /\ a.fires > 0 THEN a.pending_at ELSE a.open_since,
           !.fires = 0, !.clears = 0]
    BY DEF Flush, Now, Closes, CyclesLeft, CyclesNow
<1> HIDE DEF now, closes, cycles
<1>2. PICK mx : mx = Max({a.max_episode, now})
    OBVIOUS
<1>3. PICK mc : mc = Max({a.max_cycles, IF closes THEN Cardinality(cycles) ELSE 0})
    OBVIOUS
<1>4. PICK cur : cur = IF a.clears > 0 THEN 0 ELSE now
    OBVIOUS
<1>5. PICK since : since = IF a.clears > 0 THEN Null
                           ELSE IF a.current = 0 /\ a.fires > 0 THEN a.pending_at ELSE a.open_since
    OBVIOUS
<1>6. Flush(a) = R(mx, mc, cur, since)
    <2>1. Flush(a) = [a EXCEPT !.max_episode = mx, !.cycles = cycles, !.max_cycles = mc,
                               !.current = cur, !.open_since = since, !.fires = 0, !.clears = 0]
        BY <1>1, <1>2, <1>3, <1>4, <1>5
    <2> QED
        BY <2>1 DEF IsFiringRecord
<1>7. /\ IsFiringRecord(Flush(a)) /\ Flush(a).max_episode = mx /\ Flush(a).cycles = cycles
      /\ Flush(a).max_cycles = mc /\ Flush(a).current = cur /\ Flush(a).open_since = since
      /\ Flush(a).first = a.first /\ Flush(a).pending_at = a.pending_at
      /\ Flush(a).count = a.count /\ Flush(a).clear_count = a.clear_count
    BY <1>6 DEF IsFiringRecord
<1> QED
    BY <1>2, <1>3, <1>4, <1>5, <1>7 DEF now, closes, cycles

LEMMA CyclesAreFinite ==
    ASSUME NEW rows, NEW I, IsFiniteSet(I), \A i \in I : rows[i].at \in Int
    PROVE  /\ CycleTimes(rows, I) \in SUBSET Int /\ IsFiniteSet(CycleTimes(rows, I))
           /\ CycleCounts(CycleTimes(rows, I)) \in SUBSET Nat
<1> DEFINE at == [i \in I |-> rows[i].at]
           T == {at[i] : i \in I}
<1>1. IsFiniteSet(T)
    <2> HIDE DEF at
    <2> QED
        BY Image
<1>2. \A t \in CycleTimes(rows, I) : t \in Int /\ t \in T
    BY DEF CycleTimes, ClearsOf
<1> HIDE DEF T
<1>3. CycleTimes(rows, I) \in SUBSET Int /\ IsFiniteSet(CycleTimes(rows, I))
    BY <1>1, <1>2, FS_Subset
<1>4. ASSUME NEW C, IsFiniteSet(C) PROVE CycleCounts(C) \in SUBSET Nat
    <2>1. \A t : Cardinality(Recent(C, t)) \in Nat
        BY <1>4, FS_Subset, FS_CardinalityType DEF Recent
    <2> QED
        BY <2>1 DEF CycleCounts
<1> QED
    BY <1>3, <1>4

\* A complete instant is taken over.
LEMMA FlushIs ==
    ASSUME Null \notin Int,
           NEW rows, NEW I, NEW P, NEW p, ComesAfter(rows, I, P, p),
           NEW a, IsFiringRecord(a), CompleteIs(a, rows, I), PendingIs(a, rows, P, p)
    PROVE  /\ IsFiringRecord(Flush(a)) /\ CompleteIs(Flush(a), rows, I \cup P)
           /\ Flush(a).first = a.first /\ Flush(a).pending_at = a.pending_at
           /\ Flush(a).count = a.count /\ Flush(a).clear_count = a.clear_count
<1> DEFINE now == Now(a)
           recent == CyclesLeft(a)
           closes == Closes(a)
           cycles == CyclesNow(a)
           T == Trailing(rows, I)
           F == FiresOf(rows, P)
           K == ClearsOf(rows, P)
           b == Flush(a)
           J == I \cup P
           C == CycleTimes(rows, I)
<1>1. p \in Int /\ a.pending_at = p /\ p # Null
    BY DEF PendingIs, ComesAfter
<1>2. /\ IsFiniteSet(I) /\ IsFiniteSet(P) /\ P # {}
      /\ \A i \in I : rows[i].at \in Int /\ rows[i].at < p
      /\ \A i \in P : rows[i].at = p
    BY DEF ComesAfter
<1>3. /\ IsFiniteSet(T) /\ IsFiniteSet(F) /\ IsFiniteSet(K)
      /\ Cardinality(T) \in Nat /\ Cardinality(F) \in Nat /\ Cardinality(K) \in Nat
    BY <1>2, FiniteFires
<1>4. a.current = Cardinality(T) /\ a.fires = Cardinality(F) /\ a.clears = Cardinality(K)
    BY DEF CompleteIs, PendingIs
<1>5. /\ a.current = 0 <=> T = {}
      /\ a.fires = 0 <=> F = {}
      /\ a.clears = 0 <=> K = {}
    BY <1>3, <1>4, FS_EmptySet
<1>6. a.current \in Nat /\ a.fires \in Nat /\ a.clears \in Nat /\ now \in Nat
    BY <1>3, <1>4 DEF Now
<1>7. now = Cardinality(T) + Cardinality(F) /\ now = Cardinality(T \cup F)
    BY <1>4, TrailingCount DEF Now
<1>8. Trailing(rows, J) = IF K = {} THEN T \cup F ELSE {}
    BY TrailingGrows
<1>9. closes \in BOOLEAN /\ (closes <=> K # {} /\ T \cup F # {})
    <2>1. now > 0 <=> ~(T = {} /\ F = {})
        BY <1>5, <1>6 DEF Now
    <2>2. a.clears > 0 <=> K # {}
        BY <1>5, <1>6
    <2> QED
        BY <2>1, <2>2 DEF Closes
<1>10. CycleTimes(rows, J) = IF closes THEN C \cup {p} ELSE C
    <2>1. C \cup {} = C
        OBVIOUS
    <2>2. CycleTimes(rows, J) = C \cup (IF K # {} /\ T \cup F # {} THEN {p} ELSE {})
        BY CyclesGrow
    <2> QED
        BY <1>9, <2>1, <2>2
<1>11. /\ IsFiringRecord(b) /\ b.first = a.first /\ b.pending_at = a.pending_at
       /\ b.count = a.count /\ b.clear_count = a.clear_count
       /\ b.max_episode = Max({a.max_episode, now}) /\ b.cycles = cycles
       /\ b.max_cycles = Max({a.max_cycles, IF closes THEN Cardinality(cycles) ELSE 0})
       /\ b.current = IF a.clears > 0 THEN 0 ELSE now
       /\ b.open_since = IF a.clears > 0 THEN Null
                         ELSE IF a.current = 0 /\ a.fires > 0 THEN a.pending_at ELSE a.open_since
    BY <1>1, FlushFields
<1> HIDE DEF now, recent, closes, cycles, T, F, K, b, J, C
<1>12. b.current = Cardinality(Trailing(rows, J))
    <2>1. Cardinality({}) = 0
        BY FS_EmptySet
    <2> QED
        BY <1>5, <1>6, <1>7, <1>8, <1>11, <2>1
<1>13. IsMaxOf(b.max_episode, EpisodeSizes(rows, J))
    <2>1. PICK old : old = a.max_episode
        OBVIOUS
    <2>2. IsMaxOf(old, EpisodeSizes(rows, I))
        BY <2>1 DEF CompleteIs
    <2>3. old \in Nat
        <3>1. \A i : Cardinality(Episode(rows, I, i)) \in Nat
            BY <1>2, FiniteFires
        <3> QED
            BY <2>2, <3>1 DEF IsMaxOf, EpisodeSizes
    <2>4. PICK new : new = b.max_episode
        OBVIOUS
    <2>5. new = IF now <= old THEN old ELSE now
        BY <1>6, <1>11, <2>1, <2>3, <2>4, MaxOfTwo
    <2>6. \/ new = old /\ now <= old
          \/ new = now /\ old <= now
        BY <1>6, <2>3, <2>5
    <2>7. now = Cardinality(Trailing(rows, I)) + Cardinality(FiresOf(rows, P))
        BY <1>7 DEF T, F
    <2>8. IsMaxOf(new, EpisodeSizes(rows, I \cup P))
        BY <2>2, <2>6, <2>7, EpisodesGrow
    <2> QED
        BY <2>4, <2>8 DEF J
<1>14. IF Trailing(rows, J) = {} THEN b.open_since = Null
       ELSE IsMinOf(b.open_since, {rows[i].at : i \in Trailing(rows, J)})
    <2>1. CASE K # {}
        BY <1>5, <1>6, <1>8, <1>11, <2>1
    <2>2. CASE K = {} /\ F = {}
        <3>1. Trailing(rows, J) = T
            BY <1>8, <2>2
        <3>2. b.open_since = a.open_since
            BY <1>5, <1>6, <1>11, <2>2
        <3> QED
            BY <3>1, <3>2 DEF CompleteIs, T
    <2>3. CASE K = {} /\ F # {} /\ T = {}
        <3>1. Trailing(rows, J) = F /\ b.open_since = p
            BY <1>1, <1>5, <1>6, <1>8, <1>11, <2>3
        <3>2. \A i \in F : rows[i].at = p
            BY <1>2 DEF F, FiresOf
        <3> QED
            BY <1>1, <2>3, <3>1, <3>2 DEF IsMinOf
    <2>4. CASE K = {} /\ T # {}
        <3>1. Trailing(rows, J) = T \cup F /\ b.open_since = a.open_since
            BY <1>5, <1>6, <1>8, <1>11, <2>4
        <3>2. IsMinOf(a.open_since, {rows[i].at : i \in T})
            BY <2>4 DEF CompleteIs, T
        <3>3. \A i \in F : rows[i].at = p
            BY <1>2 DEF F, FiresOf
        <3>4. \A i \in T : rows[i].at \in Int /\ rows[i].at < p
            BY <1>2 DEF T, Trailing, FiresOf
        <3>5. a.open_since \in Int /\ a.open_since < p
            BY <3>2, <3>4 DEF IsMinOf
        <3>6. a.open_since \in {rows[i].at : i \in T \cup F}
            BY <3>2 DEF IsMinOf
        <3>7. \A i \in T : a.open_since <= rows[i].at
            BY <3>2 DEF IsMinOf
        <3>8. \A i \in T \cup F : a.open_since <= rows[i].at
            BY <1>1, <3>3, <3>5, <3>7
        <3> QED
            BY <2>4, <3>1, <3>6, <3>8 DEF IsMinOf
    <2> QED
        BY <2>1, <2>2, <2>3, <2>4
<1>15. a.cycles \subseteq C /\ \A t \in C : t \in Int /\ t < p
    BY <1>2 DEF CompleteIs, C, CycleTimes, ClearsOf
<1>16. \A t \in C \ a.cycles : p - t >= FLAP_WINDOW
    <2> SUFFICES ASSUME NEW t \in C \ a.cycles PROVE p - t >= FLAP_WINDOW
        OBVIOUS
    <2>1. PICK i \in I : rows[i].at - t >= FLAP_WINDOW
        BY DEF CompleteIs, C
    <2>2. FLAP_WINDOW \in Nat
        BY FiringAssumption
    <2> QED
        BY <1>1, <1>2, <1>15, <2>1, <2>2
<1>17. recent = {u \in C : p - u < FLAP_WINDOW}
    <2>1. \A t \in C : t \in Int
        BY <1>15
    <2>2. FLAP_WINDOW \in Nat
        BY FiringAssumption
    <2> QED
        BY <1>1, <1>15, <1>16, <2>2 DEF recent, CyclesLeft
<1>18. cycles = IF closes THEN recent \cup {p} ELSE recent
    BY <1>1 DEF cycles, CyclesNow, recent, closes
<1>19. b.cycles \subseteq CycleTimes(rows, J)
    BY <1>10, <1>11, <1>17, <1>18
<1>20. \A t \in CycleTimes(rows, J) \ b.cycles : \E i \in J : rows[i].at - t >= FLAP_WINDOW
    <2> SUFFICES ASSUME NEW t \in CycleTimes(rows, J), t \notin b.cycles
                 PROVE  \E i \in J : rows[i].at - t >= FLAP_WINDOW
        OBVIOUS
    <2>1. t \in C /\ t \notin recent
        BY <1>10, <1>11, <1>18
    <2>2. p - t >= FLAP_WINDOW
        <3>1. FLAP_WINDOW \in Nat
            BY FiringAssumption
        <3> QED
            BY <1>1, <1>15, <1>17, <2>1, <3>1
    <2>3. PICK i \in P : rows[i].at = p
        BY <1>2
    <2> QED
        BY <2>2, <2>3 DEF J
<1>21. IsMaxOf(b.max_cycles, CycleCounts(CycleTimes(rows, J)))
    <2>1. PICK old : old = a.max_cycles
        OBVIOUS
    <2>2. IsMaxOf(old, CycleCounts(C))
        BY <2>1 DEF CompleteIs, C
    <2>3. C \in SUBSET Int /\ IsFiniteSet(C) /\ CycleCounts(C) \in SUBSET Nat
        BY <1>2, CyclesAreFinite DEF C
    <2>4. old \in Nat
        BY <2>2, <2>3 DEF IsMaxOf
    <2>5. CASE ~closes
        <3>1. b.max_cycles = Max({old, 0})
            BY <1>11, <2>1, <2>5
        <3>2. b.max_cycles = old
            BY <2>4, <3>1, MaxOfTwo
        <3> QED
            BY <1>10, <2>2, <2>5, <3>2
    <2>6. CASE closes
        <3>1. PICK n : n = Cardinality(recent \cup {p})
            OBVIOUS
        <3>2. n \in Nat
            <4>1. IsFiniteSet(recent)
                BY <1>17, <2>3, FS_Subset
            <4> QED
                BY <3>1, <4>1, FS_AddElement, FS_CardinalityType
        <3>3. PICK new : new = b.max_cycles
            OBVIOUS
        <3>4. new = Max({old, n})
            BY <1>11, <1>18, <2>1, <2>6, <3>1, <3>3
        <3>5. \/ new = old /\ n <= old
              \/ new = n /\ old <= n
            <4>1. new = IF n <= old THEN old ELSE n
                BY <2>4, <3>2, <3>4, MaxOfTwo
            <4> QED
                BY <2>4, <3>2, <4>1
        <3>6. n = Cardinality({u \in C : p - u < FLAP_WINDOW} \cup {p})
            BY <1>17, <3>1
        <3>7. \A u \in C : u < p
            BY <1>15
        <3>8. IsMaxOf(new, CycleCounts(C \cup {p}))
            BY <1>1, <2>2, <2>3, <3>5, <3>6, <3>7, CountsGrow
        <3> QED
            BY <1>10, <2>6, <3>3, <3>8
    <2> QED
        BY <2>5, <2>6
<1>22. CompleteIs(b, rows, J)
    BY <1>12, <1>13, <1>14, <1>19, <1>20, <1>21 DEF CompleteIs
<1> QED
    BY <1>11, <1>22 DEF b, J

-------------------------------------------------------------------------------
\* The accumulator of an identity after a set of its rows.
LastRows(rows, I, p) == {i \in I : rows[i].at = p}
FiringOf(a, rows, I) ==
    /\ IsFiringRecord(a)
    /\ I = {} => a = NoFiring
    /\ I # {} =>
         /\ a.pending_at \in Int /\ IsMaxOf(a.pending_at, {rows[i].at : i \in I})
         /\ IsMinOf(a.first, {rows[i].at : i \in I})
         /\ a.count = Cardinality(I)
         /\ a.clear_count = Cardinality(ClearsOf(rows, I))
         /\ PendingIs(a, rows, LastRows(rows, I, a.pending_at), a.pending_at)
         /\ CompleteIs(a, rows, I \ LastRows(rows, I, a.pending_at))

IsRead(rows, I) == IsFiniteSet(I) /\ \A i \in I : rows[i].at \in Int

LEMMA NothingFires ==
    ASSUME NEW rows
    PROVE  FiringOf(NoFiring, rows, {})
BY DEF FiringOf, IsFiringRecord, NoFiring

LEMMA NothingComplete ==
    ASSUME NEW rows, NEW a, a.current = 0, a.max_episode = 0, a.open_since = Null,
           a.cycles = {}, a.max_cycles = 0
    PROVE  CompleteIs(a, rows, {})
<1>1. Trailing(rows, {}) = {} /\ CycleTimes(rows, {}) = {} /\ FiresOf(rows, {}) = {}
    BY DEF Trailing, CycleTimes, FiresOf, ClearsOf
<1>2. EpisodeSizes(rows, {}) = {0} /\ CycleCounts({}) = {0}
    BY <1>1 DEF EpisodeSizes, CycleCounts
<1>3. Cardinality({}) = 0
    BY FS_EmptySet
<1> QED
    BY <1>1, <1>2, <1>3 DEF CompleteIs, IsMaxOf

\* The last instant is after the others.
LEMMA LastComesAfter ==
    ASSUME NEW rows, NEW I, I # {}, IsRead(rows, I), NEW p \in Int, IsMaxOf(p, {rows[i].at : i \in I})
    PROVE  /\ ComesAfter(rows, I \ LastRows(rows, I, p), LastRows(rows, I, p), p)
           /\ (I \ LastRows(rows, I, p)) \cup LastRows(rows, I, p) = I
<1> DEFINE P == LastRows(rows, I, p)
<1>1. P \subseteq I /\ IsFiniteSet(P) /\ IsFiniteSet(I \ P)
    BY FS_Subset DEF LastRows, IsRead
<1>2. P # {} /\ \A i \in P : rows[i].at = p
    BY DEF LastRows, IsMaxOf
<1>3. \A i \in I \ P : rows[i].at \in Int /\ rows[i].at < p
    <2>1. \A i \in I : rows[i].at <= p
        BY DEF IsMaxOf
    <2> QED
        BY <2>1 DEF LastRows, IsRead
<1> HIDE DEF P
<1>4. ComesAfter(rows, I \ P, P, p)
    BY <1>1, <1>2, <1>3 DEF ComesAfter
<1> QED
    BY <1>1, <1>4 DEF P

\* What a completed accumulator knows.
LEMMA Completed ==
    ASSUME Null \notin Int, NEW rows, NEW I, I # {}, IsRead(rows, I), NEW a, FiringOf(a, rows, I)
    PROVE  /\ IsFiringRecord(Flush(a)) /\ CompleteIs(Flush(a), rows, I)
           /\ Flush(a).first = a.first /\ Flush(a).pending_at = a.pending_at
           /\ Flush(a).count = a.count /\ Flush(a).clear_count = a.clear_count
<1> DEFINE p == a.pending_at
           P == LastRows(rows, I, p)
<1>1. /\ IsFiringRecord(a) /\ p \in Int /\ IsMaxOf(p, {rows[i].at : i \in I})
      /\ PendingIs(a, rows, P, p) /\ CompleteIs(a, rows, I \ P)
    BY DEF FiringOf
<1>2. ComesAfter(rows, I \ P, P, p) /\ (I \ P) \cup P = I
    BY <1>1, LastComesAfter
<1> HIDE DEF p, P
<1>3. PICK q, Q, B : q = p /\ Q = P /\ B = I \ P
    OBVIOUS
<1>4. ComesAfter(rows, B, Q, q) /\ PendingIs(a, rows, Q, q) /\ CompleteIs(a, rows, B) /\ B \cup Q = I
    BY <1>1, <1>2, <1>3
<1>5. CompleteIs(Flush(a), rows, B \cup Q)
    BY <1>1, <1>4, FlushIs
<1>6. /\ IsFiringRecord(Flush(a))
      /\ Flush(a).first = a.first /\ Flush(a).pending_at = a.pending_at
      /\ Flush(a).count = a.count /\ Flush(a).clear_count = a.clear_count
    <2>1. a.pending_at # Null
        BY <1>1 DEF p
    <2> QED
        BY <1>1, <2>1, FlushFields
<1> QED
    BY <1>4, <1>5, <1>6

\* The fields of AddFiring, one at a time.
LEMMA AddFields ==
    ASSUME NEW a, NEW row,
           NEW b, b = IF IsNewInstant(a, row) THEN Flush(a) ELSE a, IsFiringRecord(b),
           NEW clear, clear = IF IsClear(row) THEN 1 ELSE 0,
           NEW c, c = AddFiring(a, row)
    PROVE  /\ IsFiringRecord(c)
           /\ c.first = (IF b.first = Null THEN row.at ELSE b.first) /\ c.pending_at = row.at
           /\ c.count = b.count + 1 /\ c.clear_count = b.clear_count + clear
           /\ c.clears = b.clears + clear /\ c.fires = b.fires + 1 - clear
           /\ c.current = b.current /\ c.max_episode = b.max_episode
           /\ c.open_since = b.open_since /\ c.cycles = b.cycles /\ c.max_cycles = b.max_cycles
<1>1. PICK f, t, n, m, k, h :
          /\ f = IF b.first = Null THEN row.at ELSE b.first
          /\ t = row.at /\ n = b.count + 1 /\ m = b.clears + clear
          /\ k = b.clear_count + clear /\ h = b.fires + 1 - clear
    OBVIOUS
<1>2. c = [b EXCEPT !.first = f, !.pending_at = t, !.count = n, !.clears = m,
                    !.clear_count = k, !.fires = h]
    BY <1>1 DEF AddFiring
<1>3. c = [first |-> f, pending_at |-> t, fires |-> h, clears |-> m, count |-> n,
           clear_count |-> k, current |-> b.current, max_episode |-> b.max_episode,
           open_since |-> b.open_since, cycles |-> b.cycles, max_cycles |-> b.max_cycles]
    BY <1>2 DEF IsFiringRecord
<1>4. /\ IsFiringRecord(c) /\ c.first = f /\ c.pending_at = t /\ c.count = n
      /\ c.clear_count = k /\ c.clears = m /\ c.fires = h
      /\ c.current = b.current /\ c.max_episode = b.max_episode
      /\ c.open_since = b.open_since /\ c.cycles = b.cycles /\ c.max_cycles = b.max_cycles
    BY <1>3 DEF IsFiringRecord
<1> QED
    BY <1>1, <1>4

LEMMA OneMoreFires ==
    ASSUME NEW rows, NEW P, IsFiniteSet(P), NEW k, k \notin P,
           NEW clear, clear = IF IsClear(rows[k]) THEN 1 ELSE 0
    PROVE  /\ Cardinality(FiresOf(rows, P \cup {k})) = Cardinality(FiresOf(rows, P)) + 1 - clear
           /\ Cardinality(ClearsOf(rows, P \cup {k})) = Cardinality(ClearsOf(rows, P)) + clear
<1>1. /\ IsFiniteSet(FiresOf(rows, P)) /\ IsFiniteSet(ClearsOf(rows, P))
      /\ Cardinality(FiresOf(rows, P)) \in Nat /\ Cardinality(ClearsOf(rows, P)) \in Nat
    BY FiniteFires
<1>2. k \notin FiresOf(rows, P) /\ k \notin ClearsOf(rows, P)
    BY DEF FiresOf, ClearsOf
<1> DEFINE f == Cardinality(FiresOf(rows, P))
           c == Cardinality(ClearsOf(rows, P))
<1>3. CASE IsClear(rows[k])
    <2>1. /\ FiresOf(rows, P \cup {k}) = FiresOf(rows, P)
          /\ ClearsOf(rows, P \cup {k}) = ClearsOf(rows, P) \cup {k}
        BY <1>3 DEF FiresOf, ClearsOf
    <2>2. Cardinality(ClearsOf(rows, P) \cup {k}) = Cardinality(ClearsOf(rows, P)) + 1
        BY <1>1, <1>2, FS_AddElement
    <2>3. clear = 1 /\ f \in Nat /\ c \in Nat
        BY <1>1, <1>3
    <2>4. Cardinality(FiresOf(rows, P \cup {k})) = f /\ Cardinality(ClearsOf(rows, P \cup {k})) = c + 1
        BY <2>1, <2>2
    <2> HIDE DEF f, c
    <2>5. f = f + 1 - clear /\ c + 1 = c + clear
        BY <2>3
    <2> QED
        BY <2>4, <2>5 DEF f, c
<1>4. CASE ~IsClear(rows[k])
    <2>1. /\ FiresOf(rows, P \cup {k}) = FiresOf(rows, P) \cup {k}
          /\ ClearsOf(rows, P \cup {k}) = ClearsOf(rows, P)
        BY <1>4 DEF FiresOf, ClearsOf
    <2>2. Cardinality(FiresOf(rows, P) \cup {k}) = Cardinality(FiresOf(rows, P)) + 1
        BY <1>1, <1>2, FS_AddElement
    <2>3. clear = 0 /\ f \in Nat /\ c \in Nat
        BY <1>1, <1>4
    <2>4. Cardinality(FiresOf(rows, P \cup {k})) = f + 1 /\ Cardinality(ClearsOf(rows, P \cup {k})) = c
        BY <2>1, <2>2
    <2> HIDE DEF f, c
    <2>5. f + 1 = f + 1 - clear /\ c = c + clear
        BY <2>3
    <2> QED
        BY <2>4, <2>5 DEF f, c
<1> QED
    BY <1>3, <1>4

LEMMA SameComplete ==
    ASSUME NEW rows, NEW I, NEW a, CompleteIs(a, rows, I), NEW b,
           b.current = a.current, b.max_episode = a.max_episode,
           b.open_since = a.open_since, b.cycles = a.cycles, b.max_cycles = a.max_cycles
    PROVE  CompleteIs(b, rows, I)
BY DEF CompleteIs

LEMMA SomeFiring ==
    ASSUME NEW rows, NEW J, J # {}, NEW c, NEW p \in Int, NEW P, P = LastRows(rows, J, p),
           NEW B, B = J \ P, IsFiringRecord(c), c.pending_at = p,
           IsMaxOf(p, {rows[i].at : i \in J}), IsMinOf(c.first, {rows[i].at : i \in J}),
           c.count = Cardinality(J), c.clear_count = Cardinality(ClearsOf(rows, J)),
           PendingIs(c, rows, P, p), CompleteIs(c, rows, B)
    PROVE  FiringOf(c, rows, J)
BY DEF FiringOf

\* The accumulator takes over one row that is not before the others.
LEMMA FiringAdded ==
    ASSUME Null \notin Int, NEW rows, NEW I, IsRead(rows, I), NEW a, FiringOf(a, rows, I),
           NEW k, k \notin I, rows[k].at \in Int, \A i \in I : rows[i].at <= rows[k].at
    PROVE  FiringOf(AddFiring(a, rows[k]), rows, I \cup {k})
<1> DEFINE J == I \cup {k}
<1>1. PICK c : c = AddFiring(a, rows[k])
    OBVIOUS
<1>2. PICK clear : clear = IF IsClear(rows[k]) THEN 1 ELSE 0
    OBVIOUS
<1>3. PICK t : t = rows[k].at
    OBVIOUS
<1>4. PICK T : T = {rows[i].at : i \in I}
    OBVIOUS
<1>5. {rows[i].at : i \in J} = T \cup {t} /\ T \in SUBSET Int /\ t \in Int /\ \A u \in T : u <= t
    BY <1>3, <1>4 DEF IsRead
<1>6. IsMaxOf(t, {rows[i].at : i \in J})
    BY <1>5 DEF IsMaxOf
<1>7. Cardinality(J) = Cardinality(I) + 1
    BY FS_AddElement DEF IsRead
<1>8. Cardinality(ClearsOf(rows, J)) = Cardinality(ClearsOf(rows, I)) + clear
    BY <1>2, OneMoreFires DEF IsRead
<1>9. PICK b : b = IF IsNewInstant(a, rows[k]) THEN Flush(a) ELSE a
    OBVIOUS
<1>10. IsFiringRecord(a)
    BY DEF FiringOf
<1>11. /\ Cardinality(FiresOf(rows, {k})) = 1 - clear /\ Cardinality(ClearsOf(rows, {k})) = clear
    <2>1. FiresOf(rows, {}) = {} /\ ClearsOf(rows, {}) = {} /\ {} \cup {k} = {k}
        BY DEF FiresOf, ClearsOf
    <2>2. Cardinality({}) = 0 /\ IsFiniteSet({}) /\ k \notin {}
        BY FS_EmptySet
    <2>3. clear \in Int
        BY <1>2
    <2>4. /\ Cardinality(FiresOf(rows, {} \cup {k})) = Cardinality(FiresOf(rows, {})) + 1 - clear
          /\ Cardinality(ClearsOf(rows, {} \cup {k})) = Cardinality(ClearsOf(rows, {})) + clear
        BY <1>2, <2>2, OneMoreFires
    <2>5. Cardinality(FiresOf(rows, {})) = 0 /\ Cardinality(ClearsOf(rows, {})) = 0
        BY <2>1, <2>2
    <2>6. /\ Cardinality(FiresOf(rows, {k})) = Cardinality(FiresOf(rows, {})) + 1 - clear
          /\ Cardinality(ClearsOf(rows, {k})) = Cardinality(ClearsOf(rows, {})) + clear
        BY <2>1, <2>4
    <2>7. 0 + 1 - clear = 1 - clear /\ 0 + clear = clear
        BY <2>3
    <2> QED
        BY <2>5, <2>6, <2>7
<1>12. ASSUME IsFiringRecord(b)
       PROVE  /\ IsFiringRecord(c)
              /\ c.first = (IF b.first = Null THEN t ELSE b.first) /\ c.pending_at = t
              /\ c.count = b.count + 1 /\ c.clear_count = b.clear_count + clear
              /\ c.clears = b.clears + clear /\ c.fires = b.fires + 1 - clear
              /\ c.current = b.current /\ c.max_episode = b.max_episode
              /\ c.open_since = b.open_since /\ c.cycles = b.cycles /\ c.max_cycles = b.max_cycles
    <2>1. PICK row : row = rows[k]
        OBVIOUS
    <2>2. /\ b = IF IsNewInstant(a, row) THEN Flush(a) ELSE a
          /\ clear = IF IsClear(row) THEN 1 ELSE 0
          /\ c = AddFiring(a, row) /\ t = row.at
        BY <1>1, <1>2, <1>3, <1>9, <2>1
    <2> QED
        BY <1>12, <2>2, AddFields
<1>13. CASE I = {}
    <2>1. a = NoFiring /\ b = a
        BY <1>9, <1>13 DEF FiringOf, IsNewInstant, NoFiring
    <2>2. /\ IsFiringRecord(c) /\ c.first = t /\ c.pending_at = t
          /\ c.count = 1 /\ c.clear_count = clear /\ c.clears = clear /\ c.fires = 1 - clear
          /\ c.current = 0 /\ c.max_episode = 0 /\ c.open_since = Null /\ c.cycles = {}
          /\ c.max_cycles = 0
        <3>1. /\ a.first = Null /\ a.count = 0 /\ a.clear_count = 0 /\ a.clears = 0 /\ a.fires = 0
              /\ a.current = 0 /\ a.max_episode = 0 /\ a.open_since = Null /\ a.cycles = {}
              /\ a.max_cycles = 0
            BY <2>1 DEF NoFiring
        <3>2. clear \in Int
            BY <1>2
        <3>3. /\ IsFiringRecord(c)
              /\ c.first = (IF b.first = Null THEN t ELSE b.first) /\ c.pending_at = t
              /\ c.count = b.count + 1 /\ c.clear_count = b.clear_count + clear
              /\ c.clears = b.clears + clear /\ c.fires = b.fires + 1 - clear
              /\ c.current = b.current /\ c.max_episode = b.max_episode
              /\ c.open_since = b.open_since /\ c.cycles = b.cycles /\ c.max_cycles = b.max_cycles
            BY <1>10, <1>12, <2>1
        <3> QED
            BY <2>1, <3>1, <3>2, <3>3
    <2>3. /\ J = {k} /\ T = {} /\ LastRows(rows, J, t) = {k} /\ J \ LastRows(rows, J, t) = {}
        BY <1>3, <1>4, <1>13 DEF LastRows
    <2>4. IsMinOf(c.first, {rows[i].at : i \in J})
        BY <1>5, <2>2, <2>3 DEF IsMinOf
    <2>5. Cardinality(J) = 1
        BY <2>3, FS_Singleton
    <2>6. PendingIs(c, rows, {k}, t)
        BY <1>11, <2>2 DEF PendingIs
    <2>7. CompleteIs(c, rows, {})
        BY <2>2, NothingComplete
    <2>8. Cardinality(ClearsOf(rows, J)) = clear
        BY <1>11, <2>3
    <2>9. c.count = Cardinality(J) /\ c.clear_count = Cardinality(ClearsOf(rows, J)) /\ J # {}
        BY <2>2, <2>5, <2>8
    <2> HIDE DEF J
    <2>10. PICK Q, B : Q = {k} /\ B = {}
        OBVIOUS
    <2>11. /\ Q = LastRows(rows, J, t) /\ B = J \ Q
           /\ PendingIs(c, rows, Q, t) /\ CompleteIs(c, rows, B)
        BY <2>3, <2>6, <2>7, <2>10
    <2>12. FiringOf(c, rows, J)
        BY <1>5, <1>6, <2>2, <2>4, <2>9, <2>11, SomeFiring
    <2> QED
        BY <1>1, <2>12 DEF J
<1>14. ASSUME I # {}
       PROVE  IsMinOf(a.first, T \cup {t}) /\ a.first # Null /\ a.pending_at \in T /\ a.pending_at # Null
    <2>1. IsMinOf(a.first, T) /\ IsMaxOf(a.pending_at, T)
        BY <1>4, <1>14 DEF FiringOf
    <2>2. a.first \in T /\ a.pending_at \in T /\ \A u \in T : a.first <= u
        BY <2>1 DEF IsMinOf, IsMaxOf
    <2> QED
        BY <1>5, <2>2 DEF IsMinOf
<1>15. ASSUME I # {}, IsFiringRecord(b), b.first = a.first, b.count = a.count,
              b.clear_count = a.clear_count
       PROVE  /\ IsFiringRecord(c) /\ c.pending_at = t
              /\ IsMinOf(c.first, {rows[i].at : i \in J})
              /\ c.count = Cardinality(J)
              /\ c.clear_count = Cardinality(ClearsOf(rows, J))
    <2>1. /\ IsFiringRecord(c)
          /\ c.first = (IF b.first = Null THEN t ELSE b.first) /\ c.pending_at = t
          /\ c.count = b.count + 1 /\ c.clear_count = b.clear_count + clear
        BY <1>12, <1>15
    <2>2. a.count = Cardinality(I) /\ a.clear_count = Cardinality(ClearsOf(rows, I))
        BY <1>15 DEF FiringOf
    <2> QED
        BY <1>5, <1>7, <1>8, <1>14, <1>15, <2>1, <2>2
<1>16. CASE I # {} /\ a.pending_at # t
    <2>1. b = Flush(a)
        BY <1>3, <1>9, <1>14, <1>16 DEF IsNewInstant
    <2>2. /\ IsFiringRecord(b) /\ CompleteIs(b, rows, I) /\ b.first = a.first
          /\ b.count = a.count /\ b.clear_count = a.clear_count
        BY <1>16, <2>1, Completed
    <2>3. /\ IsFiringRecord(c) /\ c.pending_at = t
          /\ IsMinOf(c.first, {rows[i].at : i \in J})
          /\ c.count = Cardinality(J)
          /\ c.clear_count = Cardinality(ClearsOf(rows, J))
        BY <1>15, <1>16, <2>2
    <2>4. /\ c.clears = b.clears + clear /\ c.fires = b.fires + 1 - clear
          /\ c.current = b.current /\ c.max_episode = b.max_episode
          /\ c.open_since = b.open_since /\ c.cycles = b.cycles /\ c.max_cycles = b.max_cycles
        BY <1>12, <2>2
    <2>5. b.clears = 0 /\ b.fires = 0
        BY <1>14, <1>16, <2>1 DEF Flush
    <2>6. LastRows(rows, J, t) = {k} /\ J \ LastRows(rows, J, t) = I
        <3>1. t \notin T
            <4>1. IsMaxOf(a.pending_at, T)
                BY <1>4, <1>16 DEF FiringOf
            <4>2. \A u \in T : u <= a.pending_at
                BY <4>1 DEF IsMaxOf
            <4>3. a.pending_at \in T
                BY <1>14, <1>16
            <4>4. PICK q \in T : q = a.pending_at
                BY <4>3
            <4>5. q \in Int /\ q <= t /\ q # t /\ \A u \in T : u <= q
                BY <1>5, <1>16, <4>2, <4>4
            <4> QED
                BY <1>5, <4>5
        <3>2. \A i \in I : rows[i].at # t
            BY <1>4, <3>1
        <3> QED
            BY <1>3, <3>2 DEF LastRows
    <2>7. PendingIs(c, rows, {k}, t)
        <3>1. clear \in Int
            BY <1>2
        <3>2. c.clears = clear /\ c.fires = 1 - clear
            BY <2>4, <2>5, <3>1
        <3> QED
            BY <1>11, <2>3, <3>2 DEF PendingIs
    <2>8. CompleteIs(c, rows, I)
        BY <2>2, <2>4, SameComplete
    <2>9. J # {}
        OBVIOUS
    <2> HIDE DEF J
    <2>10. PICK Q : Q = {k}
        OBVIOUS
    <2>11. /\ Q = LastRows(rows, J, t) /\ I = J \ Q
           /\ PendingIs(c, rows, Q, t) /\ CompleteIs(c, rows, I)
        BY <2>6, <2>7, <2>8, <2>10
    <2>12. FiringOf(c, rows, J)
        BY <1>5, <1>6, <2>3, <2>9, <2>11, SomeFiring
    <2> QED
        BY <1>1, <2>12 DEF J
<1>17. CASE I # {} /\ a.pending_at = t
    <2>1. b = a
        BY <1>3, <1>9, <1>17 DEF IsNewInstant
    <2>2. /\ IsFiringRecord(c) /\ c.pending_at = t
          /\ IsMinOf(c.first, {rows[i].at : i \in J})
          /\ c.count = Cardinality(J)
          /\ c.clear_count = Cardinality(ClearsOf(rows, J))
        BY <1>10, <1>15, <1>17, <2>1
    <2>3. /\ c.clears = a.clears + clear /\ c.fires = a.fires + 1 - clear
          /\ c.current = a.current /\ c.max_episode = a.max_episode
          /\ c.open_since = a.open_since /\ c.cycles = a.cycles /\ c.max_cycles = a.max_cycles
        BY <1>10, <1>12, <2>1
    <2>4. PICK P : P = LastRows(rows, I, t)
        OBVIOUS
    <2>5. PendingIs(a, rows, P, t) /\ CompleteIs(a, rows, I \ P)
        BY <1>17, <2>4 DEF FiringOf
    <2>6. /\ LastRows(rows, J, t) = P \cup {k} /\ J \ (P \cup {k}) = I \ P
          /\ k \notin P /\ IsFiniteSet(P)
        BY <1>3, <2>4, FS_Subset DEF LastRows, IsRead
    <2>7. PendingIs(c, rows, P \cup {k}, t)
        <3>1. /\ Cardinality(FiresOf(rows, P \cup {k})) = Cardinality(FiresOf(rows, P)) + 1 - clear
              /\ Cardinality(ClearsOf(rows, P \cup {k})) = Cardinality(ClearsOf(rows, P)) + clear
            <4>1. k \notin P /\ IsFiniteSet(P)
                BY <2>6
            <4> QED
                BY <1>2, <4>1, OneMoreFires
        <3> QED
            BY <2>2, <2>3, <2>5, <3>1 DEF PendingIs
    <2>8. CompleteIs(c, rows, I \ P)
        BY <2>3, <2>5, SameComplete
    <2>9. J # {}
        OBVIOUS
    <2> HIDE DEF J
    <2>10. PICK Q, B : Q = P \cup {k} /\ B = I \ P
        OBVIOUS
    <2>11. /\ Q = LastRows(rows, J, t) /\ B = J \ Q
           /\ PendingIs(c, rows, Q, t) /\ CompleteIs(c, rows, B)
        BY <2>6, <2>7, <2>8, <2>10
    <2>12. FiringOf(c, rows, J)
        BY <1>5, <1>6, <2>2, <2>9, <2>11, SomeFiring
    <2> QED
        BY <1>1, <2>12 DEF J
<1> QED
    BY <1>1, <1>13, <1>16, <1>17

-------------------------------------------------------------------------------
\* The same rows under other names.
Matches(s, D, rows, I, f) ==
    /\ IsFiniteSet(D) /\ f \in Bijection(D, I)
    /\ \A k \in D : s[k] = rows[f[k]]

LEMMA MatchesMeans ==
    ASSUME NEW s, NEW D, NEW rows, NEW I, NEW f, Matches(s, D, rows, I, f)
    PROVE  /\ \A k \in D : f[k] \in I /\ s[k] = rows[f[k]]
           /\ \A i \in I : \E k \in D : f[k] = i
BY DEF Matches, Bijection, Injection, Surjection

LEMMA SameCount ==
    ASSUME NEW s, NEW D, NEW rows, NEW I, NEW f, Matches(s, D, rows, I, f),
           NEW Y \in SUBSET D, NEW X \in SUBSET I, \A k \in D : k \in Y <=> f[k] \in X
    PROVE  Cardinality(Y) = Cardinality(X)
<1> DEFINE g == [k \in Y |-> f[k]]
<1>1. f \in [D -> I] /\ \A j, k \in D : f[j] = f[k] => j = k
    BY DEF Matches, Bijection, Injection, IsInjective
<1>2. \A i \in X : \E k \in Y : f[k] = i
    BY MatchesMeans
<1>3. g \in Bijection(Y, X)
    BY <1>1, <1>2 DEF Bijection, Injection, Surjection, IsInjective
<1>4. IsFiniteSet(Y)
    BY FS_Subset DEF Matches
<1> HIDE DEF g
<1>5. ExistsBijection(Y, X)
    BY <1>3 DEF ExistsBijection
<1> QED
    BY <1>4, <1>5, FS_Bijection

LEMMA SameParts ==
    ASSUME NEW s, NEW D, NEW rows, NEW I, NEW f, Matches(s, D, rows, I, f)
    PROVE  /\ \A k \in D : k \in FiresOf(s, D) <=> f[k] \in FiresOf(rows, I)
           /\ \A k \in D : k \in ClearsOf(s, D) <=> f[k] \in ClearsOf(rows, I)
           /\ \A t, u : Parted(s, D, t, u) <=> Parted(rows, I, t, u)
<1>1. /\ \A k \in D : k \in FiresOf(s, D) <=> f[k] \in FiresOf(rows, I)
      /\ \A k \in D : k \in ClearsOf(s, D) <=> f[k] \in ClearsOf(rows, I)
    BY MatchesMeans DEF FiresOf, ClearsOf
<1>2. ASSUME NEW t, NEW u, Parted(s, D, t, u) PROVE Parted(rows, I, t, u)
    <2>1. PICK m \in ClearsOf(s, D) : t <= s[m].at /\ s[m].at < u
        BY <1>2 DEF Parted
    <2>2. m \in D
        BY DEF ClearsOf
    <2>3. f[m] \in ClearsOf(rows, I) /\ s[m] = rows[f[m]]
        BY <1>1, <2>2, MatchesMeans
    <2> QED
        BY <2>1, <2>3 DEF Parted
<1>3. ASSUME NEW t, NEW u, Parted(rows, I, t, u) PROVE Parted(s, D, t, u)
    <2>1. PICK m \in ClearsOf(rows, I) : t <= rows[m].at /\ rows[m].at < u
        BY <1>3 DEF Parted
    <2>2. PICK k \in D : f[k] = m /\ s[k] = rows[m]
        BY MatchesMeans DEF ClearsOf
    <2> QED
        BY <1>1, <2>1, <2>2 DEF Parted
<1> QED
    BY <1>1, <1>2, <1>3

LEMMA SameFacts ==
    ASSUME NEW s, NEW D, NEW rows, NEW I, NEW f, Matches(s, D, rows, I, f)
    PROVE  /\ \A k \in D : k \in Trailing(s, D) <=> f[k] \in Trailing(rows, I)
           /\ \A j, k \in D : j \in Episode(s, D, k) <=> f[j] \in Episode(rows, I, f[k])
           /\ CycleTimes(s, D) = CycleTimes(rows, I)
<1>1. /\ \A k \in D : f[k] \in I /\ s[k] = rows[f[k]]
      /\ \A i \in I : \E k \in D : f[k] = i
    BY MatchesMeans
<1>2. /\ \A k \in D : k \in FiresOf(s, D) <=> f[k] \in FiresOf(rows, I)
      /\ \A k \in D : k \in ClearsOf(s, D) <=> f[k] \in ClearsOf(rows, I)
    BY SameParts
<1>3. \A t, u : Parted(s, D, t, u) <=> Parted(rows, I, t, u)
    BY SameParts
<1>4. ASSUME NEW k \in D PROVE k \in Trailing(s, D) <=> f[k] \in Trailing(rows, I)
    <2>1. (\A m \in ClearsOf(s, D) : s[m].at < s[k].at)
              <=> (\A m \in ClearsOf(rows, I) : rows[m].at < rows[f[k]].at)
        BY <1>1, <1>2 DEF ClearsOf
    <2> QED
        BY <1>2, <2>1 DEF Trailing
<1>5. \A j, k \in D : j \in Episode(s, D, k) <=> f[j] \in Episode(rows, I, f[k])
    BY <1>1, <1>2, <1>3 DEF Episode
<1>6. \A t : t \in {s[m].at : m \in ClearsOf(s, D)} <=> t \in {rows[m].at : m \in ClearsOf(rows, I)}
    BY <1>1, <1>2 DEF ClearsOf
<1>7. \A t : (\E k \in FiresOf(s, D) : s[k].at <= t /\ ~Parted(s, D, s[k].at, t))
                <=> (\E i \in FiresOf(rows, I) : rows[i].at <= t /\ ~Parted(rows, I, rows[i].at, t))
    BY <1>1, <1>2, <1>3 DEF FiresOf
<1>8. \A t : t \in CycleTimes(s, D) <=> t \in CycleTimes(rows, I)
    BY <1>6, <1>7 DEF CycleTimes
<1> QED
    BY <1>4, <1>5, <1>8

LEMMA CompleteMoves ==
    ASSUME NEW s, NEW D, NEW rows, NEW I, NEW f, Matches(s, D, rows, I, f),
           NEW a, CompleteIs(a, rows, I)
    PROVE  CompleteIs(a, s, D)
<1>1. /\ \A k \in D : f[k] \in I /\ s[k] = rows[f[k]]
      /\ \A i \in I : \E k \in D : f[k] = i
    BY MatchesMeans
<1>2. /\ \A k \in D : k \in Trailing(s, D) <=> f[k] \in Trailing(rows, I)
      /\ \A j, k \in D : j \in Episode(s, D, k) <=> f[j] \in Episode(rows, I, f[k])
      /\ CycleTimes(s, D) = CycleTimes(rows, I)
    BY SameFacts
<1>3. \A k \in D : k \in FiresOf(s, D) <=> f[k] \in FiresOf(rows, I)
    BY SameParts
<1>4. Trailing(s, D) \subseteq D /\ Trailing(rows, I) \subseteq I
    BY DEF Trailing, FiresOf
<1>5. Cardinality(Trailing(s, D)) = Cardinality(Trailing(rows, I))
    BY <1>2, <1>4, SameCount
<1>6. {s[k].at : k \in Trailing(s, D)} = {rows[i].at : i \in Trailing(rows, I)}
    <2>1. \A t : t \in {s[k].at : k \in Trailing(s, D)} <=> t \in {rows[i].at : i \in Trailing(rows, I)}
        BY <1>1, <1>2, <1>4
    <2> QED
        BY <2>1
<1>7. Trailing(s, D) = {} <=> Trailing(rows, I) = {}
    BY <1>1, <1>2, <1>4
<1>8. \A k \in D : Cardinality(Episode(s, D, k)) = Cardinality(Episode(rows, I, f[k]))
    <2> SUFFICES ASSUME NEW k \in D
                 PROVE  Cardinality(Episode(s, D, k)) = Cardinality(Episode(rows, I, f[k]))
        OBVIOUS
    <2>1. PICK Y, X : Y = Episode(s, D, k) /\ X = Episode(rows, I, f[k])
        OBVIOUS
    <2>2. Y \in SUBSET D /\ X \in SUBSET I
        BY <2>1 DEF Episode, FiresOf
    <2>3. \A j \in D : j \in Y <=> f[j] \in X
        BY <1>2, <2>1
    <2>4. Cardinality(Y) = Cardinality(X)
        BY <2>2, <2>3, SameCount
    <2> QED
        BY <2>1, <2>4
<1>9. EpisodeSizes(s, D) = EpisodeSizes(rows, I)
    <2>1. \A k \in FiresOf(s, D) : Cardinality(Episode(s, D, k)) \in EpisodeSizes(rows, I)
        BY <1>3, <1>8 DEF EpisodeSizes, FiresOf
    <2>2. ASSUME NEW i \in FiresOf(rows, I) PROVE Cardinality(Episode(rows, I, i)) \in EpisodeSizes(s, D)
        <3>1. PICK k \in D : f[k] = i
            BY <1>1 DEF FiresOf
        <3>2. k \in FiresOf(s, D) /\ Cardinality(Episode(rows, I, i)) = Cardinality(Episode(s, D, k))
            BY <1>3, <1>8, <3>1
        <3> QED
            BY <3>2 DEF EpisodeSizes
    <2>3. 0 \in EpisodeSizes(s, D) /\ 0 \in EpisodeSizes(rows, I)
        BY DEF EpisodeSizes
    <2>4. EpisodeSizes(s, D) \subseteq EpisodeSizes(rows, I)
        BY <2>1, <2>3 DEF EpisodeSizes
    <2>5. EpisodeSizes(rows, I) \subseteq EpisodeSizes(s, D)
        BY <2>2, <2>3 DEF EpisodeSizes
    <2> QED
        BY <2>4, <2>5
<1>10. \A t : (\E i \in I : rows[i].at - t >= FLAP_WINDOW) => \E k \in D : s[k].at - t >= FLAP_WINDOW
    BY <1>1
<1>11. a.current = Cardinality(Trailing(s, D)) /\ IsMaxOf(a.max_episode, EpisodeSizes(s, D))
    BY <1>5, <1>9 DEF CompleteIs
<1>12. IF Trailing(s, D) = {} THEN a.open_since = Null
       ELSE IsMinOf(a.open_since, {s[k].at : k \in Trailing(s, D)})
    BY <1>6, <1>7 DEF CompleteIs
<1>13. /\ a.cycles \subseteq CycleTimes(s, D)
       /\ \A t \in CycleTimes(s, D) \ a.cycles : \E k \in D : s[k].at - t >= FLAP_WINDOW
       /\ IsMaxOf(a.max_cycles, CycleCounts(CycleTimes(s, D)))
    BY <1>2, <1>10 DEF CompleteIs
<1> QED
    BY <1>11, <1>12, <1>13 DEF CompleteIs

\* Rows that come later do not change what was known of those before them.
LEMMA SameFiring ==
    ASSUME NEW rows, NEW later, NEW I, IsFiniteSet(I), \A i \in I : later[i] = rows[i],
           NEW a, FiringOf(a, rows, I)
    PROVE  FiringOf(a, later, I)
<1>1. ASSUME NEW B \in SUBSET I, CompleteIs(a, rows, B) PROVE CompleteIs(a, later, B)
    <2> DEFINE f == [i \in B |-> i]
    <2>1. f \in Bijection(B, B)
        BY DEF Bijection, Injection, Surjection, IsInjective
    <2>2. IsFiniteSet(B) /\ \A i \in B : later[i] = rows[f[i]]
        BY FS_Subset
    <2>3. Matches(later, B, rows, B, f)
        BY <2>1, <2>2 DEF Matches
    <2> HIDE DEF f
    <2> QED
        BY <1>1, <2>3, CompleteMoves
<1>2. \A B \in SUBSET I : FiresOf(later, B) = FiresOf(rows, B) /\ ClearsOf(later, B) = ClearsOf(rows, B)
    BY DEF FiresOf, ClearsOf
<1>3. \A p : LastRows(later, I, p) = LastRows(rows, I, p) /\ LastRows(rows, I, p) \subseteq I
    BY DEF LastRows
<1>4. {later[i].at : i \in I} = {rows[i].at : i \in I}
    OBVIOUS
<1>5. CASE I = {}
    BY <1>5 DEF FiringOf
<1>6. CASE I # {}
    <2>1. PICK p, P, B : p = a.pending_at /\ P = LastRows(rows, I, p) /\ B = I \ P
        OBVIOUS
    <2>2. /\ IsFiringRecord(a) /\ p \in Int /\ a.pending_at = p
          /\ IsMaxOf(p, {later[i].at : i \in I}) /\ IsMinOf(a.first, {later[i].at : i \in I})
          /\ a.count = Cardinality(I) /\ a.clear_count = Cardinality(ClearsOf(rows, I))
          /\ PendingIs(a, rows, P, p) /\ CompleteIs(a, rows, B)
        BY <1>4, <1>6, <2>1 DEF FiringOf
    <2>3. a.clear_count = Cardinality(ClearsOf(later, I))
        BY <1>2, <2>2
    <2>4. P = LastRows(later, I, p) /\ P \in SUBSET I /\ B \in SUBSET I
        BY <1>3, <2>1
    <2>5. PendingIs(a, later, P, p)
        BY <1>2, <2>2, <2>4 DEF PendingIs
    <2>6. CompleteIs(a, later, B)
        BY <1>1, <2>2, <2>4
    <2> QED
        BY <1>6, <2>1, <2>2, <2>3, <2>4, <2>5, <2>6, SomeFiring
<1> QED
    BY <1>5, <1>6

-------------------------------------------------------------------------------
\* The order of the definition is total.
LEMMA BeforeMeans ==
    ASSUME NEW a, NEW b
    PROVE  Before(a, b) <=> \/ a.at < b.at
                            \/ a.at = b.at /\ ~IsClear(a) /\ IsClear(b)
                            \/ a.at = b.at /\ (IsClear(a) <=> IsClear(b)) /\ a.doc < b.doc
BY DEF Before, IsClear

LEMMA PrecedesIsTotal ==
    ASSUME NEW rows, NEW I \in SUBSET Nat, IsTimed(rows, I)
    PROVE  /\ \A i \in I : ~Precedes(rows, i, i)
           /\ \A i, j \in I : i = j \/ Precedes(rows, i, j) \/ Precedes(rows, j, i)
           /\ \A i, j, k \in I : Precedes(rows, i, j) /\ Precedes(rows, j, k) => Precedes(rows, i, k)
<1>1. \A i \in I : i \in Nat /\ rows[i].at \in Int /\ rows[i].doc \in Int
    BY DEF IsTimed
<1>2. \A i, j \in I : i = j \/ Precedes(rows, i, j) \/ Precedes(rows, j, i)
    BY <1>1, BeforeMeans DEF Precedes
<1>3. \A i \in I : ~Precedes(rows, i, i)
    BY <1>1, BeforeMeans DEF Precedes
<1>4. ASSUME NEW i \in I, NEW j \in I, NEW k \in I, Precedes(rows, i, j), Precedes(rows, j, k)
      PROVE  Precedes(rows, i, k)
    <2>1. PICK ti, tj, tk, di, dj, dk :
              /\ ti = rows[i].at /\ tj = rows[j].at /\ tk = rows[k].at
              /\ di = rows[i].doc /\ dj = rows[j].doc /\ dk = rows[k].doc
        OBVIOUS
    <2>2. /\ ti \in Int /\ tj \in Int /\ tk \in Int /\ di \in Int /\ dj \in Int /\ dk \in Int
          /\ i \in Nat /\ j \in Nat /\ k \in Nat
        BY <1>1, <2>1
    <2>3. PICK ci \in BOOLEAN, cj \in BOOLEAN, ck \in BOOLEAN :
              (ci <=> IsClear(rows[i])) /\ (cj <=> IsClear(rows[j])) /\ (ck <=> IsClear(rows[k]))
        BY DEF IsClear
    <2>4. ~Before(rows[j], rows[i]) /\ (Before(rows[i], rows[j]) \/ i < j)
        BY <1>4, <2>1, <2>2, BeforeMeans DEF Precedes
    <2>5. ~Before(rows[k], rows[j]) /\ (Before(rows[j], rows[k]) \/ j < k)
        BY <1>4, <2>1, <2>2, BeforeMeans DEF Precedes
    <2>6. ~Before(rows[k], rows[i]) /\ (Before(rows[i], rows[k]) \/ i < k)
        BY <2>1, <2>2, <2>3, <2>4, <2>5, BeforeMeans
    <2> QED
        BY <2>6 DEF Precedes
<1> QED
    BY <1>2, <1>3, <1>4

Rank(rows, I, x) == Cardinality({y \in I : Precedes(rows, y, x)})
Position(rows, I) == SortedBy(I, LAMBDA i, j : Precedes(rows, i, j))

LEMMA SmallerPart ==
    ASSUME NEW S, IsFiniteSet(S), NEW T, T \subseteq S, T # S
    PROVE  Cardinality(T) < Cardinality(S)
<1>1. T \in SUBSET S
    OBVIOUS
<1>2. IsFiniteSet(T) /\ Cardinality(T) <= Cardinality(S) /\ Cardinality(S) # Cardinality(T)
    BY <1>1, FS_Subset
<1>3. Cardinality(T) \in Nat /\ Cardinality(S) \in Nat
    BY <1>2, FS_CardinalityType
<1> QED
    BY <1>2, <1>3

LEMMA RanksGrow ==
    ASSUME NEW rows, NEW I \in SUBSET Nat, IsTimed(rows, I), IsFiniteSet(I)
    PROVE  /\ \A x \in I : Rank(rows, I, x) \in Nat /\ Rank(rows, I, x) < Cardinality(I)
           /\ \A x, z \in I : Precedes(rows, x, z) => Rank(rows, I, x) < Rank(rows, I, z)
           /\ \A x, z \in I : Rank(rows, I, x) = Rank(rows, I, z) => x = z
<1> DEFINE U(x) == {y \in I : Precedes(rows, y, x)}
<1>1. \A x : IsFiniteSet(U(x)) /\ Cardinality(U(x)) \in Nat /\ U(x) \subseteq I
    BY FS_Subset, FS_CardinalityType
<1>2. ASSUME NEW x \in I PROVE Rank(rows, I, x) \in Nat /\ Rank(rows, I, x) < Cardinality(I)
    <2>1. x \notin U(x)
        BY PrecedesIsTotal
    <2> HIDE DEF U
    <2>2. U(x) \subseteq I /\ U(x) # I
        BY <1>1, <1>2, <2>1
    <2>3. Cardinality(U(x)) < Cardinality(I)
        BY <2>2, SmallerPart
    <2> QED
        BY <1>1, <2>3 DEF Rank, U
<1>3. ASSUME NEW x \in I, NEW z \in I, Precedes(rows, x, z)
      PROVE  Rank(rows, I, x) < Rank(rows, I, z)
    <2>1. U(x) \subseteq U(z)
        BY <1>3, PrecedesIsTotal
    <2>2. x \in U(z) /\ x \notin U(x)
        BY <1>3, PrecedesIsTotal
    <2> HIDE DEF U
    <2>3. U(x) # U(z) /\ IsFiniteSet(U(z))
        BY <1>1, <2>2
    <2>4. Cardinality(U(x)) < Cardinality(U(z))
        BY <2>1, <2>3, SmallerPart
    <2> QED
        BY <2>4 DEF Rank, U
<1>4. ASSUME NEW x \in I, NEW z \in I, Rank(rows, I, x) = Rank(rows, I, z), x # z PROVE FALSE
    <2>1. Precedes(rows, x, z) \/ Precedes(rows, z, x)
        BY <1>4, PrecedesIsTotal
    <2>2. Rank(rows, I, x) < Rank(rows, I, z) \/ Rank(rows, I, z) < Rank(rows, I, x)
        BY <1>3, <2>1
    <2>3. Rank(rows, I, x) \in Nat /\ Rank(rows, I, z) \in Nat
        BY <1>2
    <2> QED
        BY <1>4, <2>2, <2>3
<1> QED
    BY <1>2, <1>3, <1>4

LEMMA PositionsAre ==
    ASSUME NEW rows, NEW I \in SUBSET Nat, IsTimed(rows, I), IsFiniteSet(I),
           NEW n, n = Cardinality(I)
    PROVE  /\ n \in Nat /\ DOMAIN Position(rows, I) = 1 .. n
           /\ Position(rows, I) \in Bijection(1 .. n, I)
           /\ \A j, k \in 1 .. n : j < k => Precedes(rows, Position(rows, I)[j], Position(rows, I)[k])
<1>1. n \in Nat
    BY FS_CardinalityType
<1>2. PICK pos : pos = Position(rows, I)
    OBVIOUS
<1>3. pos = [k \in 1 .. n |-> CHOOSE x \in I : Rank(rows, I, x) = k - 1]
    BY <1>2 DEF Position, SortedBy, Rank
<1> DEFINE rank == [x \in I |-> Rank(rows, I, x)]
<1>4. /\ \A x \in I : rank[x] \in Nat /\ rank[x] < n
      /\ \A x, z \in I : rank[x] = rank[z] => x = z
      /\ \A x, z \in I : Precedes(rows, x, z) => rank[x] < rank[z]
    BY RanksGrow
<1> DEFINE g == [x \in I |-> rank[x] + 1]
<1>5. \A k \in 1 .. n : \E x \in I : rank[x] = k - 1
    <2>1. g \in Injection(I, 1 .. n)
        <3> HIDE DEF rank
        <3>1. \A x \in I : g[x] \in 1 .. n
            BY <1>1, <1>4
        <3>2. \A x, z \in I : g[x] = g[z] => x = z
            BY <1>4
        <3> QED
            BY <3>1, <3>2 DEF Injection, IsInjective
    <2>2. IsFiniteSet(1 .. n) /\ Cardinality(1 .. n) = n
        BY <1>1, FS_Interval
    <2> HIDE DEF g
    <2>3. g \in Surjection(I, 1 .. n)
        BY <2>1, <2>2, FS_Injection
    <2>4. \A k \in 1 .. n : \E x \in I : g[x] = k
        BY <2>3 DEF Surjection
    <2> HIDE DEF rank
    <2> QED
        BY <1>1, <1>4, <2>4 DEF g
<1>6. \A k \in 1 .. n : pos[k] \in I /\ rank[pos[k]] = k - 1
    <2> SUFFICES ASSUME NEW k \in 1 .. n PROVE pos[k] \in I /\ rank[pos[k]] = k - 1
        OBVIOUS
    <2>1. \E x \in I : Rank(rows, I, x) = k - 1
        BY <1>5
    <2>2. pos[k] = CHOOSE x \in I : Rank(rows, I, x) = k - 1
        BY <1>3
    <2>3. pos[k] \in I /\ Rank(rows, I, pos[k]) = k - 1
        BY <2>1, <2>2
    <2> QED
        BY <2>3
<1> HIDE DEF rank
<1>7. pos \in [1 .. n -> I]
    BY <1>3, <1>6
<1>8. \A j, k \in 1 .. n : pos[j] = pos[k] => j = k
    BY <1>1, <1>6
<1>9. \A x \in I : \E k \in 1 .. n : pos[k] = x
    <2> SUFFICES ASSUME NEW x \in I PROVE \E k \in 1 .. n : pos[k] = x
        OBVIOUS
    <2>1. rank[x] + 1 \in 1 .. n /\ (rank[x] + 1) - 1 = rank[x]
        BY <1>1, <1>4
    <2>2. pos[rank[x] + 1] \in I /\ rank[pos[rank[x] + 1]] = rank[x]
        BY <1>6, <2>1
    <2> QED
        BY <1>4, <2>1, <2>2
<1>10. ASSUME NEW j \in 1 .. n, NEW k \in 1 .. n, j < k PROVE Precedes(rows, pos[j], pos[k])
    <2>1. pos[j] \in I /\ pos[k] \in I /\ rank[pos[j]] = j - 1 /\ rank[pos[k]] = k - 1
        BY <1>6
    <2>2. ~(rank[pos[k]] < rank[pos[j]]) /\ pos[j] # pos[k]
        BY <1>1, <1>8, <1>10, <2>1
    <2>3. ~Precedes(rows, pos[k], pos[j])
        BY <1>4, <2>1, <2>2
    <2> QED
        BY <2>1, <2>2, <2>3, PrecedesIsTotal
<1>11. pos \in Bijection(1 .. n, I)
    BY <1>7, <1>8, <1>9 DEF Bijection, Injection, Surjection, IsInjective
<1> QED
    BY <1>1, <1>2, <1>7, <1>10, <1>11

-------------------------------------------------------------------------------
\* Rows in order.
RowsInOrder(s, n) ==
    /\ n \in Nat /\ Len(s) = n /\ DOMAIN s = 1 .. n
    /\ \A k \in 1 .. n : s[k].at \in Int
    /\ \A j, k \in 1 .. n : j < k => s[j].at <= s[k].at
    /\ \A j, k \in 1 .. n : j < k /\ s[j].at = s[k].at /\ IsClear(s[j]) => IsClear(s[k])

LEMMA OrderedIs ==
    ASSUME NEW rows, NEW I \in SUBSET Nat, IsTimed(rows, I), IsFiniteSet(I),
           NEW n, n = Cardinality(I), NEW s, s = Ordered(rows, I)
    PROVE  RowsInOrder(s, n) /\ Matches(s, 1 .. n, rows, I, Position(rows, I))
<1>1. PICK pos : pos = Position(rows, I)
    OBVIOUS
<1>2. /\ n \in Nat /\ DOMAIN pos = 1 .. n /\ pos \in Bijection(1 .. n, I)
      /\ \A j, k \in 1 .. n : j < k => Precedes(rows, pos[j], pos[k])
    BY <1>1, PositionsAre
<1>3. s = [k \in DOMAIN pos |-> rows[pos[k]]]
    BY <1>1 DEF Ordered, Position, SortedBy
<1>4. DOMAIN s = 1 .. n /\ \A k \in 1 .. n : s[k] = rows[pos[k]]
    BY <1>2, <1>3
<1>5. Len(s) = n
    BY <1>2, <1>3
<1>6. \A k \in 1 .. n : pos[k] \in I
    BY <1>2 DEF Bijection, Injection
<1>7. \A k \in 1 .. n : s[k].at \in Int
    BY <1>4, <1>6 DEF IsTimed
<1>8. ASSUME NEW j \in 1 .. n, NEW k \in 1 .. n, j < k
      PROVE  /\ s[j].at <= s[k].at
             /\ s[j].at = s[k].at /\ IsClear(s[j]) => IsClear(s[k])
    <2>1. Before(s[j], s[k]) \/ ~Before(s[k], s[j])
        BY <1>2, <1>4, <1>8 DEF Precedes
    <2> QED
        BY <1>7, <2>1, BeforeMeans
<1>9. IsFiniteSet(1 .. n)
    BY <1>2, FS_Interval
<1>10. Matches(s, 1 .. n, rows, I, pos)
    BY <1>2, <1>4, <1>9 DEF Matches
<1> QED
    BY <1>1, <1>2, <1>4, <1>5, <1>7, <1>8, <1>10 DEF RowsInOrder

LEMMA OpenIs ==
    ASSUME NEW s, NEW n, RowsInOrder(s, n)
    PROVE  OpenStarts(s) = Trailing(s, 1 .. n)
<1>1. ASSUME NEW i \in OpenStarts(s) PROVE i \in Trailing(s, 1 .. n)
    <2>1. i \in 1 .. n /\ \A k \in i .. n : ~IsClear(s[k])
        BY <1>1 DEF OpenStarts, Runs, RowsInOrder
    <2>2. i \in i .. n /\ i \in FiresOf(s, 1 .. n)
        BY <2>1 DEF RowsInOrder, FiresOf
    <2>3. ASSUME NEW m \in ClearsOf(s, 1 .. n) PROVE s[m].at < s[i].at
        <3>1. m \in 1 .. n /\ IsClear(s[m]) /\ m \notin i .. n
            BY <2>1 DEF ClearsOf
        <3>2. m < i
            BY <2>1, <3>1 DEF RowsInOrder
        <3>3. s[m].at <= s[i].at /\ s[m].at # s[i].at
            BY <2>1, <2>2, <3>1, <3>2 DEF RowsInOrder
        <3> QED
            BY <2>1, <3>1, <3>3 DEF RowsInOrder
    <2> QED
        BY <2>2, <2>3 DEF Trailing
<1>2. ASSUME NEW i \in Trailing(s, 1 .. n) PROVE i \in OpenStarts(s)
    <2>1. i \in 1 .. n /\ ~IsClear(s[i]) /\ \A m \in ClearsOf(s, 1 .. n) : s[m].at < s[i].at
        BY <1>2 DEF Trailing, FiresOf
    <2>2. ASSUME NEW k \in i .. n PROVE ~IsClear(s[k])
        <3>1. k \in 1 .. n /\ (k = i \/ i < k)
            BY <2>1 DEF RowsInOrder
        <3>2. ~(s[k].at < s[i].at)
            BY <2>1, <3>1 DEF RowsInOrder
        <3> QED
            BY <2>1, <3>1, <3>2 DEF ClearsOf
    <2>3. <<i, n>> \in (1 .. n) \X (1 .. n) /\ i <= n
        BY <2>1 DEF RowsInOrder
    <2> QED
        BY <2>1, <2>2, <2>3 DEF OpenStarts, Runs, RowsInOrder
<1> QED
    BY <1>1, <1>2

LEMMA OpenSinceIs ==
    ASSUME NEW s, NEW n, RowsInOrder(s, n), NEW since,
           IF Trailing(s, 1 .. n) = {} THEN since = Null
           ELSE IsMinOf(since, {s[i].at : i \in Trailing(s, 1 .. n)})
    PROVE  OpenSince(s) = since
<1>1. PICK T : T = Trailing(s, 1 .. n)
    OBVIOUS
<1>2. OpenSince(s) = IF T = {} THEN Null ELSE s[Min(T)].at
    BY <1>1, OpenIs DEF OpenSince
<1>3. CASE T = {}
    BY <1>1, <1>2, <1>3
<1>4. CASE T # {}
    <2>1. T \in SUBSET (1 .. n)
        BY <1>1 DEF Trailing, FiresOf
    <2>2. T \in SUBSET Nat
        BY <2>1 DEF RowsInOrder
    <2>3. PICK i : i = Min(T)
        OBVIOUS
    <2>4. i \in T /\ \A k \in T : i <= k
        BY <1>4, <2>2, <2>3, MinIs
    <2>5. IsMinOf(since, {s[k].at : k \in T})
        BY <1>1, <1>4
    <2>6. since \in {s[k].at : k \in T} /\ since <= s[i].at
        BY <2>4, <2>5 DEF IsMinOf
    <2>7. \A k \in T : s[i].at <= s[k].at /\ s[k].at \in Int
        BY <2>1, <2>4 DEF RowsInOrder
    <2>8. since = s[i].at
        BY <2>4, <2>6, <2>7
    <2> QED
        BY <1>2, <1>4, <2>3, <2>8
<1> QED
    BY <1>3, <1>4

\* A clear that ends an episode, by its position and by its instant.
LEMMA CyclesAre ==
    ASSUME NEW s, NEW n, RowsInOrder(s, n)
    PROVE  /\ CycleTimes(s, 1 .. n) = {s[i].at : i \in CycleEnds(s)}
           /\ \A i, k \in CycleEnds(s) : i <= k <=> s[i].at <= s[k].at
           /\ CycleEnds(s) \in SUBSET (1 .. n)
<1>1. n \in Nat /\ \A k \in 1 .. n : s[k].at \in Int
    BY DEF RowsInOrder
<1>2. \A i \in CycleEnds(s) : /\ i \in 1 .. n /\ i - 1 \in 1 .. n /\ i - 1 < i
                              /\ IsClear(s[i]) /\ ~IsClear(s[i - 1])
    BY <1>1 DEF CycleEnds, RowsInOrder
<1>3. ASSUME NEW i \in CycleEnds(s) PROVE s[i].at \in CycleTimes(s, 1 .. n)
    <2>1. /\ i \in 1 .. n /\ i - 1 \in 1 .. n /\ i - 1 < i
          /\ IsClear(s[i]) /\ ~IsClear(s[i - 1])
        BY <1>2
    <2>2. PICK h : h = i - 1
        OBVIOUS
    <2>3. h \in FiresOf(s, 1 .. n) /\ s[h].at <= s[i].at
        BY <2>1, <2>2 DEF FiresOf, RowsInOrder
    <2>4. ASSUME Parted(s, 1 .. n, s[h].at, s[i].at) PROVE FALSE
        <3>1. PICK m \in ClearsOf(s, 1 .. n) : s[h].at <= s[m].at /\ s[m].at < s[i].at
            BY <2>4 DEF Parted
        <3>2. m \in 1 .. n /\ IsClear(s[m]) /\ m # h
            BY <2>1, <2>2 DEF ClearsOf
        <3>3. ~(i <= m)
            <4>1. i < m => s[i].at <= s[m].at
                BY <2>1, <3>2 DEF RowsInOrder
            <4> QED
                BY <1>1, <2>1, <3>1, <3>2, <4>1
        <3>4. m < h
            BY <1>1, <2>1, <2>2, <3>2, <3>3
        <3>5. s[m].at <= s[h].at /\ (s[m].at = s[h].at => IsClear(s[h]))
            BY <2>1, <2>2, <3>2, <3>4 DEF RowsInOrder
        <3> QED
            BY <1>1, <2>1, <2>2, <3>1, <3>2, <3>5
    <2>5. i \in ClearsOf(s, 1 .. n)
        BY <2>1 DEF ClearsOf
    <2> QED
        BY <2>3, <2>4, <2>5 DEF CycleTimes
<1>4. ASSUME NEW t \in CycleTimes(s, 1 .. n) PROVE \E i \in CycleEnds(s) : s[i].at = t
    <2>1. PICK j \in FiresOf(s, 1 .. n) : s[j].at <= t /\ ~Parted(s, 1 .. n, s[j].at, t)
        BY DEF CycleTimes
    <2>2. j \in 1 .. n /\ ~IsClear(s[j])
        BY DEF FiresOf
    <2>3. PICK K : K = {m \in 1 .. n : IsClear(s[m]) /\ s[m].at = t}
        OBVIOUS
    <2>4. K \in SUBSET Nat /\ K # {}
        BY <1>1, <2>3 DEF CycleTimes, ClearsOf
    <2>5. PICK i \in K : \A m \in K : i <= m
        BY <2>4, LeastOf
    <2>6. i \in 1 .. n /\ IsClear(s[i]) /\ s[i].at = t /\ t \in Int
        BY <1>1, <2>3
    <2>7. j < i
        <3>1. i < j => s[i].at <= s[j].at /\ (s[i].at = s[j].at => IsClear(s[j]))
            BY <2>2, <2>6 DEF RowsInOrder
        <3> QED
            BY <1>1, <2>1, <2>2, <2>6, <3>1
    <2>8. PICK h : h = i - 1
        OBVIOUS
    <2>9. h \in 1 .. n /\ h < i /\ (j = h \/ j < h) /\ i \in 2 .. n
        BY <1>1, <2>2, <2>6, <2>7, <2>8
    <2>10. ~IsClear(s[h])
        <3> SUFFICES ASSUME IsClear(s[h]) PROVE FALSE
            OBVIOUS
        <3>1. h \notin K
            BY <1>1, <2>5, <2>6, <2>9
        <3>2. s[h].at # t /\ h # j
            BY <2>2, <2>3, <2>9, <3>1
        <3>3. s[j].at <= s[h].at /\ s[h].at <= s[i].at
            BY <2>2, <2>6, <2>9, <3>2 DEF RowsInOrder
        <3>4. s[h].at < t
            BY <1>1, <2>6, <2>9, <3>2, <3>3
        <3>5. h \in ClearsOf(s, 1 .. n)
            BY <2>9 DEF ClearsOf
        <3> QED
            BY <2>1, <3>3, <3>4, <3>5 DEF Parted
    <2>11. i \in CycleEnds(s)
        BY <2>6, <2>8, <2>9, <2>10 DEF CycleEnds, RowsInOrder
    <2> QED
        BY <2>6, <2>11
<1>5. ASSUME NEW i \in CycleEnds(s), NEW k \in CycleEnds(s), i < k PROVE s[i].at < s[k].at
    <2>1. /\ i \in 1 .. n /\ k \in 1 .. n /\ IsClear(s[i])
          /\ k - 1 \in 1 .. n /\ ~IsClear(s[k - 1])
        BY <1>2
    <2>2. PICK h : h = k - 1
        OBVIOUS
    <2>3. i # h /\ i < h /\ h < k
        BY <1>1, <1>5, <2>1, <2>2
    <2>4. s[i].at <= s[h].at /\ (s[i].at = s[h].at => IsClear(s[h])) /\ s[h].at <= s[k].at
        BY <2>1, <2>2, <2>3 DEF RowsInOrder
    <2> QED
        BY <1>1, <2>1, <2>2, <2>4
<1>6. \A i, k \in CycleEnds(s) : i <= k <=> s[i].at <= s[k].at
    <2> SUFFICES ASSUME NEW i \in CycleEnds(s), NEW k \in CycleEnds(s)
                 PROVE  i <= k <=> s[i].at <= s[k].at
        OBVIOUS
    <2>1. i \in 1 .. n /\ k \in 1 .. n /\ s[i].at \in Int /\ s[k].at \in Int
        BY <1>1, <1>2
    <2>2. (i < k => s[i].at < s[k].at) /\ (k < i => s[k].at < s[i].at)
        BY <1>5
    <2> QED
        BY <1>1, <2>1, <2>2
<1>7. CycleTimes(s, 1 .. n) = {s[i].at : i \in CycleEnds(s)}
    BY <1>3, <1>4
<1> QED
    BY <1>2, <1>6, <1>7

LEMMA MaxCyclesIs ==
    ASSUME NEW s, NEW n, RowsInOrder(s, n), NEW x, IsMaxOf(x, CycleCounts(CycleTimes(s, 1 .. n)))
    PROVE  MaxCycles(s) = x
<1>1. PICK E, C : E = CycleEnds(s) /\ C = CycleTimes(s, 1 .. n)
    OBVIOUS
<1>2. /\ C = {s[i].at : i \in E} /\ E \in SUBSET (1 .. n)
      /\ \A i, k \in E : i <= k <=> s[i].at <= s[k].at
    BY <1>1, CyclesAre
<1>3. n \in Nat /\ \A k \in 1 .. n : s[k].at \in Int
    BY DEF RowsInOrder
<1>4. IsFiniteSet(E)
    <2>1. IsFiniteSet(1 .. n)
        BY <1>3, FS_Interval
    <2> QED
        BY <1>2, <2>1, FS_Subset
<1> DEFINE U(i) == {j \in E : j <= i /\ s[i].at - s[j].at < FLAP_WINDOW}
           at(i) == [j \in U(i) |-> s[j].at]
<1>5. ASSUME NEW i \in E PROVE Cardinality(U(i)) = Cardinality(Recent(C, s[i].at))
    <2>1. at(i) \in Bijection(U(i), Recent(C, s[i].at))
        <3>1. \A j \in E : s[j].at \in C
            BY <1>2
        <3>2. \A j \in U(i) : at(i)[j] = s[j].at /\ s[j].at \in Recent(C, s[i].at)
            BY <1>2, <3>1 DEF Recent
        <3>3. \A u \in Recent(C, s[i].at) : \E j \in U(i) : s[j].at = u
            BY <1>2 DEF Recent
        <3>4. \A j, k \in U(i) : s[j].at = s[k].at => j = k
            BY <1>2, <1>3
        <3> QED
            BY <3>2, <3>3, <3>4 DEF Bijection, Injection, Surjection, IsInjective
    <2>2. IsFiniteSet(U(i))
        BY <1>4, FS_Subset
    <2> HIDE DEF U, at
    <2>3. ExistsBijection(U(i), Recent(C, s[i].at))
        BY <2>1 DEF ExistsBijection
    <2> QED
        BY <2>2, <2>3, FS_Bijection
<1> HIDE DEF U
<1>6. CycleCounts(C) = {0} \cup {Cardinality(U(i)) : i \in E}
    <2>1. {Cardinality(Recent(C, t)) : t \in C} = {Cardinality(U(i)) : i \in E}
        <3>1. {Cardinality(Recent(C, t)) : t \in C} = {Cardinality(Recent(C, s[i].at)) : i \in E}
            BY <1>2
        <3> QED
            BY <1>5, <3>1
    <2> QED
        BY <2>1 DEF CycleCounts
<1>7. CycleCounts(C) \in SUBSET Nat
    <2>1. \A i \in E : Cardinality(U(i)) \in Nat
        BY <1>4, FS_Subset, FS_CardinalityType DEF U
    <2> QED
        BY <1>6, <2>1
<1>8. MaxCycles(s) = Max(CycleCounts(C))
    <2>1. MaxCycles(s) = Max({0} \cup {Cardinality(U(i)) : i \in E})
        BY <1>1 DEF MaxCycles, U
    <2> QED
        BY <1>6, <2>1
<1>9. Max(CycleCounts(C)) = x
    BY <1>1, <1>7, GreatestIsMax DEF IsMaxOf
<1> QED
    BY <1>8, <1>9

\* Every run of firing rows is in an episode, and every episode in a run.
LEMMA RunIsInEpisode ==
    ASSUME NEW s, NEW n, RowsInOrder(s, n), NEW r \in Runs(s)
    PROVE  /\ r[1] \in FiresOf(s, 1 .. n) /\ r[1] \in 1 .. n /\ r[2] \in 1 .. n /\ r[1] <= r[2]
           /\ (r[1] .. r[2]) \subseteq Episode(s, 1 .. n, r[1])
<1>1. PICK a, b : a = r[1] /\ b = r[2]
    OBVIOUS
<1>2. n \in Nat /\ \A k \in 1 .. n : s[k].at \in Int
    BY DEF RowsInOrder
<1>3. a \in 1 .. n /\ b \in 1 .. n /\ a <= b /\ \A k \in a .. b : ~IsClear(s[k])
    BY <1>1 DEF Runs, RowsInOrder
<1>4. \A k \in a .. b : k \in 1 .. n /\ k \in FiresOf(s, 1 .. n) /\ (k = a \/ a < k)
    BY <1>2, <1>3 DEF FiresOf
<1>5. ASSUME NEW k \in a .. b PROVE k \in Episode(s, 1 .. n, a)
    <2>1. k \in 1 .. n /\ s[a].at <= s[k].at
        BY <1>2, <1>3, <1>4 DEF RowsInOrder
    <2>2. ~Parted(s, 1 .. n, s[k].at, s[a].at)
        BY <1>2, <1>3, <2>1 DEF Parted, ClearsOf
    <2>3. ASSUME Parted(s, 1 .. n, s[a].at, s[k].at) PROVE FALSE
        <3>1. PICK m \in ClearsOf(s, 1 .. n) : s[a].at <= s[m].at /\ s[m].at < s[k].at
            BY <2>3 DEF Parted
        <3>2. m \in 1 .. n /\ IsClear(s[m])
            BY DEF ClearsOf
        <3>3. m # a /\ ~(m < a)
            <4>1. m < a => s[m].at <= s[a].at /\ (s[m].at = s[a].at => IsClear(s[a]))
                BY <1>3, <3>2 DEF RowsInOrder
            <4>2. a \in a .. b
                BY <1>2, <1>3
            <4> QED
                BY <1>2, <1>3, <3>1, <3>2, <4>1, <4>2
        <3>4. m # k /\ ~(k < m)
            <4>1. k < m => s[k].at <= s[m].at
                BY <2>1, <3>2 DEF RowsInOrder
            <4> QED
                BY <1>2, <2>1, <3>1, <3>2, <4>1
        <3>5. m \in a .. b
            BY <1>2, <1>3, <2>1, <3>2, <3>3, <3>4
        <3> QED
            BY <1>3, <3>2, <3>5
    <2> QED
        BY <1>4, <2>2, <2>3 DEF Episode
<1>6. a \in FiresOf(s, 1 .. n)
    BY <1>2, <1>3, <1>4
<1> QED
    BY <1>1, <1>3, <1>5, <1>6

LEMMA EpisodeIsInRun ==
    ASSUME NEW s, NEW n, RowsInOrder(s, n), NEW i \in FiresOf(s, 1 .. n)
    PROVE  \E r \in Runs(s) : Episode(s, 1 .. n, i) \subseteq r[1] .. r[2]
<1>1. PICK E : E = Episode(s, 1 .. n, i)
    OBVIOUS
<1>2. n \in Nat /\ (\A k \in 1 .. n : s[k].at \in Int) /\ i \in 1 .. n /\ ~IsClear(s[i])
    BY DEF RowsInOrder, FiresOf
<1>3. \A j \in E : /\ j \in 1 .. n /\ ~IsClear(s[j])
                   /\ ~Parted(s, 1 .. n, s[i].at, s[j].at) /\ ~Parted(s, 1 .. n, s[j].at, s[i].at)
    BY <1>1 DEF Episode, FiresOf
<1>4. i \in E
    BY <1>1, <1>2 DEF Episode, Parted, ClearsOf
<1>5. E \in SUBSET Nat
    BY <1>2, <1>3
<1>6. PICK a \in E : \A j \in E : a <= j
    BY <1>4, <1>5, LeastOf
<1>7. PICK b \in E : \A j \in E : j <= b
    <2>1. PICK N : N = {n - j : j \in E}
        OBVIOUS
    <2>2. N \in SUBSET Nat /\ N # {}
        BY <1>2, <1>3, <1>4, <2>1
    <2>3. PICK m \in N : \A k \in N : m <= k
        BY <2>2, LeastOf
    <2>4. PICK b \in E : m = n - b
        BY <2>1
    <2>5. \A j \in E : n - b <= n - j
        BY <2>1, <2>3, <2>4
    <2> QED
        BY <1>2, <1>5, <2>5
<1>8. a \in 1 .. n /\ b \in 1 .. n /\ a <= b /\ a <= i /\ i <= b
    BY <1>3, <1>4, <1>6, <1>7
<1>9. ASSUME NEW k \in a .. b, IsClear(s[k]) PROVE FALSE
    <2>1. k \in 1 .. n /\ a < k /\ k < b
        BY <1>2, <1>3, <1>8, <1>9
    <2>2. /\ s[a].at <= s[k].at /\ s[k].at <= s[b].at
          /\ s[k].at = s[b].at => IsClear(s[b])
        BY <1>8, <1>9, <2>1 DEF RowsInOrder
    <2>3. s[k].at < s[b].at
        BY <1>2, <1>3, <1>8, <2>1, <2>2
    <2>4. k \in ClearsOf(s, 1 .. n)
        BY <1>9, <2>1 DEF ClearsOf
    <2>5. CASE s[i].at <= s[k].at
        BY <1>3, <2>3, <2>4, <2>5 DEF Parted
    <2>6. CASE ~(s[i].at <= s[k].at)
        <3>1. s[k].at < s[i].at
            BY <1>2, <2>1, <2>6
        <3> QED
            BY <1>3, <2>2, <2>4, <3>1 DEF Parted
    <2> QED
        BY <2>5, <2>6
<1>10. <<a, b>> \in Runs(s)
    BY <1>8, <1>9 DEF Runs, RowsInOrder
<1>11. E \subseteq a .. b
    BY <1>2, <1>3, <1>6, <1>7
<1> QED
    BY <1>1, <1>10, <1>11

LEMMA MaxEpisodeIs ==
    ASSUME NEW s, NEW n, RowsInOrder(s, n), NEW x, IsMaxOf(x, EpisodeSizes(s, 1 .. n))
    PROVE  Max({0} \cup {r[2] - r[1] + 1 : r \in Runs(s)}) = x
<1> DEFINE D == 1 .. n
           size(r) == r[2] - r[1] + 1
           S == {0} \cup {size(r) : r \in Runs(s)}
<1>1. n \in Nat /\ IsFiniteSet(D)
    BY FS_Interval DEF RowsInOrder
<1>2. \A i : IsFiniteSet(Episode(s, D, i)) /\ Cardinality(Episode(s, D, i)) \in Nat
    BY <1>1, FiniteFires
<1>3. \A i \in FiresOf(s, D) : Cardinality(Episode(s, D, i)) <= x
    BY DEF IsMaxOf, EpisodeSizes
<1>4. x \in Nat
    BY <1>2 DEF IsMaxOf, EpisodeSizes
<1>5. ASSUME NEW r \in Runs(s)
      PROVE  /\ size(r) \in Nat /\ size(r) = Cardinality(r[1] .. r[2]) /\ IsFiniteSet(r[1] .. r[2])
             /\ size(r) <= x
    <2>1. /\ r[1] \in FiresOf(s, D) /\ r[1] \in D /\ r[2] \in D /\ r[1] <= r[2]
          /\ (r[1] .. r[2]) \subseteq Episode(s, D, r[1])
        BY RunIsInEpisode
    <2>2. r[1] \in Int /\ r[2] \in Int
        BY <1>1, <2>1
    <2>3. IsFiniteSet(r[1] .. r[2]) /\ Cardinality(r[1] .. r[2]) = size(r)
        <3>1. PICK a, b : a = r[1] /\ b = r[2]
            OBVIOUS
        <3>2. a \in Int /\ b \in Int /\ ~(a > b) /\ size(r) = b - a + 1
            BY <2>1, <2>2, <3>1
        <3>3. IsFiniteSet(a .. b) /\ Cardinality(a .. b) = b - a + 1
            BY <3>2, FS_Interval
        <3> QED
            BY <3>1, <3>2, <3>3
    <2>4. Cardinality(r[1] .. r[2]) <= Cardinality(Episode(s, D, r[1]))
        BY <1>2, <2>1, FS_Subset
    <2>5. Cardinality(Episode(s, D, r[1])) <= x /\ Cardinality(Episode(s, D, r[1])) \in Nat
        BY <1>2, <1>3, <2>1
    <2>6. size(r) \in Nat
        BY <2>1, <2>2
    <2> HIDE DEF size
    <2> QED
        BY <1>4, <2>3, <2>4, <2>5, <2>6
<1>6. x \in S
    <2>1. CASE x = 0
        BY <2>1
    <2>2. CASE x # 0
        <3>1. PICK i \in FiresOf(s, D) : x = Cardinality(Episode(s, D, i))
            BY <2>2 DEF IsMaxOf, EpisodeSizes
        <3>2. PICK r \in Runs(s) : Episode(s, D, i) \subseteq r[1] .. r[2]
            BY EpisodeIsInRun
        <3>3. size(r) \in Nat /\ size(r) = Cardinality(r[1] .. r[2]) /\ IsFiniteSet(r[1] .. r[2]) /\ size(r) <= x
            BY <1>5
        <3>4. x <= Cardinality(r[1] .. r[2])
            BY <3>1, <3>2, <3>3, FS_Subset
        <3> HIDE DEF size
        <3>5. x = size(r)
            BY <1>4, <3>3, <3>4
        <3> QED
            BY <3>5
    <2> QED
        BY <2>1, <2>2
<1>7. S \in SUBSET Int /\ \A m \in S : m <= x
    <2> HIDE DEF size
    <2> QED
        BY <1>4, <1>5
<1> HIDE DEF S
<1>8. Max(S) = x
    BY <1>6, <1>7, GreatestIsMax
<1> QED
    BY <1>8 DEF S

LEMMA ClearsAreAsMany ==
    ASSUME NEW s, NEW D, NEW rows, NEW I, NEW f, Matches(s, D, rows, I, f)
    PROVE  Cardinality(ClearsOf(s, D)) = Cardinality(ClearsOf(rows, I))
<1>1. ClearsOf(s, D) \in SUBSET D /\ ClearsOf(rows, I) \in SUBSET I
    BY DEF ClearsOf
<1>2. \A k \in D : k \in ClearsOf(s, D) <=> f[k] \in ClearsOf(rows, I)
    BY SameParts
<1> QED
    BY <1>1, <1>2, SameCount

IsRange(D, n) == D = 1 .. n

\* The first and the last of the rows in order.
Spans(rows, I, t, u) ==
    IsMinOf(t, {rows[i].at : i \in I}) /\ IsMaxOf(u, {rows[i].at : i \in I})

LEMMA EndsAre ==
    ASSUME NEW s, NEW n, RowsInOrder(s, n), NEW rows, NEW I, I # {}, NEW f,
           NEW D, IsRange(D, n), Matches(s, D, rows, I, f),
           NEW t, NEW u, Spans(rows, I, t, u)
    PROVE  n > 0 /\ s[1].at = t /\ s[n].at = u
<1>1. n \in Nat /\ \A k \in 1 .. n : s[k].at \in Int
    BY DEF RowsInOrder
<1>2. /\ \A k \in 1 .. n : f[k] \in I /\ s[k] = rows[f[k]]
      /\ \A i \in I : \E k \in 1 .. n : f[k] = i
    <2>1. /\ \A k \in D : f[k] \in I /\ s[k] = rows[f[k]]
          /\ \A i \in I : \E k \in D : f[k] = i
        BY MatchesMeans
    <2> QED
        BY <2>1 DEF IsRange
<1>3. n > 0
    BY <1>1, <1>2
<1>4. 1 \in 1 .. n /\ n \in 1 .. n
    BY <1>1, <1>3
<1>5. \A k \in 1 .. n : s[1].at <= s[k].at /\ s[k].at <= s[n].at
    <2> SUFFICES ASSUME NEW k \in 1 .. n PROVE s[1].at <= s[k].at /\ s[k].at <= s[n].at
        OBVIOUS
    <2>1. (k = 1 \/ 1 < k) /\ (k = n \/ k < n)
        BY <1>1
    <2>2. 1 < k => s[1].at <= s[k].at
        BY <1>4 DEF RowsInOrder
    <2>3. k < n => s[k].at <= s[n].at
        BY <1>4 DEF RowsInOrder
    <2> QED
        BY <1>1, <2>1, <2>2, <2>3
<1>6. PICK T : T = {rows[i].at : i \in I}
    OBVIOUS
<1>7. \A v \in T : v \in Int /\ s[1].at <= v /\ v <= s[n].at
    BY <1>1, <1>2, <1>5, <1>6
<1>8. s[1].at \in T /\ s[n].at \in T
    BY <1>2, <1>4, <1>6
<1>9. t \in T /\ t <= s[1].at /\ u \in T /\ s[n].at <= u
    BY <1>6, <1>8 DEF Spans, IsMinOf, IsMaxOf
<1>10. s[1].at = t /\ s[n].at = u
    BY <1>7, <1>8, <1>9
<1> QED
    BY <1>3, <1>10

\* One pass ends with the facts of the definition.
LEMMA FactsAre ==
    ASSUME Null \notin Int, NEW rows, NEW I \in SUBSET Nat, IsTimed(rows, I), IsFiniteSet(I),
           I # {}, NEW a, FiringOf(a, rows, I), NEW provider
    PROVE  FinishFiring(a, provider) = Facts(Ordered(rows, I), provider)
<1>1. PICK b : b = Flush(a)
    OBVIOUS
<1>2. PICK n, s, f : n = Cardinality(I) /\ s = Ordered(rows, I) /\ f = Position(rows, I)
    OBVIOUS
<1>3. RowsInOrder(s, n) /\ Matches(s, 1 .. n, rows, I, f)
    BY <1>2, OrderedIs
<1>4. IsRead(rows, I)
    BY DEF IsRead, IsTimed
<1>5. /\ CompleteIs(b, rows, I) /\ b.first = a.first /\ b.pending_at = a.pending_at
      /\ b.count = a.count /\ b.clear_count = a.clear_count
    BY <1>1, <1>4, Completed
<1>6. CompleteIs(b, s, 1 .. n)
    BY <1>3, <1>5, CompleteMoves
<1>7. MaxCycles(s) = b.max_cycles
    <2>1. PICK x : x = b.max_cycles
        OBVIOUS
    <2>2. IsMaxOf(x, CycleCounts(CycleTimes(s, 1 .. n)))
        BY <1>6, <2>1 DEF CompleteIs
    <2> QED
        BY <1>3, <2>1, <2>2, MaxCyclesIs
<1>8. Max({0} \cup {r[2] - r[1] + 1 : r \in Runs(s)}) = b.max_episode
    <2>1. PICK x : x = b.max_episode
        OBVIOUS
    <2>2. IsMaxOf(x, EpisodeSizes(s, 1 .. n))
        BY <1>6, <2>1 DEF CompleteIs
    <2> QED
        BY <1>3, <2>1, <2>2, MaxEpisodeIs
<1>9. OpenSince(s) = b.open_since
    <2>1. PICK since : since = b.open_since
        OBVIOUS
    <2>2. IF Trailing(s, 1 .. n) = {} THEN since = Null
          ELSE IsMinOf(since, {s[i].at : i \in Trailing(s, 1 .. n)})
        BY <1>6, <2>1 DEF CompleteIs
    <2> QED
        BY <1>3, <2>1, <2>2, OpenSinceIs
<1>10. s[1].at = b.first /\ s[n].at = b.pending_at
    <2>1. PICK t, u : t = a.first /\ u = a.pending_at
        OBVIOUS
    <2>2. Spans(rows, I, t, u)
        BY <2>1 DEF FiringOf, Spans
    <2>3. PICK D : D = 1 .. n
        OBVIOUS
    <2>4. RowsInOrder(s, n) /\ Matches(s, D, rows, I, f) /\ IsRange(D, n)
        BY <1>3, <2>3 DEF IsRange
    <2>5. s[1].at = t /\ s[n].at = u
        BY <2>2, <2>4, EndsAre
    <2> QED
        BY <1>5, <2>1, <2>5
<1>11. Len(s) = n /\ DOMAIN s = 1 .. n /\ b.count = n
    BY <1>2, <1>3, <1>5 DEF RowsInOrder, FiringOf
<1>12. Cardinality({k \in DOMAIN s : IsClear(s[k])}) = b.clear_count
    <2>1. PICK D : D = 1 .. n
        OBVIOUS
    <2>2. Matches(s, D, rows, I, f)
        BY <1>3, <2>1
    <2>3. Cardinality(ClearsOf(s, D)) = Cardinality(ClearsOf(rows, I))
        BY <2>2, ClearsAreAsMany
    <2>4. {k \in DOMAIN s : IsClear(s[k])} = ClearsOf(s, D)
        BY <1>11, <2>1 DEF ClearsOf
    <2> QED
        BY <1>5, <2>3, <2>4 DEF FiringOf
<1> DEFINE span == b.pending_at - b.first
           open == IF b.open_since = Null THEN Null ELSE b.pending_at - b.open_since
           facts == [clear_count |-> b.clear_count, max_cycles |-> b.max_cycles,
                     max_episode |-> b.max_episode, open_since |-> b.open_since,
                     open_span |-> open, span |-> span,
                     pattern |-> Pattern(b.max_cycles, b.count, span, open, provider)]
<1>13. FinishFiring(a, provider) = facts
    BY <1>1 DEF FinishFiring
<1>14. Facts(s, provider) = facts
    BY <1>7, <1>8, <1>9, <1>10, <1>11, <1>12 DEF Facts
<1> QED
    BY <1>2, <1>13, <1>14

-------------------------------------------------------------------------------
\* The whole accumulator.
InOrder(rows) == \A i, j \in DOMAIN rows : i <= j => rows[i].at <= rows[j].at

AccumulatorIs(acc, panels, rows) ==
    /\ acc.row_count = Len(rows)
    /\ acc.last_at = IF rows = <<>> THEN Null ELSE rows[Len(rows)].at
    /\ DOMAIN acc.identities = Identities(rows)
    /\ \A id \in Identities(rows) :
           /\ IdentityIs(acc.identities[id], panels, rows, RowsOf(rows, id))
           /\ FiringOf(acc.identities[id].firing, rows, RowsOf(rows, id))
    /\ acc.scopes = [d \in DatesOf(rows, DOMAIN rows) |-> ScopesOfRows(rows, RowsOn(rows, d))]
    /\ acc.vis = [total |-> Len(rows),
                  matches |-> [l \in LeavesOf(panels, "suppression") |->
                                  Cardinality(MatchedRows(panels, l, rows))]]

\* A page brings the next row.
Extends(old, new, k) ==
    /\ Len(old) \in Nat /\ DOMAIN old = 1 .. Len(old)
    /\ k = Len(old) + 1 /\ Len(new) = k /\ DOMAIN new = 1 .. k
    /\ \A i \in DOMAIN old : new[i] = old[i]
    /\ IsTimed(new, DOMAIN new)

LEMMA ExtendsJoins ==
    ASSUME NEW old, NEW new, NEW k, Extends(old, new, k), NEW I \in SUBSET DOMAIN old
    PROVE  Joins(old, new, I, k) /\ IsTimed(new, I \cup {k})
<1>1. IsFiniteSet(1 .. Len(old))
    BY FS_Interval DEF Extends
<1>2. IsFiniteSet(I)
    BY <1>1, FS_Subset DEF Extends
<1>3. k \in DOMAIN new /\ I \subseteq DOMAIN new
    BY DEF Extends
<1> QED
    BY <1>2, <1>3 DEF Extends, Joins, IsTimed

LEMMA RowsGrow ==
    ASSUME NEW old, NEW new, NEW k, Extends(old, new, k), NEW id
    PROVE  /\ RowsOf(new, id) = RowsOf(old, id) \cup (IF new[k].identity = id THEN {k} ELSE {})
           /\ RowsOf(old, id) \in SUBSET DOMAIN old
           /\ RowsOf(old, id) # {} <=> id \in Identities(old)
<1>1. DOMAIN new = DOMAIN old \cup {k} /\ k \notin DOMAIN old
    BY DEF Extends
<1>2. \A i \in DOMAIN old : new[i] = old[i]
    BY DEF Extends
<1> QED
    BY <1>1, <1>2 DEF RowsOf, Identities

LEMMA IdentitiesGrow ==
    ASSUME NEW old, NEW new, NEW k, Extends(old, new, k)
    PROVE  Identities(new) = Identities(old) \cup {new[k].identity}
<1>1. DOMAIN new = DOMAIN old \cup {k} /\ k \notin DOMAIN old
    BY DEF Extends
<1>2. \A i \in DOMAIN old : new[i] = old[i]
    BY DEF Extends
<1> QED
    BY <1>1, <1>2 DEF Identities

LEMMA VisibilityAdded ==
    ASSUME NEW panels, NEW old, NEW new, NEW k, Extends(old, new, k),
           NEW vis, vis = [total |-> Len(old),
                           matches |-> [l \in LeavesOf(panels, "suppression") |->
                                           Cardinality(MatchedRows(panels, l, old))]]
    PROVE  AddVisibility(panels, vis, new[k])
               = [total |-> Len(new),
                  matches |-> [l \in LeavesOf(panels, "suppression") |->
                                  Cardinality(MatchedRows(panels, l, new))]]
<1> DEFINE L == LeavesOf(panels, "suppression")
<1>1. DOMAIN new = DOMAIN old \cup {k} /\ k \notin DOMAIN old /\ IsFiniteSet(DOMAIN old)
    <2>1. IsFiniteSet(1 .. Len(old))
        BY FS_Interval DEF Extends
    <2>2. DOMAIN new = DOMAIN old \cup {k} /\ k \notin DOMAIN old
        BY DEF Extends
    <2> QED
        BY <2>1, <2>2 DEF Extends
<1>2. \A i \in DOMAIN old : new[i] = old[i]
    BY DEF Extends
<1>3. ASSUME NEW l \in L
      PROVE  Cardinality(MatchedRows(panels, l, old)) + (IF l \in Mask(panels, new[k]) THEN 1 ELSE 0)
                 = Cardinality(MatchedRows(panels, l, new))
    <2> DEFINE T == MatchedRows(panels, l, old)
    <2>1. T \in SUBSET DOMAIN old
        BY DEF MatchedRows
    <2>2. IsFiniteSet(T) /\ k \notin T /\ Cardinality(T) \in Nat
        BY <1>1, <2>1, FS_Subset, FS_CardinalityType
    <2>3. Cardinality(T \cup {k}) = Cardinality(T) + 1
        BY <2>2, CountGrows
    <2>4. l \in Mask(panels, new[k]) <=> ExcludesRow(Leaf(panels, l), new[k])
        BY DEF Mask
    <2>5. MatchedRows(panels, l, new)
              = T \cup (IF l \in Mask(panels, new[k]) THEN {k} ELSE {})
        BY <1>1, <1>2, <2>4 DEF MatchedRows
    <2> HIDE DEF T, L
    <2>6. CASE l \in Mask(panels, new[k])
        BY <2>3, <2>5, <2>6 DEF T
    <2>7. CASE l \notin Mask(panels, new[k])
        <3>1. MatchedRows(panels, l, new) = T
            BY <2>5, <2>7
        <3> QED
            BY <2>2, <2>7, <3>1 DEF T
    <2> QED
        BY <2>6, <2>7
<1>4. vis.total + 1 = Len(new)
    BY DEF Extends
<1> HIDE DEF L
<1>5. vis.total = Len(old) /\ vis.matches = [l \in L |-> Cardinality(MatchedRows(panels, l, old))]
    BY DEF L
<1>6. DOMAIN vis.matches = L /\ \A l \in L : vis.matches[l] = Cardinality(MatchedRows(panels, l, old))
    BY <1>5
<1> QED
    BY <1>3, <1>4, <1>6 DEF AddVisibility, L

LEMMA ScopeDaysAdded ==
    ASSUME NEW old, NEW new, NEW k, Extends(old, new, k), NEW d, d = new[k].date,
           NEW scopes, scopes = [e \in DatesOf(old, DOMAIN old) |-> ScopesOfRows(old, RowsOn(old, e))]
    PROVE  Put(scopes, d, AddScope(At(scopes, d, EmptyScopes), new[k]))
               = [e \in DatesOf(new, DOMAIN new) |-> ScopesOfRows(new, RowsOn(new, e))]
<1>1. DOMAIN new = DOMAIN old \cup {k} /\ k \notin DOMAIN old
    BY DEF Extends
<1>2. \A i \in DOMAIN old : new[i] = old[i]
    BY DEF Extends
<1>3. DatesOf(new, DOMAIN new) = DOMAIN scopes \cup {d} /\ DOMAIN scopes = DatesOf(old, DOMAIN old)
    BY <1>1, <1>2 DEF DatesOf
<1>4. ASSUME NEW e, e # d PROVE ScopesOfRows(new, RowsOn(new, e)) = ScopesOfRows(old, RowsOn(old, e))
    <2>1. RowsOn(new, e) = RowsOn(old, e) /\ \A i \in RowsOn(old, e) : new[i] = old[i]
        BY <1>1, <1>2, <1>4 DEF RowsOn
    <2> QED
        BY <2>1, SameScopes
<1>5. ScopesOfRows(new, RowsOn(new, d)) = AddScope(At(scopes, d, EmptyScopes), new[k])
    <2> DEFINE J == RowsOn(old, d)
    <2>1. RowsOn(new, d) = J \cup {k}
        BY <1>1, <1>2 DEF RowsOn
    <2>2. J \in SUBSET DOMAIN old
        BY DEF RowsOn
    <2>3. Joins(old, new, J, k)
        BY <2>2, ExtendsJoins
    <2>4. At(scopes, d, EmptyScopes) = ScopesOfRows(old, J)
        <3>1. CASE d \in DatesOf(old, DOMAIN old)
            BY <3>1 DEF At
        <3>2. CASE d \notin DatesOf(old, DOMAIN old)
            <4>1. J = {}
                BY <3>2 DEF RowsOn, DatesOf
            <4>2. ScopesOfRows(old, {}) = EmptyScopes
                BY FS_EmptySet DEF ScopesOfRows, EmptyScopes
            <4> QED
                BY <3>2, <4>1, <4>2 DEF At
        <3> QED
            BY <3>1, <3>2
    <2> QED
        BY <2>1, <2>3, <2>4, ScopesAdded
<1>6. ASSUME NEW e \in DOMAIN scopes \cup {d}
      PROVE  (IF e = d THEN AddScope(At(scopes, d, EmptyScopes), new[k]) ELSE scopes[e])
                 = ScopesOfRows(new, RowsOn(new, e))
    BY <1>3, <1>4, <1>5
<1> QED
    BY <1>3, <1>6 DEF Put

\* Reading a row makes of the accumulator of the rows before it that of the rows up to it.
LEMMA RowAdded ==
    ASSUME Null \notin Int, NEW panels, NEW acc, NEW old, NEW new, NEW k, Extends(old, new, k),
           InOrder(new), AccumulatorIs(acc, panels, old)
    PROVE  AccumulatorIs(AddRow(acc, panels, new[k]), panels, new)
<1> DEFINE row == new[k]
           idn == At(acc.identities, row.identity, NewIdentity(row, k))
           more == AddRow(acc, panels, row)
<1>1. acc.row_count + 1 = k /\ Len(new) = k /\ new # <<>> /\ k \in Nat
    BY DEF AccumulatorIs, Extends
<1>2. /\ more.row_count = k /\ more.last_at = row.at
      /\ more.identities = Put(acc.identities, row.identity, AddIdentity(idn, panels, row, k))
      /\ more.scopes = Put(acc.scopes, row.date, AddScope(At(acc.scopes, row.date, EmptyScopes), row))
      /\ more.vis = AddVisibility(panels, acc.vis, row)
    BY <1>1 DEF AddRow
<1> HIDE DEF more
<1>3. DOMAIN more.identities = Identities(new)
    BY <1>2, IdentitiesGrow DEF AccumulatorIs, Put
<1>4. ASSUME NEW id \in Identities(new)
      PROVE  IdentityIs(more.identities[id], panels, new, RowsOf(new, id))
    <2> DEFINE I == RowsOf(old, id)
    <2>1. /\ RowsOf(new, id) = I \cup (IF row.identity = id THEN {k} ELSE {})
          /\ I \in SUBSET DOMAIN old /\ (I # {} <=> id \in Identities(old))
        BY RowsGrow
    <2>2. Joins(old, new, I, k) /\ IsTimed(new, I \cup {k})
        BY <2>1, ExtendsJoins
    <2>3. I \in SUBSET Nat /\ \A i \in I : new[i] = old[i]
        BY <2>2 DEF Joins
    <2>4. I # {} => IdentityIs(acc.identities[id], panels, old, I)
        BY <2>1 DEF AccumulatorIs
    <2>5. CASE id = row.identity
        <3>1. more.identities[id] = AddIdentity(idn, panels, row, k)
            BY <1>2, <2>5 DEF Put
        <3>2. \/ I # {} /\ IdentityIs(idn, panels, old, I)
              \/ I = {} /\ idn = NewIdentity(row, k)
            BY <2>1, <2>4, <2>5 DEF At, AccumulatorIs
        <3>3. RowsOf(new, id) = I \cup {k}
            BY <2>1, <2>5
        <3> HIDE DEF I, idn
        <3>4. Joins(old, new, I, k)
            BY <2>2
        <3>5. IsTimed(new, I \cup {k})
            BY <2>2
        <3>6. IdentityIs(AddIdentity(idn, panels, new[k], k), panels, new, I \cup {k})
            BY <3>2, <3>4, <3>5, IdentityAdded
        <3> QED
            BY <3>1, <3>3, <3>6
    <2>6. CASE id # row.identity
        <3>1. RowsOf(new, id) = I
            BY <2>1, <2>6
        <3>2. id \in Identities(old)
            BY <2>6, IdentitiesGrow
        <3>3. more.identities[id] = acc.identities[id]
            BY <1>2, <2>6, <3>2 DEF Put, AccumulatorIs
        <3>4. I # {} /\ IdentityIs(acc.identities[id], panels, old, I)
            BY <2>1, <2>4, <3>2
        <3> HIDE DEF I
        <3>5. IdentityIs(acc.identities[id], panels, new, I)
            BY <2>3, <3>4, SameIdentity
        <3> QED
            BY <3>1, <3>3, <3>5
    <2> QED
        BY <2>5, <2>6
<1>5. more.scopes = [d \in DatesOf(new, DOMAIN new) |-> ScopesOfRows(new, RowsOn(new, d))]
    BY <1>2, ScopeDaysAdded DEF AccumulatorIs
<1>6. more.vis = [total |-> Len(new),
                  matches |-> [l \in LeavesOf(panels, "suppression") |->
                                  Cardinality(MatchedRows(panels, l, new))]]
    BY <1>2, VisibilityAdded DEF AccumulatorIs
<1>7. ASSUME NEW id \in Identities(new)
      PROVE  FiringOf(more.identities[id].firing, new, RowsOf(new, id))
    <2> DEFINE I == RowsOf(old, id)
    <2>1. /\ RowsOf(new, id) = I \cup (IF row.identity = id THEN {k} ELSE {})
          /\ I \in SUBSET DOMAIN old /\ (I # {} <=> id \in Identities(old))
        BY RowsGrow
    <2>2. IsRead(new, I) /\ k \notin I /\ row.at \in Int
        <3>1. Joins(old, new, I, k) /\ IsTimed(new, I \cup {k})
            BY <2>1, ExtendsJoins
        <3> HIDE DEF I
        <3> QED
            BY <3>1 DEF Joins, IsTimed, IsRead
    <2>3. \A i \in I : new[i] = old[i] /\ new[i].at <= row.at
        BY <1>1, <2>1 DEF Extends, InOrder
    <2>4. I # {} => FiringOf(acc.identities[id].firing, old, I)
        BY <2>1 DEF AccumulatorIs
    <2>5. CASE id = row.identity
        <3>1. more.identities[id] = AddIdentity(idn, panels, row, k)
            BY <1>2, <2>5 DEF Put
        <3>2. more.identities[id].firing = AddFiring(idn.firing, row)
            <4> HIDE DEF idn
            <4> QED
                BY <3>1 DEF AddIdentity
        <3>3. \/ I # {} /\ idn.firing = acc.identities[id].firing
              \/ I = {} /\ idn.firing = NoFiring
            BY <2>1, <2>5 DEF At, AccumulatorIs, NewIdentity
        <3>4. RowsOf(new, id) = I \cup {k}
            BY <2>1, <2>5
        <3> HIDE DEF I, idn
        <3>5. PICK a : a = idn.firing
            OBVIOUS
        <3>6. FiringOf(a, new, I)
            BY <2>2, <2>3, <2>4, <3>3, <3>5, SameFiring, NothingFires DEF IsRead
        <3>7. FiringOf(AddFiring(a, new[k]), new, I \cup {k})
            BY <2>2, <2>3, <3>6, FiringAdded
        <3> QED
            BY <3>2, <3>4, <3>5, <3>7
    <2>6. CASE id # row.identity
        <3>1. RowsOf(new, id) = I
            BY <2>1, <2>6
        <3>2. id \in Identities(old)
            BY <2>6, IdentitiesGrow
        <3>3. more.identities[id] = acc.identities[id]
            BY <1>2, <2>6, <3>2 DEF Put, AccumulatorIs
        <3>4. FiringOf(acc.identities[id].firing, old, I)
            BY <2>1, <2>4, <3>2
        <3> HIDE DEF I
        <3>5. FiringOf(acc.identities[id].firing, new, I)
            BY <2>2, <2>3, <3>4, SameFiring DEF IsRead
        <3> QED
            BY <3>1, <3>3, <3>5
    <2> QED
        BY <2>5, <2>6
<1>8. AccumulatorIs(more, panels, new)
    BY <1>1, <1>2, <1>3, <1>4, <1>5, <1>6, <1>7 DEF AccumulatorIs
<1> QED
    BY <1>8 DEF more

LEMMA NothingRead ==
    ASSUME NEW panels, NEW rows, Len(rows) = 0, DOMAIN rows = {}, rows = <<>>
    PROVE  AccumulatorIs(NoAnalysis(panels), panels, rows)
<1>1. Identities(rows) = {} /\ DatesOf(rows, DOMAIN rows) = {}
    BY DEF Identities, DatesOf
<1>2. \A l : Cardinality(MatchedRows(panels, l, rows)) = 0
    <2>1. \A l : MatchedRows(panels, l, rows) = {}
        BY DEF MatchedRows
    <2> QED
        BY <2>1, FS_EmptySet
<1> QED
    BY <1>1, <1>2 DEF AccumulatorIs, NoAnalysis, NoVisibility

-------------------------------------------------------------------------------
\* finish(): every rule of a row, given the identities that R6 holds of.
IsFeed(rows) == Len(rows) \in Nat /\ DOMAIN rows = 1 .. Len(rows) /\ IsTimed(rows, DOMAIN rows)

Held(panels, rows, fires, i) ==
    RowRules(rows[i])
        \cup (IF rows[i].identity \in fires THEN {"R6"} ELSE {})
        \cup (IF i \in SuppressedRows(panels, rows) THEN {"R5"} ELSE {})

HeldOf(panels, rows, fires, I) == UNION {Held(panels, rows, fires, i) : i \in I}
HeldAt(panels, rows, fires, I, r) == {i \in I : r \in Held(panels, rows, fires, i)}

FinishedDay(panels, rows, fires, I) ==
    [count |-> Cardinality(I),
     rules |-> [r \in HeldOf(panels, rows, fires, I) |->
                   Cardinality(HeldAt(panels, rows, fires, I, r))],
     suppressed |-> Cardinality(I \cap SuppressedRows(panels, rows)),
     flagged |-> Cardinality({i \in I : Held(panels, rows, fires, i) \cap CORE # {}}),
     unseen |-> Cardinality(I \cap UnseenRows(panels, rows))]

\* The share of every leaf is that of all rows.
LEMMA ActiveIs ==
    ASSUME NEW acc, NEW panels, NEW rows, AccumulatorIs(acc, panels, rows)
    PROVE  ActiveMask(acc.vis) = ActiveLeaves(panels, rows)
<1> DEFINE L == LeavesOf(panels, "suppression")
<1>1. acc.vis.total = Len(rows) /\ acc.vis.matches = [l \in L |-> Cardinality(MatchedRows(panels, l, rows))]
    BY DEF AccumulatorIs
<1> HIDE DEF L
<1>2. DOMAIN acc.vis.matches = L /\ \A l \in L : acc.vis.matches[l] = Cardinality(MatchedRows(panels, l, rows))
    BY <1>1
<1> QED
    BY <1>1, <1>2 DEF ActiveMask, ActiveLeaves, L

\* A row is suppressed if its mask is.
LEMMA GoneIs ==
    ASSUME NEW panels, NEW rows, NEW i \in DOMAIN rows
    PROVE  IsSuppressed(panels, ActiveLeaves(panels, rows), Mask(panels, rows[i]))
               <=> i \in SuppressedRows(panels, rows)
<1>1. Mask(panels, rows[i]) \cap ActiveLeaves(panels, rows)
          = {l \in ActiveLeaves(panels, rows) : i \in MatchedRows(panels, l, rows)}
    BY DEF Mask, ActiveLeaves, MatchedRows
<1> QED
    BY <1>1 DEF IsSuppressed, SuppressedRows

\* The rows of some of the signatures.
LEMMA CountOfSignatures ==
    ASSUME NEW panels, NEW rows, NEW I, IsFiniteSet(I),
           NEW S, S = DayOfRows(panels, rows, I).signatures, NEW T \in SUBSET DOMAIN S
    PROVE  SumOf([s \in DOMAIN S |-> S[s].count], T)
               = Cardinality({i \in I : Signature(panels, rows[i]) \in T})
<1> DEFINE key == [i \in I |-> Signature(panels, rows[i])]
           f == [s \in DOMAIN S |-> S[s].count]
<1>1. DOMAIN S = {key[i] : i \in I}
    BY DEF DayOfRows, SignaturesOf
<1>2. IsFiniteSet(DOMAIN S)
    <2> HIDE DEF key
    <2> QED
        BY <1>1, Image
<1>3. IsFiniteSet(T)
    BY <1>2, FS_Subset
<1>4. ASSUME NEW s \in T PROVE f[s] = Cardinality(Class(I, key, {s}))
    <2>1. Class(I, key, {s}) = Signed(panels, rows, I, s)
        BY DEF Signed, Class
    <2> QED
        BY <2>1 DEF DayOfRows
<1>5. {i \in I : Signature(panels, rows[i]) \in T} = Class(I, key, T)
    BY DEF Class
<1> HIDE DEF key, f
<1>6. SumOf(f, T) = Cardinality(Class(I, key, T))
    BY <1>3, <1>4, SumOfClasses
<1> QED
    BY <1>5, <1>6 DEF f

LEMMA RuleNames ==
    ASSUME NEW row
    PROVE  /\ CoreRules(row) \subseteq CORE \ {"R5", "R6"}
           /\ ReadinessRules(row) \cap CORE = {}
           /\ "R5" \notin RowRules(row) /\ "R6" \notin RowRules(row)
           /\ RowRules(row) \cap CORE = CoreRules(row)
BY DEF CoreRules, ReadinessRules, RowRules, CORE, READINESS

\* What one identity's rows are, and whether R6 holds of them.
Own(rows, fires, pattern, I) ==
    /\ I \in SUBSET DOMAIN rows /\ IsFiniteSet(I) /\ I # {}
    /\ \A i \in I : rows[i].identity \in fires <=> pattern # Null

LEMMA HeldIs ==
    ASSUME NEW panels, NEW rows, NEW fires, NEW pattern, NEW I, Own(rows, fires, pattern, I)
    PROVE  /\ \A i \in I : Held(panels, rows, fires, i)
                  = RowRules(rows[i]) \cup (IF pattern # Null THEN {"R6"} ELSE {})
                        \cup (IF i \in SuppressedRows(panels, rows) THEN {"R5"} ELSE {})
           /\ \A r \in HeldOf(panels, rows, fires, I) :
                  IF r = "R5" THEN HeldAt(panels, rows, fires, I, r) = I \cap SuppressedRows(panels, rows)
                  ELSE IF r = "R6" THEN HeldAt(panels, rows, fires, I, r) = I
                  ELSE HeldAt(panels, rows, fires, I, r) = Ruled(rows, I, r)
           /\ HeldOf(panels, rows, fires, I)
                  = RulesOf(rows, I) \cup (IF pattern # Null THEN {"R6"} ELSE {})
                        \cup (IF I \cap SuppressedRows(panels, rows) # {} THEN {"R5"} ELSE {})
<1> DEFINE S == SuppressedRows(panels, rows)
           p == pattern # Null
<1> HIDE DEF S
<1>1. \A i \in I : Held(panels, rows, fires, i)
          = RowRules(rows[i]) \cup (IF p THEN {"R6"} ELSE {}) \cup (IF i \in S THEN {"R5"} ELSE {})
    BY DEF Held, Own, S
<1>2. \A i \in I : "R5" \notin RowRules(rows[i]) /\ "R6" \notin RowRules(rows[i])
    BY RuleNames
<1> HIDE DEF p
<1>3. \A i \in I : /\ "R5" \in Held(panels, rows, fires, i) <=> i \in S
                   /\ "R6" \in Held(panels, rows, fires, i) <=> p
                   /\ \A r : r # "R5" /\ r # "R6" =>
                          (r \in Held(panels, rows, fires, i) <=> r \in RowRules(rows[i]))
    <2>1. ASSUME NEW i \in I
          PROVE  /\ "R5" \in Held(panels, rows, fires, i) <=> i \in S
                 /\ "R6" \in Held(panels, rows, fires, i) <=> p
                 /\ \A r : r # "R5" /\ r # "R6" =>
                        (r \in Held(panels, rows, fires, i) <=> r \in RowRules(rows[i]))
        <3>1. Held(panels, rows, fires, i)
                  = RowRules(rows[i]) \cup (IF p THEN {"R6"} ELSE {}) \cup (IF i \in S THEN {"R5"} ELSE {})
            BY <1>1
        <3> QED
            BY <1>2, <3>1
    <2> QED
        BY <2>1
<1>4. ASSUME NEW r \in HeldOf(panels, rows, fires, I)
      PROVE  IF r = "R5" THEN HeldAt(panels, rows, fires, I, r) = I \cap S
             ELSE IF r = "R6" THEN HeldAt(panels, rows, fires, I, r) = I
             ELSE HeldAt(panels, rows, fires, I, r) = Ruled(rows, I, r)
    <2>1. CASE r = "R5"
        BY <1>3, <2>1 DEF HeldAt
    <2>2. CASE r = "R6"
        <3>1. p
            BY <1>3, <2>2 DEF HeldOf
        <3> QED
            BY <1>3, <2>2, <3>1 DEF HeldAt
    <2>3. CASE r # "R5" /\ r # "R6"
        BY <1>3, <2>3 DEF HeldAt, Ruled
    <2> QED
        BY <2>1, <2>2, <2>3
<1>5. HeldOf(panels, rows, fires, I)
          = RulesOf(rows, I) \cup (IF p THEN {"R6"} ELSE {}) \cup (IF I \cap S # {} THEN {"R5"} ELSE {})
    <2>1. ASSUME NEW r, r # "R5", r # "R6"
          PROVE  r \in HeldOf(panels, rows, fires, I) <=> r \in RulesOf(rows, I)
        BY <1>3, <2>1 DEF HeldOf, RulesOf
    <2>2. "R5" \in HeldOf(panels, rows, fires, I) <=> I \cap S # {}
        BY <1>3 DEF HeldOf
    <2>3. "R6" \in HeldOf(panels, rows, fires, I) <=> p
        BY <1>3 DEF HeldOf, Own
    <2>4. "R5" \notin RulesOf(rows, I) /\ "R6" \notin RulesOf(rows, I)
        BY <1>2 DEF RulesOf
    <2> QED
        BY <2>1, <2>2, <2>3, <2>4
<1> QED
    BY <1>1, <1>4, <1>5 DEF S, p

\* A day when it is finished: its signatures are enough to count its rows.
LEMMA FinishDayIs ==
    ASSUME NEW panels, NEW rows, NEW fires, NEW pattern, NEW I, Own(rows, fires, pattern, I),
           NEW active, active = ActiveLeaves(panels, rows)
    PROVE  FinishDay(DayOfRows(panels, rows, I), panels, active, pattern)
               = FinishedDay(panels, rows, fires, I)
<1> DEFINE S == SuppressedRows(panels, rows)
           day == DayOfRows(panels, rows, I)
           D == DOMAIN day.signatures
           fin == FinishDay(day, panels, active, pattern)
           f == [s \in D |-> day.signatures[s].count]
           gone == {s \in D : IsSuppressed(panels, active, s[1])}
           flag == {s \in D : s[2] \/ IsSuppressed(panels, active, s[1]) \/ pattern # Null}
           hide == {s \in D : s[3] /\ ~IsSuppressed(panels, active, s[1])}
           withR6 == IF pattern = Null THEN day.rules ELSE Put(day.rules, "R6", day.count)
<1>1. IsFiniteSet(I) /\ I \subseteq DOMAIN rows
    BY DEF Own
<1>2. fin = [count |-> day.count,
             rules |-> IF SumOf(f, gone) = 0 THEN withR6 ELSE Put(withR6, "R5", SumOf(f, gone)),
             suppressed |-> SumOf(f, gone),
             flagged |-> SumOf(f, flag),
             unseen |-> SumOf(f, hide)]
    BY DEF FinishDay, CountWhere
<1>3. \A i \in I : Signature(panels, rows[i]) \in D
    BY DEF DayOfRows, SignaturesOf
<1>4. \A i \in I : IsSuppressed(panels, active, Signature(panels, rows[i])[1]) <=> i \in S
    BY <1>1, GoneIs DEF Signature
<1>5. \A T \in SUBSET D : SumOf(f, T) = Cardinality({i \in I : Signature(panels, rows[i]) \in T})
    BY <1>1, CountOfSignatures
<1>6. SumOf(f, gone) = Cardinality(I \cap S)
    <2>1. {i \in I : Signature(panels, rows[i]) \in gone} = I \cap S
        BY <1>3, <1>4
    <2> QED
        BY <1>5, <2>1
<1>7. SumOf(f, flag) = Cardinality({i \in I : Held(panels, rows, fires, i) \cap CORE # {}})
    <2>1. ASSUME NEW i \in I
          PROVE  Signature(panels, rows[i]) \in flag <=> Held(panels, rows, fires, i) \cap CORE # {}
        <3>1. Held(panels, rows, fires, i)
                  = RowRules(rows[i]) \cup (IF pattern # Null THEN {"R6"} ELSE {})
                        \cup (IF i \in S THEN {"R5"} ELSE {})
            BY DEF Held, Own
        <3>2. RowRules(rows[i]) \cap CORE = CoreRules(rows[i]) /\ "R5" \in CORE /\ "R6" \in CORE
            BY RuleNames DEF CORE
        <3>3. Held(panels, rows, fires, i) \cap CORE # {}
                  <=> (CoreRules(rows[i]) # {} \/ i \in S \/ pattern # Null)
            <4> HIDE DEF S
            <4> QED
                BY <3>1, <3>2
        <3>4. Signature(panels, rows[i])[2] <=> CoreRules(rows[i]) # {}
            BY DEF Signature
        <3> HIDE DEF S, D
        <3> QED
            BY <1>3, <1>4, <3>3, <3>4
    <2>2. {i \in I : Signature(panels, rows[i]) \in flag}
              = {i \in I : Held(panels, rows, fires, i) \cap CORE # {}}
        BY <2>1
    <2> QED
        BY <1>5, <2>2
<1>8. SumOf(f, hide) = Cardinality(I \cap UnseenRows(panels, rows))
    <2>1. ASSUME NEW i \in I
          PROVE  Signature(panels, rows[i]) \in hide <=> i \in UnseenRows(panels, rows)
        <3>1. Signature(panels, rows[i])[3] <=> InEveryPanel(panels, HidingLeaves(panels, rows[i]))
            BY DEF Signature, IsHidden
        <3> HIDE DEF D
        <3> QED
            BY <1>1, <1>3, <1>4, <3>1 DEF UnseenRows
    <2>2. {i \in I : Signature(panels, rows[i]) \in hide} = I \cap UnseenRows(panels, rows)
        BY <2>1
    <2> QED
        BY <1>5, <2>2
<1>9. fin.rules = FinishedDay(panels, rows, fires, I).rules
    <2> DEFINE n == Cardinality(I \cap S)
               X == [r \in HeldOf(panels, rows, fires, I) |->
                        Cardinality(HeldAt(panels, rows, fires, I, r))]
    <2>1. n = 0 <=> I \cap S = {}
        BY <1>1, FS_EmptySet, FS_Subset
    <2>2. /\ day.count = Cardinality(I) /\ DOMAIN day.rules = RulesOf(rows, I)
          /\ \A r \in RulesOf(rows, I) : day.rules[r] = Cardinality(Ruled(rows, I, r))
          /\ day.rules = [r \in RulesOf(rows, I) |-> day.rules[r]]
        BY DEF DayOfRows
    <2>3. fin.rules = IF n = 0 THEN withR6 ELSE Put(withR6, "R5", n)
        BY <1>2, <1>6
    <2>4. HeldOf(panels, rows, fires, I)
              = RulesOf(rows, I) \cup (IF pattern # Null THEN {"R6"} ELSE {})
                    \cup (IF I \cap S # {} THEN {"R5"} ELSE {})
        BY HeldIs
    <2>5. \A r \in HeldOf(panels, rows, fires, I) :
                  IF r = "R5" THEN HeldAt(panels, rows, fires, I, r) = I \cap S
                  ELSE IF r = "R6" THEN HeldAt(panels, rows, fires, I, r) = I
                  ELSE HeldAt(panels, rows, fires, I, r) = Ruled(rows, I, r)
        BY HeldIs
    <2>6. "R5" \notin RulesOf(rows, I) /\ "R6" \notin RulesOf(rows, I)
        BY RuleNames DEF RulesOf
    <2> HIDE DEF n, S, fin, day
    <2>7. /\ DOMAIN withR6 = RulesOf(rows, I) \cup (IF pattern # Null THEN {"R6"} ELSE {})
          /\ withR6 = [r \in DOMAIN withR6 |-> withR6[r]]
          /\ \A r \in DOMAIN withR6 :
                 withR6[r] = IF r = "R6" THEN Cardinality(I) ELSE Cardinality(Ruled(rows, I, r))
        <3>1. CASE pattern = Null
            BY <2>2, <2>6, <3>1
        <3>2. CASE pattern # Null
            BY <2>2, <2>6, <3>2 DEF Put
        <3> QED
            BY <3>1, <3>2
    <2> HIDE DEF withR6
    <2>8. /\ DOMAIN fin.rules = HeldOf(panels, rows, fires, I)
          /\ fin.rules = [r \in DOMAIN fin.rules |-> fin.rules[r]]
          /\ \A r \in DOMAIN fin.rules :
                 fin.rules[r] = IF r = "R5" THEN n
                                ELSE IF r = "R6" THEN Cardinality(I) ELSE Cardinality(Ruled(rows, I, r))
        <3>1. CASE n = 0
            BY <2>1, <2>3, <2>4, <2>6, <2>7, <3>1
        <3>2. CASE n # 0
            BY <2>1, <2>3, <2>4, <2>6, <2>7, <3>2 DEF Put
        <3> QED
            BY <3>1, <3>2
    <2>9. ASSUME NEW r \in HeldOf(panels, rows, fires, I)
          PROVE  fin.rules[r] = Cardinality(HeldAt(panels, rows, fires, I, r))
        BY <2>5, <2>8 DEF n
    <2>10. fin.rules = X
        BY <2>8, <2>9
    <2> QED
        BY <2>10 DEF FinishedDay
<1>10. day.count = Cardinality(I)
    BY DEF DayOfRows
<1> HIDE DEF S, day, f, gone, flag, hide, withR6
<1>11. fin = [count |-> Cardinality(I), rules |-> fin.rules, suppressed |-> Cardinality(I \cap S),
              flagged |-> Cardinality({i \in I : Held(panels, rows, fires, i) \cap CORE # {}}),
              unseen |-> Cardinality(I \cap UnseenRows(panels, rows))]
    BY <1>2, <1>6, <1>7, <1>8, <1>10
<1> HIDE DEF fin
<1>12. fin = FinishedDay(panels, rows, fires, I)
    BY <1>9, <1>11 DEF FinishedDay, S
<1> QED
    BY <1>12 DEF fin, day

-------------------------------------------------------------------------------
\* An identity when it is finished.
FinishedDays(panels, rows, fires, I) ==
    [d \in DatesOf(rows, I) |-> FinishedDay(panels, rows, fires, On(rows, I, d))]

EvidenceOf(panels, rows, fires, I) ==
    [r \in HeldOf(panels, rows, fires, I) |->
        [matched_rows |-> Cardinality(HeldAt(panels, rows, fires, I, r)),
         sample |-> Min(HeldAt(panels, rows, fires, I, r))]]

FinishedReport(panels, rows, fires, I, facts) ==
    [representative |-> rows[Min(Best(rows, I))],
     row_count |-> Cardinality(I),
     first_seen |-> rows[Min(I)].at,
     last_seen |-> rows[Min(Best(rows, I))].at,
     core_rule_ids |-> HeldOf(panels, rows, fires, I) \cap CORE,
     readiness_rule_ids |-> ReadinessRules(rows[Min(Best(rows, I))]),
     evidence |-> EvidenceOf(panels, rows, fires, I),
     firing |-> facts,
     unseen |-> IF panels = <<>> THEN Null ELSE I \cap UnseenRows(panels, rows) # {}]

\* Days part the rows of an identity.
LEMMA SumOverDays ==
    ASSUME NEW rows, NEW I, NEW J \in SUBSET I, IsFiniteSet(I), NEW f,
           \A d \in DatesOf(rows, I) : f[d] = Cardinality(On(rows, J, d))
    PROVE  SumOf(f, DatesOf(rows, I)) = Cardinality(J)
<1> DEFINE key == [i \in I |-> rows[i].date]
           D == DatesOf(rows, I)
<1>1. D = {key[i] : i \in I}
    BY DEF DatesOf
<1>2. \A d \in D : Class(J, key, {d}) = On(rows, J, d)
    BY DEF Class, On
<1>3. Class(J, key, D) = J
    BY DEF Class, DatesOf
<1> HIDE DEF key, D
<1>4. IsFiniteSet(D)
    BY <1>1, Image
<1>5. IsFiniteSet(J)
    BY FS_Subset
<1>6. \A d \in D : f[d] = Cardinality(Class(J, key, {d}))
    BY <1>2 DEF D
<1>7. SumOf(f, D) = Cardinality(Class(J, key, D))
    BY <1>4, <1>5, <1>6, SumOfClasses
<1> QED
    BY <1>3, <1>7 DEF D

LEMMA OwnDays ==
    ASSUME NEW rows, NEW fires, NEW pattern, NEW I, Own(rows, fires, pattern, I),
           NEW d \in DatesOf(rows, I)
    PROVE  Own(rows, fires, pattern, On(rows, I, d))
<1>1. On(rows, I, d) \in SUBSET I /\ On(rows, I, d) # {}
    BY DEF On, DatesOf
<1>2. IsFiniteSet(On(rows, I, d))
    BY <1>1, FS_Subset DEF Own
<1> QED
    BY <1>1, <1>2 DEF Own

SameFirst(F, T) == (F = {} <=> T = {}) /\ (F # {} => Min(F) = Min(T))

\* The first suppressed row of an identity is the first of some suppressed signature.
LEMMA FirstsAre ==
    ASSUME NEW idn, NEW panels, NEW rows, NEW I \in SUBSET DOMAIN rows, I \subseteq Nat,
           idn.days = DaysOfRows(panels, rows, I),
           NEW active, active = ActiveLeaves(panels, rows),
           NEW F, F = SuppressedFirsts(idn, panels, active)
    PROVE  SameFirst(F, I \cap SuppressedRows(panels, rows))
<1> DEFINE S == SuppressedRows(panels, rows)
           Of(d, s) == Signed(panels, rows, On(rows, I, d), s)
<1>1. \A i \in I : IsSuppressed(panels, active, Signature(panels, rows[i])[1]) <=> i \in S
    BY GoneIs DEF Signature
<1>2. \A d \in DatesOf(rows, I) : \A s : Of(d, s) \in SUBSET I
    BY DEF Signed, On
<1>3. \A x : x \in F <=> \E d \in DatesOf(rows, I) :
                             \E s \in SignaturesOf(panels, rows, On(rows, I, d)) :
                                 IsSuppressed(panels, active, s[1]) /\ x = Min(Of(d, s))
    BY DEF SuppressedFirsts, DaysOfRows, DayOfRows
<1> HIDE DEF S
<1>4. ASSUME NEW x \in F PROVE x \in I \cap S
    <2>0. PICK d \in DatesOf(rows, I) :
              \E s \in SignaturesOf(panels, rows, On(rows, I, d)) :
                  IsSuppressed(panels, active, s[1]) /\ x = Min(Of(d, s))
        BY <1>3
    <2>1. PICK s \in SignaturesOf(panels, rows, On(rows, I, d)) :
              IsSuppressed(panels, active, s[1]) /\ x = Min(Of(d, s))
        BY <2>0
    <2>2. Of(d, s) # {} /\ Of(d, s) \in SUBSET I
        BY <1>2 DEF Signed, SignaturesOf
    <2>3. x \in Of(d, s)
        BY <2>1, <2>2, MinIs
    <2>4. x \in I /\ Signature(panels, rows[x]) = s
        BY <2>2, <2>3 DEF Signed
    <2> QED
        BY <1>1, <2>1, <2>4
<1>5. ASSUME NEW i \in I \cap S PROVE \E x \in F : x <= i
    <2> DEFINE d == rows[i].date
               s == Signature(panels, rows[i])
    <2>1. d \in DatesOf(rows, I) /\ i \in On(rows, I, d)
        BY DEF DatesOf, On
    <2>2. s \in SignaturesOf(panels, rows, On(rows, I, d)) /\ i \in Of(d, s)
        BY <2>1 DEF Signed, SignaturesOf
    <2>3. Min(Of(d, s)) <= i
        <3>1. Of(d, s) \in SUBSET Nat
            BY <1>2, <2>1
        <3> HIDE DEF Of
        <3> QED
            BY <2>2, <3>1, MinIs
    <2>4. Min(Of(d, s)) \in F
        BY <1>1, <1>3, <2>1, <2>2
    <2> QED
        BY <2>3, <2>4
<1>6. F = {} <=> I \cap S = {}
    BY <1>4, <1>5
<1>7. ASSUME F # {} PROVE Min(F) = Min(I \cap S)
    <2> DEFINE m == Min(I \cap S)
    <2>1. I \cap S # {} /\ I \cap S \in SUBSET Nat /\ F \in SUBSET Nat
        BY <1>4, <1>6, <1>7
    <2>2. m \in I \cap S /\ \A j \in I \cap S : m <= j
        BY <2>1, MinIs
    <2> HIDE DEF m
    <2>3. PICK x \in F : x <= m
        BY <1>5, <2>2
    <2>4. x = m
        <3>1. x \in I \cap S
            BY <1>4
        <3>2. m <= x /\ m \in Nat /\ x \in Nat
            BY <2>1, <2>2, <3>1
        <3> QED
            BY <2>3, <3>2
    <2>5. m \in F /\ \A y \in F : m <= y
        BY <1>4, <2>2, <2>3, <2>4
    <2>6. Min(F) = m
        BY <2>1, <2>5, MinIsThe
    <2> QED
        BY <2>6 DEF m
<1> QED
    BY <1>6, <1>7 DEF S, SameFirst

LEMMA RecordedAnew ==
    ASSUME NEW samples, NEW rule, rule \notin DOMAIN samples, NEW ordinal, NEW n \in Nat
    PROVE  Record(samples, rule, ordinal, n)
               = Put(samples, rule, [matched_rows |-> n, sample |-> ordinal])
<1>1. 0 + n = n
    OBVIOUS
<1> QED
    BY <1>1 DEF Record, At

\* What finish() adds to the samples.
WithFiring(rows, I, pattern) ==
    IF pattern = Null THEN SamplesOfRows(rows, I)
    ELSE Record(SamplesOfRows(rows, I), "R6", Min(I), Cardinality(I))
WithSuppression(samples, T) ==
    IF T = {} THEN samples ELSE Record(samples, "R5", Min(T), Cardinality(T))

LEMMA EvidenceIs ==
    ASSUME NEW panels, NEW rows, NEW fires, NEW pattern, NEW I, Own(rows, fires, pattern, I)
    PROVE  WithSuppression(WithFiring(rows, I, pattern), I \cap SuppressedRows(panels, rows))
               = EvidenceOf(panels, rows, fires, I)
<1> DEFINE S == SuppressedRows(panels, rows)
           E(T) == [matched_rows |-> Cardinality(T), sample |-> Min(T)]
           H == HeldOf(panels, rows, fires, I)
           was == SamplesOfRows(rows, I)
           withR6 == WithFiring(rows, I, pattern)
           samples == WithSuppression(withR6, I \cap S)
<1>1. IsFiniteSet(I) /\ IsFiniteSet(I \cap S)
    BY FS_Intersection DEF Own
<1>2. Cardinality(I) \in Nat /\ Cardinality(I \cap S) \in Nat
    BY <1>1, FS_CardinalityType
<1>3. "R5" \notin RulesOf(rows, I) /\ "R6" \notin RulesOf(rows, I)
    BY RuleNames DEF RulesOf
<1>4. /\ DOMAIN was = RulesOf(rows, I) /\ was = [r \in DOMAIN was |-> was[r]]
      /\ \A r \in DOMAIN was : was[r] = E(Ruled(rows, I, r))
    BY DEF SamplesOfRows
<1>5. H = RulesOf(rows, I) \cup (IF pattern # Null THEN {"R6"} ELSE {})
              \cup (IF I \cap S # {} THEN {"R5"} ELSE {})
    BY HeldIs
<1>6. \A r \in H : IF r = "R5" THEN HeldAt(panels, rows, fires, I, r) = I \cap S
                   ELSE IF r = "R6" THEN HeldAt(panels, rows, fires, I, r) = I
                   ELSE HeldAt(panels, rows, fires, I, r) = Ruled(rows, I, r)
    BY HeldIs
<1> HIDE DEF S, H, was, withR6, samples
<1>7. /\ DOMAIN withR6 = RulesOf(rows, I) \cup (IF pattern # Null THEN {"R6"} ELSE {})
      /\ withR6 = [r \in DOMAIN withR6 |-> withR6[r]]
      /\ \A r \in DOMAIN withR6 : withR6[r] = IF r = "R6" THEN E(I) ELSE E(Ruled(rows, I, r))
    <2>1. CASE pattern = Null
        BY <1>3, <1>4, <2>1 DEF was, withR6, WithFiring
    <2>2. CASE pattern # Null
        <3>1. withR6 = Record(was, "R6", Min(I), Cardinality(I)) /\ "R6" \notin DOMAIN was
            BY <1>3, <1>4, <2>2 DEF was, withR6, WithFiring
        <3>2. withR6 = Put(was, "R6", E(I))
            BY <1>2, <3>1, RecordedAnew
        <3> QED
            BY <1>3, <1>4, <2>2, <3>2 DEF Put
    <2> QED
        BY <2>1, <2>2
<1>8. /\ DOMAIN samples = H
      /\ samples = [r \in DOMAIN samples |-> samples[r]]
      /\ \A r \in DOMAIN samples :
             samples[r] = IF r = "R5" THEN E(I \cap S)
                          ELSE IF r = "R6" THEN E(I) ELSE E(Ruled(rows, I, r))
    <2>1. CASE I \cap S = {}
        <3>1. samples = withR6
            BY <2>1 DEF samples, WithSuppression
        <3> QED
            BY <1>3, <1>5, <1>7, <2>1, <3>1
    <2>2. CASE I \cap S # {}
        <3>1. samples = Record(withR6, "R5", Min(I \cap S), Cardinality(I \cap S))
            BY <2>2 DEF samples, WithSuppression
        <3>2. "R5" \notin DOMAIN withR6
            BY <1>3, <1>7
        <3>3. samples = Put(withR6, "R5", E(I \cap S))
            BY <1>2, <3>1, <3>2, RecordedAnew
        <3> QED
            BY <1>3, <1>5, <1>7, <2>2, <3>3 DEF Put
    <2> QED
        BY <2>1, <2>2
<1>9. \A r \in H : samples[r] = E(HeldAt(panels, rows, fires, I, r))
    BY <1>6, <1>8
<1>10. samples = [r \in H |-> E(HeldAt(panels, rows, fires, I, r))]
    BY <1>8, <1>9
<1> QED
    BY <1>10 DEF EvidenceOf, H, samples, withR6, S

\* The suppressed rows of an identity, and what its days say of them.
LEMMA SuppressedCount ==
    ASSUME NEW panels, NEW rows, NEW fires, NEW I, IsFiniteSet(I),
           NEW days, days = FinishedDays(panels, rows, fires, I)
    PROVE  SumOf([d \in DOMAIN days |-> days[d].suppressed], DOMAIN days)
               = Cardinality(I \cap SuppressedRows(panels, rows))
<1> DEFINE J == I \cap SuppressedRows(panels, rows)
           f == [d \in DOMAIN days |-> days[d].suppressed]
<1>1. DOMAIN days = DatesOf(rows, I)
    BY DEF FinishedDays
<1>2. ASSUME NEW d \in DatesOf(rows, I) PROVE f[d] = Cardinality(On(rows, J, d))
    <2>1. On(rows, J, d) = On(rows, I, d) \cap SuppressedRows(panels, rows)
        BY DEF On
    <2>2. f[d] = FinishedDay(panels, rows, fires, On(rows, I, d)).suppressed
        BY <1>1 DEF FinishedDays
    <2> QED
        BY <2>1, <2>2 DEF FinishedDay
<1>3. J \in SUBSET I
    OBVIOUS
<1> HIDE DEF J, f
<1>4. \A d \in DatesOf(rows, I) : f[d] = Cardinality(On(rows, J, d))
    BY <1>2
<1>5. SumOf(f, DatesOf(rows, I)) = Cardinality(J)
    BY <1>3, <1>4, SumOverDays
<1> QED
    BY <1>1, <1>5 DEF J, f

\* finish() makes of an identity's record what its rows say all at once.
LEMMA FinishIdentityIs ==
    ASSUME NEW panels, NEW rows, NEW idn, NEW I, IdentityIs(idn, panels, rows, I),
           I \subseteq Nat, NEW active, active = ActiveLeaves(panels, rows),
           NEW facts, facts = FinishFiring(idn.firing, idn.representative.provider),
           NEW fires, Own(rows, fires, facts.pattern, I)
    PROVE  FinishIdentity(idn, panels, active)
               = [days |-> FinishedDays(panels, rows, fires, I),
                  report |-> FinishedReport(panels, rows, fires, I, facts)]
<1> DEFINE S == SuppressedRows(panels, rows)
           D == DatesOf(rows, I)
           p == facts.pattern
           days == [d \in DOMAIN idn.days |-> FinishDay(idn.days[d], panels, active, p)]
           n == RowCount(idn)
           k == SumOf([d \in DOMAIN days |-> days[d].suppressed], DOMAIN days)
           F == SuppressedFirsts(idn, panels, active)
           withR6 == IF p = Null THEN idn.samples ELSE Record(idn.samples, "R6", idn.first_ordinal, n)
           samples == IF F = {} THEN withR6 ELSE Record(withR6, "R5", Min(F), k)
<1>1. I \in SUBSET DOMAIN rows /\ IsFiniteSet(I) /\ I # {}
    BY DEF Own
<1>2. /\ idn.days = DaysOfRows(panels, rows, I) /\ idn.samples = SamplesOfRows(rows, I)
      /\ idn.first_ordinal = Min(I) /\ idn.first_seen = rows[Min(I)].at
      /\ idn.representative = rows[Min(Best(rows, I))]
    BY DEF IdentityIs
<1>3. DOMAIN idn.days = D /\ \A d \in D : idn.days[d] = DayOfRows(panels, rows, On(rows, I, d))
    BY <1>2 DEF DaysOfRows
<1>4. ASSUME NEW d \in D
      PROVE  FinishDay(idn.days[d], panels, active, p) = FinishedDay(panels, rows, fires, On(rows, I, d))
    <2>1. Own(rows, fires, p, On(rows, I, d))
        BY OwnDays
    <2> HIDE DEF p
    <2> QED
        BY <1>3, <2>1, FinishDayIs
<1>5. days = FinishedDays(panels, rows, fires, I)
    BY <1>3, <1>4 DEF FinishedDays
<1>6. n = Cardinality(I)
    <2> DEFINE f == [d \in DOMAIN idn.days |-> idn.days[d].count]
    <2>1. \A d \in D : f[d] = Cardinality(On(rows, I, d))
        <3>1. \A d \in D : DayOfRows(panels, rows, On(rows, I, d)).count = Cardinality(On(rows, I, d))
            BY DEF DayOfRows
        <3> HIDE DEF D
        <3> QED
            BY <1>3, <3>1
    <2>2. n = SumOf(f, D)
        BY <1>3 DEF RowCount
    <2> HIDE DEF f
    <2> QED
        BY <1>1, <2>1, <2>2, SumOverDays
<1>7. k = Cardinality(I \cap S)
    BY <1>1, <1>5, SuppressedCount
<1>8. SameFirst(F, I \cap S)
    BY <1>1, <1>2, FirstsAre
<1> HIDE DEF n, k, F, days, D, p
<1>10. withR6 = WithFiring(rows, I, p)
    BY <1>2, <1>6 DEF WithFiring
<1>11. samples = WithSuppression(withR6, I \cap S)
    BY <1>7, <1>8 DEF WithSuppression, SameFirst
<1>12. samples = EvidenceOf(panels, rows, fires, I)
    <2> HIDE DEF withR6, samples
    <2>1. Own(rows, fires, p, I)
        BY DEF p
    <2>2. WithSuppression(WithFiring(rows, I, p), I \cap SuppressedRows(panels, rows))
              = EvidenceOf(panels, rows, fires, I)
        BY <2>1, EvidenceIs
    <2> QED
        BY <1>10, <1>11, <2>2 DEF S
<1>13. FinishIdentity(idn, panels, active) =
          [days |-> days,
           report |->
              [representative |-> idn.representative, row_count |-> n, first_seen |-> idn.first_seen,
               last_seen |-> idn.representative.at, core_rule_ids |-> DOMAIN samples \cap CORE,
               readiness_rule_ids |-> ReadinessRules(idn.representative), evidence |-> samples,
               firing |-> facts,
               unseen |-> IF panels = <<>> THEN Null ELSE \E d \in DOMAIN days : days[d].unseen > 0]]
    BY DEF FinishIdentity, days, n, k, F, p
<1>14. (\E d \in DOMAIN days : days[d].unseen > 0) <=> I \cap UnseenRows(panels, rows) # {}
    <2> DEFINE U == UnseenRows(panels, rows)
    <2>1. DOMAIN days = D /\ \A d \in D : days[d].unseen = Cardinality(On(rows, I, d) \cap U)
        BY <1>5 DEF FinishedDays, FinishedDay, D
    <2>2. \A d \in D : On(rows, I, d) \cap U \in SUBSET I
        BY DEF On
    <2> HIDE DEF U
    <2>3. \A d \in D : Cardinality(On(rows, I, d) \cap U) > 0 <=> On(rows, I, d) \cap U # {}
        <3>1. ASSUME NEW d \in D
              PROVE  Cardinality(On(rows, I, d) \cap U) > 0 <=> On(rows, I, d) \cap U # {}
            <4>1. IsFiniteSet(On(rows, I, d) \cap U)
                BY <1>1, <2>2, FS_Subset
            <4> QED
                BY <4>1, FS_EmptySet, FS_CardinalityType
        <3> QED
            BY <3>1
    <2>4. (\E d \in D : On(rows, I, d) \cap U # {}) <=> I \cap U # {}
        BY DEF On, D, DatesOf
    <2> QED
        BY <2>1, <2>3, <2>4 DEF U
<1>15. DOMAIN samples = HeldOf(panels, rows, fires, I)
    BY <1>12 DEF EvidenceOf
<1> HIDE DEF samples
<1>16. FinishedReport(panels, rows, fires, I, facts) =
          [representative |-> idn.representative, row_count |-> n, first_seen |-> idn.first_seen,
           last_seen |-> idn.representative.at, core_rule_ids |-> DOMAIN samples \cap CORE,
           readiness_rule_ids |-> ReadinessRules(idn.representative), evidence |-> samples,
           firing |-> facts,
           unseen |-> IF panels = <<>> THEN Null ELSE \E d \in DOMAIN days : days[d].unseen > 0]
    BY <1>2, <1>6, <1>12, <1>14, <1>15 DEF FinishedReport
<1> QED
    BY <1>5, <1>13, <1>16

-------------------------------------------------------------------------------
\* A finished analysis of some rows.
FiresIn(fin) == {id \in DOMAIN fin.identities : fin.identities[id].report.firing.pattern # Null}

IdentityFinished(idn, panels, rows, fires, I) ==
    /\ Best(rows, I) # {}
    /\ idn.days = FinishedDays(panels, rows, fires, I)
    /\ idn.report = FinishedReport(panels, rows, fires, I, idn.report.firing)

FinishedIs(fin, panels, rows) ==
    /\ DOMAIN fin.identities = Identities(rows)
    /\ \A id \in Identities(rows) :
           /\ IdentityFinished(fin.identities[id], panels, rows, FiresIn(fin), RowsOf(rows, id))
           /\ fin.identities[id].report.firing = FactsOf(rows, id)
    /\ fin.scopes = [d \in DatesOf(rows, DOMAIN rows) |-> ScopesOfRows(rows, RowsOn(rows, d))]
    /\ fin.unmeasured_leaves = UnmeasuredLeaves(panels, ActiveLeaves(panels, rows))
    /\ fin.unseen_unmeasured = UnseenUnmeasured(panels)

LEMMA FeedRows ==
    ASSUME NEW rows, IsFeed(rows)
    PROVE  /\ IsFiniteSet(DOMAIN rows) /\ DOMAIN rows \subseteq Nat
           /\ \A id \in Identities(rows) :
                  /\ RowsOf(rows, id) \in SUBSET DOMAIN rows
                  /\ IsFiniteSet(RowsOf(rows, id)) /\ RowsOf(rows, id) # {}
<1>1. IsFiniteSet(DOMAIN rows) /\ DOMAIN rows \subseteq Nat
    BY FS_Interval DEF IsFeed
<1> QED
    BY <1>1, FS_Subset DEF RowsOf, Identities

LEMMA FactsKept ==
    ASSUME NEW idn, NEW panels, NEW active
    PROVE  FinishIdentity(idn, panels, active).report.firing
               = FinishFiring(idn.firing, idn.representative.provider)
<1> DEFINE facts == FinishFiring(idn.firing, idn.representative.provider)
           days == [d \in DOMAIN idn.days |-> FinishDay(idn.days[d], panels, active, facts.pattern)]
           n == RowCount(idn)
           k == SumOf([d \in DOMAIN days |-> days[d].suppressed], DOMAIN days)
           F == SuppressedFirsts(idn, panels, active)
           withR6 == IF facts.pattern = Null THEN idn.samples
                     ELSE Record(idn.samples, "R6", idn.first_ordinal, n)
           samples == IF F = {} THEN withR6 ELSE Record(withR6, "R5", Min(F), k)
           core == DOMAIN samples \cap CORE
           unseen == IF panels = <<>> THEN Null ELSE \E d \in DOMAIN days : days[d].unseen > 0
<1> HIDE DEF facts, days, n, k, F, withR6, samples, core, unseen
<1>1. FinishIdentity(idn, panels, active) =
          [days |-> days,
           report |->
              [representative |-> idn.representative, row_count |-> n, first_seen |-> idn.first_seen,
               last_seen |-> idn.representative.at, core_rule_ids |-> core,
               readiness_rule_ids |-> ReadinessRules(idn.representative), evidence |-> samples,
               firing |-> facts, unseen |-> unseen]]
    BY DEF FinishIdentity, facts, days, n, k, F, withR6, samples, core, unseen
<1> QED
    BY <1>1 DEF facts

\* finish() is a function of the rows that were read.
LEMMA FinishIs ==
    ASSUME Null \notin Int, NEW acc, NEW panels, NEW rows, IsFeed(rows),
           AccumulatorIs(acc, panels, rows)
    PROVE  FinishedIs(Finish(acc, panels), panels, rows)
<1> DEFINE fin == Finish(acc, panels)
           active == ActiveLeaves(panels, rows)
           facts(id) == FinishFiring(acc.identities[id].firing, acc.identities[id].representative.provider)
           fires == FiresIn(fin)
<1>1. ActiveMask(acc.vis) = active
    BY ActiveIs
<1>2. DOMAIN fin.identities = Identities(rows) /\ DOMAIN acc.identities = Identities(rows)
    BY DEF Finish, AccumulatorIs
<1>3. \A id \in Identities(rows) :
          fin.identities[id] = FinishIdentity(acc.identities[id], panels, active)
    <2>1. fin.identities = [id \in DOMAIN acc.identities |->
                               FinishIdentity(acc.identities[id], panels, ActiveMask(acc.vis))]
        BY DEF Finish
    <2> HIDE DEF fin, active, facts, fires
    <2> TAKE id \in Identities(rows)
    <2>2. id \in DOMAIN acc.identities
        BY <1>2
    <2>3. fin.identities[id] = FinishIdentity(acc.identities[id], panels, ActiveMask(acc.vis))
        BY <2>1, <2>2
    <2> QED
        BY <1>1, <2>3
<1>4. \A id \in Identities(rows) : fin.identities[id].report.firing = facts(id)
    BY <1>3, FactsKept
<1>5. fires = {id \in Identities(rows) : facts(id).pattern # Null}
    BY <1>2, <1>4 DEF FiresIn
<1>6. ASSUME NEW id \in Identities(rows)
      PROVE  IdentityFinished(fin.identities[id], panels, rows, fires, RowsOf(rows, id))
    <2> DEFINE I == RowsOf(rows, id)
               idn == acc.identities[id]
    <2>1. I \in SUBSET DOMAIN rows /\ I \subseteq Nat /\ IsFiniteSet(I) /\ I # {}
        BY FeedRows
    <2>2. Own(rows, fires, facts(id).pattern, I)
        BY <1>5, <2>1 DEF Own, RowsOf
    <2>3. IdentityIs(idn, panels, rows, I)
        BY DEF AccumulatorIs
    <2>4. facts(id) = FinishFiring(idn.firing, idn.representative.provider)
        OBVIOUS
    <2> HIDE DEF fires, idn, I, active, facts
    <2>5. FinishIdentity(idn, panels, active)
              = [days |-> FinishedDays(panels, rows, fires, I),
                 report |-> FinishedReport(panels, rows, fires, I, facts(id))]
        <3>1. active = ActiveLeaves(panels, rows)
            BY DEF active
        <3> QED
            BY <2>1, <2>2, <2>3, <2>4, <3>1, FinishIdentityIs
    <2>6. fin.identities[id] = FinishIdentity(idn, panels, active)
        BY <1>3 DEF idn
    <2>7. fin.identities[id].report.firing = facts(id)
        BY <1>4
    <2> HIDE DEF fin
    <2> QED
        BY <2>3, <2>5, <2>6, <2>7 DEF IdentityFinished, IdentityIs, I
<1>7. /\ fin.scopes = [d \in DatesOf(rows, DOMAIN rows) |-> ScopesOfRows(rows, RowsOn(rows, d))]
      /\ fin.unmeasured_leaves = UnmeasuredLeaves(panels, active)
      /\ fin.unseen_unmeasured = UnseenUnmeasured(panels)
    BY <1>1 DEF Finish, AccumulatorIs
<1>8. ASSUME NEW id \in Identities(rows)
      PROVE  fin.identities[id].report.firing = FactsOf(rows, id)
    <2>1. PICK I : I = RowsOf(rows, id)
        OBVIOUS
    <2>2. PICK idn : idn = acc.identities[id]
        OBVIOUS
    <2>3. PICK a, provider : a = idn.firing /\ provider = idn.representative.provider
        OBVIOUS
    <2>4. FiringOf(a, rows, I) /\ IdentityIs(idn, panels, rows, I)
        BY <2>1, <2>2, <2>3 DEF AccumulatorIs
    <2>5. I \in SUBSET Nat /\ IsFiniteSet(I) /\ I # {} /\ IsTimed(rows, I)
        <3>1. I \in SUBSET DOMAIN rows /\ IsFiniteSet(I) /\ I # {} /\ DOMAIN rows \subseteq Nat
            BY <2>1, FeedRows
        <3> QED
            BY <3>1 DEF IsFeed, IsTimed
    <2>6. FinishFiring(a, provider) = Facts(Ordered(rows, I), provider)
        BY <2>4, <2>5, FactsAre
    <2>7. idn.representative = Representative(rows, id)
        BY <2>1, <2>4 DEF IdentityIs, Representative, Best
    <2>8. fin.identities[id].report.firing = FinishFiring(a, provider)
        BY <1>4, <2>2, <2>3
    <2> HIDE DEF fin
    <2> QED
        BY <2>1, <2>3, <2>6, <2>7, <2>8 DEF FactsOf
<1> HIDE DEF fin
<1> QED
    BY <1>2, <1>6, <1>7, <1>8 DEF FinishedIs, fin

-------------------------------------------------------------------------------
\* The daily figures: the identities of a day part its rows.
RowsIn(rows, T, P) == {i \in T : rows[i].identity \in P}

LEMMA DayRows ==
    ASSUME NEW rows, IsFeed(rows), NEW d
    PROVE  RowsOn(rows, d) \in SUBSET DOMAIN rows /\ IsFiniteSet(RowsOn(rows, d))
BY FeedRows, FS_Subset DEF RowsOn

LEMMA PresentAre ==
    ASSUME NEW fin, NEW panels, NEW rows, IsFeed(rows), FinishedIs(fin, panels, rows), NEW d
    PROVE  /\ PresentOn(fin, d) = {rows[i].identity : i \in RowsOn(rows, d)}
           /\ IsFiniteSet(PresentOn(fin, d))
           /\ RowsIn(rows, RowsOn(rows, d), PresentOn(fin, d)) = RowsOn(rows, d)
           /\ PresentOn(fin, d) \in SUBSET Identities(rows)
<1> DEFINE P == {rows[i].identity : i \in RowsOn(rows, d)}
<1>1. \A id \in Identities(rows) :
          DOMAIN fin.identities[id].days = DatesOf(rows, RowsOf(rows, id))
    BY DEF FinishedIs, IdentityFinished, FinishedDays
<1>2. PresentOn(fin, d) = {id \in Identities(rows) : d \in DatesOf(rows, RowsOf(rows, id))}
    BY <1>1 DEF PresentOn, FinishedIs
<1>3. {id \in Identities(rows) : d \in DatesOf(rows, RowsOf(rows, id))} = P
    BY DEF DatesOf, RowsOf, RowsOn, Identities
<1>4. IsFiniteSet(P)
    <2> DEFINE key == [i \in RowsOn(rows, d) |-> rows[i].identity]
    <2>1. P = {key[i] : i \in RowsOn(rows, d)}
        OBVIOUS
    <2> HIDE DEF key, P
    <2> QED
        BY <2>1, DayRows, Image
<1>5. RowsIn(rows, RowsOn(rows, d), P) = RowsOn(rows, d)
    BY DEF RowsIn
<1> QED
    BY <1>2, <1>3, <1>4, <1>5

LEMMA DayIs ==
    ASSUME NEW fin, NEW panels, NEW rows, IsFeed(rows), FinishedIs(fin, panels, rows), NEW d,
           NEW id \in PresentOn(fin, d)
    PROVE  DayOf(fin, id, d)
               = FinishedDay(panels, rows, FiresIn(fin), RowsIn(rows, RowsOn(rows, d), {id}))
<1>1. id \in Identities(rows) /\ d \in DOMAIN fin.identities[id].days
    BY PresentAre DEF PresentOn
<1>2. fin.identities[id].days = FinishedDays(panels, rows, FiresIn(fin), RowsOf(rows, id))
    BY <1>1 DEF FinishedIs, IdentityFinished
<1>3. fin.identities[id].days[d]
          = FinishedDay(panels, rows, FiresIn(fin), On(rows, RowsOf(rows, id), d))
    BY <1>1, <1>2 DEF FinishedDays
<1>4. On(rows, RowsOf(rows, id), d) = RowsIn(rows, RowsOn(rows, d), {id})
    BY DEF On, RowsOf, RowsIn, RowsOn
<1> QED
    BY <1>3, <1>4 DEF DayOf

\* A sum over identities counts rows.
LEMMA SumOverIdentities ==
    ASSUME NEW rows, NEW T, IsFiniteSet(T), NEW P, IsFiniteSet(P), NEW f,
           \A id \in P : f[id] = Cardinality(RowsIn(rows, T, {id}))
    PROVE  SumOf(f, P) = Cardinality(RowsIn(rows, T, P))
<1> DEFINE key == [i \in T |-> rows[i].identity]
<1>1. \A U : RowsIn(rows, T, U) = Class(T, key, U)
    BY DEF RowsIn, Class
<1> HIDE DEF key
<1>2. \A id \in P : f[id] = Cardinality(Class(T, key, {id}))
    BY <1>1
<1>3. SumOf(f, P) = Cardinality(Class(T, key, P))
    BY <1>2, SumOfClasses
<1> QED
    BY <1>1, <1>3

LEMMA VolumeIs ==
    ASSUME NEW fin, NEW panels, NEW rows, IsFeed(rows), FinishedIs(fin, panels, rows), NEW d
    PROVE  StreamVolume(fin, d) = DailyVolume(rows, d)
<1> DEFINE J == RowsOn(rows, d)
           day == At(fin.scopes, d, EmptyScopes)
           rowSet == {rows[i] : i \in J}
           noded == {r \in rowSet : ~Blank(r.node_name)}
<1>1. day = ScopesOfRows(rows, J)
    <2>1. fin.scopes = [e \in DatesOf(rows, DOMAIN rows) |-> ScopesOfRows(rows, RowsOn(rows, e))]
        BY DEF FinishedIs
    <2>2. CASE d \in DatesOf(rows, DOMAIN rows)
        BY <2>1, <2>2 DEF At
    <2>3. CASE d \notin DatesOf(rows, DOMAIN rows)
        <3>1. J = {}
            BY <2>3 DEF DatesOf, RowsOn
        <3>2. ScopesOfRows(rows, {}) = EmptyScopes
            BY FS_EmptySet DEF ScopesOfRows, EmptyScopes
        <3>3. day = EmptyScopes
            BY <2>1, <2>3 DEF At
        <3> HIDE DEF J, day
        <3> QED
            BY <3>1, <3>2, <3>3
    <2> QED
        BY <2>2, <2>3
<1> HIDE DEF day
<1>2. day.count = Cardinality(J)
    BY <1>1 DEF ScopesOfRows
<1>3. PresentOn(fin, d) = {r.identity : r \in rowSet}
    BY PresentAre
<1>4. day.scopes = {Scope(r) : r \in rowSet}
    BY <1>1 DEF ScopesOfRows
<1>5. day.nodes = {<<Scope(r), r.node_name>> : r \in noded}
    BY <1>1 DEF ScopesOfRows
<1>6. {n[1] : n \in day.nodes} = {Scope(r) : r \in noded}
    <2> HIDE DEF noded
    <2>1. \A n \in day.nodes : \E r \in noded : n[1] = Scope(r)
        BY <1>5
    <2>2. ASSUME NEW r \in noded PROVE \E n \in day.nodes : n[1] = Scope(r)
        <3>1. <<Scope(r), r.node_name>> \in day.nodes
            BY <1>5
        <3>2. <<Scope(r), r.node_name>>[1] = Scope(r)
            OBVIOUS
        <3> QED
            BY <3>1, <3>2
    <2> QED
        BY <2>1, <2>2
<1> HIDE DEF noded, rowSet, J
<1>7. StreamVolume(fin, d) =
          [alerts |-> day.count, distinct_alerts |-> Cardinality(PresentOn(fin, d)),
           node_name_numerator |-> Cardinality(day.nodes),
           node_name_denominator |-> Cardinality({n[1] : n \in day.nodes}),
           key_inflation_numerator |-> Cardinality(PresentOn(fin, d)),
           key_inflation_denominator |-> Cardinality(day.scopes)]
    BY DEF StreamVolume, day
<1>8. DailyVolume(rows, d) =
          [alerts |-> Cardinality(J), distinct_alerts |-> Cardinality({r.identity : r \in rowSet}),
           node_name_numerator |-> Cardinality({<<Scope(r), r.node_name>> : r \in noded}),
           node_name_denominator |-> Cardinality({Scope(r) : r \in noded}),
           key_inflation_numerator |-> Cardinality({r.identity : r \in rowSet}),
           key_inflation_denominator |-> Cardinality({Scope(r) : r \in rowSet})]
    BY DEF DailyVolume, noded, rowSet, J
<1> QED
    BY <1>2, <1>3, <1>4, <1>5, <1>6, <1>7, <1>8

\* What every row's findings are, given what R6 made of the identities.
HeldBy(panels, rows, fires) == [i \in DOMAIN rows |-> Held(panels, rows, fires, i)]
FlaggedOn(panels, rows, fires, d) ==
    {i \in RowsOn(rows, d) : Held(panels, rows, fires, i) \cap CORE # {}}

Parts(rows, d, P) ==
    /\ IsFiniteSet(P) /\ IsFiniteSet(RowsOn(rows, d))
    /\ RowsIn(rows, RowsOn(rows, d), P) = RowsOn(rows, d)

CountsRows(rows, d, P, T, f) ==
    /\ Parts(rows, d, P) /\ T \subseteq RowsOn(rows, d)
    /\ \A id \in P : f[id] = Cardinality(RowsIn(rows, T, {id}))

LEMMA SumOverParts ==
    ASSUME NEW rows, NEW d, NEW P, NEW T, NEW f, CountsRows(rows, d, P, T, f)
    PROVE  SumOf(f, P) = Cardinality(T)
<1> USE DEF CountsRows
<1>1. IsFiniteSet(P) /\ IsFiniteSet(T)
    BY FS_Subset DEF Parts
<1>2. RowsIn(rows, T, P) = T
    BY DEF RowsIn, Parts
<1>3. SumOf(f, P) = Cardinality(RowsIn(rows, T, P))
    BY <1>1, SumOverIdentities
<1> QED
    BY <1>2, <1>3

LEMMA PresentPart ==
    ASSUME NEW fin, NEW panels, NEW rows, IsFeed(rows), FinishedIs(fin, panels, rows), NEW d
    PROVE  Parts(rows, d, PresentOn(fin, d))
BY PresentAre, DayRows DEF Parts

LEMMA FlaggedSum ==
    ASSUME NEW fin, NEW panels, NEW rows, IsFeed(rows), FinishedIs(fin, panels, rows), NEW d
    PROVE  DaySum(fin, d, LAMBDA day : day.flagged)
               = Cardinality(FlaggedOn(panels, rows, FiresIn(fin), d))
<1> DEFINE P == PresentOn(fin, d)
           T == FlaggedOn(panels, rows, FiresIn(fin), d)
           f == [id \in P |-> DayOf(fin, id, d).flagged]
<1>1. T \in SUBSET RowsOn(rows, d)
    BY DEF FlaggedOn
<1>2. ASSUME NEW id \in P PROVE f[id] = Cardinality(RowsIn(rows, T, {id}))
    <2>1. DayOf(fin, id, d).flagged
              = Cardinality({i \in RowsIn(rows, RowsOn(rows, d), {id}) :
                                Held(panels, rows, FiresIn(fin), i) \cap CORE # {}})
        <3> DEFINE I == RowsIn(rows, RowsOn(rows, d), {id})
        <3>1. DayOf(fin, id, d) = FinishedDay(panels, rows, FiresIn(fin), I)
            BY DayIs
        <3> HIDE DEF I
        <3>2. FinishedDay(panels, rows, FiresIn(fin), I).flagged
                  = Cardinality({i \in I :
                                Held(panels, rows, FiresIn(fin), i) \cap CORE # {}})
            BY DEF FinishedDay
        <3> QED
            BY <3>1, <3>2 DEF I
    <2>2. RowsIn(rows, T, {id})
              = {i \in RowsIn(rows, RowsOn(rows, d), {id}) :
                    Held(panels, rows, FiresIn(fin), i) \cap CORE # {}}
        BY DEF RowsIn, FlaggedOn
    <2>3. f[id] = DayOf(fin, id, d).flagged
        OBVIOUS
    <2> HIDE DEF T, f
    <2> QED
        BY <2>1, <2>2, <2>3
<1>3. DaySum(fin, d, LAMBDA day : day.flagged) = SumOf(f, P)
    BY DEF DaySum
<1> HIDE DEF f, T
<1>4. Parts(rows, d, P)
    BY PresentPart
<1> HIDE DEF P
<1>5. CountsRows(rows, d, P, T, f)
    BY <1>1, <1>2, <1>4 DEF CountsRows
<1>6. SumOf(f, P) = Cardinality(T)
    BY <1>5, SumOverParts
<1> QED
    BY <1>3, <1>6 DEF T

LEMMA SuppressedSum ==
    ASSUME NEW fin, NEW panels, NEW rows, IsFeed(rows), FinishedIs(fin, panels, rows), NEW d
    PROVE  DaySum(fin, d, LAMBDA day : day.suppressed)
               = Cardinality(SuppressedRows(panels, rows) \cap RowsOn(rows, d))
<1> DEFINE P == PresentOn(fin, d)
           T == SuppressedRows(panels, rows) \cap RowsOn(rows, d)
           f == [id \in P |-> DayOf(fin, id, d).suppressed]
<1>1. T \in SUBSET RowsOn(rows, d)
    OBVIOUS
<1>2. ASSUME NEW id \in P PROVE f[id] = Cardinality(RowsIn(rows, T, {id}))
    <2>1. DayOf(fin, id, d).suppressed
              = Cardinality(RowsIn(rows, RowsOn(rows, d), {id}) \cap SuppressedRows(panels, rows))
        <3> DEFINE I == RowsIn(rows, RowsOn(rows, d), {id})
        <3>1. DayOf(fin, id, d) = FinishedDay(panels, rows, FiresIn(fin), I)
            BY DayIs
        <3> HIDE DEF I
        <3>2. FinishedDay(panels, rows, FiresIn(fin), I).suppressed
                  = Cardinality(I \cap SuppressedRows(panels, rows))
            BY DEF FinishedDay
        <3> QED
            BY <3>1, <3>2 DEF I
    <2>2. RowsIn(rows, T, {id}) = RowsIn(rows, RowsOn(rows, d), {id}) \cap SuppressedRows(panels, rows)
        BY DEF RowsIn
    <2>3. f[id] = DayOf(fin, id, d).suppressed
        OBVIOUS
    <2> HIDE DEF T, f
    <2> QED
        BY <2>1, <2>2, <2>3
<1>3. DaySum(fin, d, LAMBDA day : day.suppressed) = SumOf(f, P)
    BY DEF DaySum
<1> HIDE DEF f, T
<1>4. Parts(rows, d, P)
    BY PresentPart
<1> HIDE DEF P
<1>5. CountsRows(rows, d, P, T, f)
    BY <1>1, <1>2, <1>4 DEF CountsRows
<1>6. SumOf(f, P) = Cardinality(T)
    BY <1>5, SumOverParts
<1> QED
    BY <1>3, <1>6 DEF T

LEMMA UnseenSum ==
    ASSUME NEW fin, NEW panels, NEW rows, IsFeed(rows), FinishedIs(fin, panels, rows), NEW d
    PROVE  DaySum(fin, d, LAMBDA day : day.unseen)
               = Cardinality(UnseenRows(panels, rows) \cap RowsOn(rows, d))
<1> DEFINE P == PresentOn(fin, d)
           T == UnseenRows(panels, rows) \cap RowsOn(rows, d)
           f == [id \in P |-> DayOf(fin, id, d).unseen]
<1>1. T \in SUBSET RowsOn(rows, d)
    OBVIOUS
<1>2. ASSUME NEW id \in P PROVE f[id] = Cardinality(RowsIn(rows, T, {id}))
    <2>1. DayOf(fin, id, d).unseen
              = Cardinality(RowsIn(rows, RowsOn(rows, d), {id}) \cap UnseenRows(panels, rows))
        <3> DEFINE I == RowsIn(rows, RowsOn(rows, d), {id})
        <3>1. DayOf(fin, id, d) = FinishedDay(panels, rows, FiresIn(fin), I)
            BY DayIs
        <3> HIDE DEF I
        <3>2. FinishedDay(panels, rows, FiresIn(fin), I).unseen
                  = Cardinality(I \cap UnseenRows(panels, rows))
            BY DEF FinishedDay
        <3> QED
            BY <3>1, <3>2 DEF I
    <2>2. RowsIn(rows, T, {id}) = RowsIn(rows, RowsOn(rows, d), {id}) \cap UnseenRows(panels, rows)
        BY DEF RowsIn
    <2>3. f[id] = DayOf(fin, id, d).unseen
        OBVIOUS
    <2> HIDE DEF T, f
    <2> QED
        BY <2>1, <2>2, <2>3
<1>3. DaySum(fin, d, LAMBDA day : day.unseen) = SumOf(f, P)
    BY DEF DaySum
<1> HIDE DEF f, T
<1>4. Parts(rows, d, P)
    BY PresentPart
<1> HIDE DEF P
<1>5. CountsRows(rows, d, P, T, f)
    BY <1>1, <1>2, <1>4 DEF CountsRows
<1>6. SumOf(f, P) = Cardinality(T)
    BY <1>5, SumOverParts
<1> QED
    BY <1>3, <1>6 DEF T

\* The rows and the identities of a day that something holds of.
IdentitiesOf(rows, T) == {rows[i].identity : i \in T}
Touched(rows, P, T) == {id \in P : RowsIn(rows, T, {id}) # {}}

LEMMA TouchedIdentities ==
    ASSUME NEW rows, NEW J, NEW T, T \subseteq J, NEW P, P = IdentitiesOf(rows, J)
    PROVE  Touched(rows, P, T) = IdentitiesOf(rows, T)
BY DEF RowsIn, Touched, IdentitiesOf

LEMMA HeldSomewhere ==
    ASSUME NEW panels, NEW rows, NEW fires, NEW I, NEW r
    PROVE  r \in HeldOf(panels, rows, fires, I) <=> HeldAt(panels, rows, fires, I, r) # {}
BY DEF HeldOf, HeldAt

LEMMA SomeCounted ==
    ASSUME NEW S, IsFiniteSet(S) PROVE Cardinality(S) > 0 <=> S # {}
BY FS_EmptySet, FS_CardinalityType

LEMMA FlaggedIs ==
    ASSUME NEW fin, NEW panels, NEW rows, IsFeed(rows), FinishedIs(fin, panels, rows), NEW d
    PROVE  StreamFlagged(fin, d) = DailyFlagged(rows, HeldBy(panels, rows, FiresIn(fin)), d)
<1> DEFINE P == PresentOn(fin, d)
           J == RowsOn(rows, d)
           fires == FiresIn(fin)
           T == FlaggedOn(panels, rows, fires, d)
           touched == {id \in P : DayOf(fin, id, d).flagged > 0}
<1>1. T \in SUBSET J /\ J \in SUBSET DOMAIN rows /\ IsFiniteSet(J) /\ IsFiniteSet(T)
    BY DayRows, FS_Subset DEF FlaggedOn
<1>2. P = IdentitiesOf(rows, J)
    BY PresentAre DEF IdentitiesOf
<1>3. ASSUME NEW id \in P
      PROVE  DayOf(fin, id, d).flagged > 0 <=> RowsIn(rows, T, {id}) # {}
    <2> DEFINE I == RowsIn(rows, J, {id})
    <2>1. DayOf(fin, id, d) = FinishedDay(panels, rows, fires, I)
        BY DayIs
    <2>2. RowsIn(rows, T, {id}) = {i \in I : Held(panels, rows, fires, i) \cap CORE # {}}
        BY DEF RowsIn, FlaggedOn
    <2> HIDE DEF I, fires
    <2>3. DayOf(fin, id, d).flagged = Cardinality(RowsIn(rows, T, {id}))
        <3>1. FinishedDay(panels, rows, fires, I).flagged
                  = Cardinality({i \in I : Held(panels, rows, fires, i) \cap CORE # {}})
            BY DEF FinishedDay
        <3> HIDE DEF T
        <3> QED
            BY <2>1, <2>2, <3>1
    <2>4. IsFiniteSet(RowsIn(rows, T, {id}))
        BY <1>1, FS_Subset DEF RowsIn
    <2> HIDE DEF T
    <2> QED
        BY <2>3, <2>4, SomeCounted
<1>4. touched = IdentitiesOf(rows, T)
    <2> HIDE DEF T, J, P
    <2>1. touched = Touched(rows, P, T)
        BY <1>3 DEF Touched
    <2> QED
        BY <1>1, <1>2, <2>1, TouchedIdentities
<1>5. StreamFlagged(fin, d) = <<Cardinality(T), Cardinality(touched)>>
    <2>1. StreamFlagged(fin, d) = <<DaySum(fin, d, LAMBDA day : day.flagged), Cardinality(touched)>>
        BY DEF StreamFlagged
    <2> QED
        BY <2>1, FlaggedSum
<1>6. DailyFlagged(rows, HeldBy(panels, rows, fires), d) = Tally(rows, T)
    <2> DEFINE g == HeldBy(panels, rows, fires)
    <2>1. T = {i \in RowsOn(rows, d) : g[i] \cap CORE # {}}
        BY <1>1 DEF HeldBy, FlaggedOn
    <2> HIDE DEF g, T
    <2> QED
        BY <2>1 DEF DailyFlagged, g
<1> HIDE DEF T, touched
<1> QED
    BY <1>4, <1>5, <1>6 DEF Tally, IdentitiesOf

LEMMA RulesAre ==
    ASSUME NEW fin, NEW panels, NEW rows, IsFeed(rows), FinishedIs(fin, panels, rows), NEW d
    PROVE  StreamRules(fin, d) = DailyRules(rows, HeldBy(panels, rows, FiresIn(fin)), d)
<1> DEFINE P == PresentOn(fin, d)
           J == RowsOn(rows, d)
           fires == FiresIn(fin)
           g == HeldBy(panels, rows, fires)
           T(r) == {i \in J : r \in g[i]}
           I(id) == RowsIn(rows, J, {id})
           matched(r) == {id \in P : r \in DOMAIN DayOf(fin, id, d).rules}
           R == UNION {DOMAIN DayOf(fin, id, d).rules : id \in P}
           f(r) == [id \in matched(r) |-> DayOf(fin, id, d).rules[r]]
<1>1. J \in SUBSET DOMAIN rows /\ IsFiniteSet(J)
    BY DayRows
<1>2. P = IdentitiesOf(rows, J) /\ IsFiniteSet(P)
    BY PresentAre DEF IdentitiesOf
<1>3. \A i \in J : g[i] = Held(panels, rows, fires, i)
    BY <1>1 DEF HeldBy
<1>4. ASSUME NEW id \in P
      PROVE  DayOf(fin, id, d).rules = [r \in HeldOf(panels, rows, fires, I(id)) |->
                                           Cardinality(HeldAt(panels, rows, fires, I(id), r))]
    <2>1. DayOf(fin, id, d) = FinishedDay(panels, rows, fires, I(id))
        BY DayIs
    <2> HIDE DEF I, fires
    <2> QED
        BY <2>1 DEF FinishedDay
<1> HIDE DEF fires, g
<1>5. \A id \in P : \A r : RowsIn(rows, T(r), {id}) = HeldAt(panels, rows, fires, I(id), r)
    BY <1>3 DEF RowsIn, HeldAt
<1>6. ASSUME NEW id \in P, NEW r
      PROVE  r \in HeldOf(panels, rows, fires, I(id)) <=> RowsIn(rows, T(r), {id}) # {}
    <2>1. RowsIn(rows, T(r), {id}) = HeldAt(panels, rows, fires, I(id), r)
        BY <1>5
    <2> HIDE DEF I, T
    <2> QED
        BY <2>1, HeldSomewhere
<1>7. \A id \in P : DOMAIN DayOf(fin, id, d).rules = HeldOf(panels, rows, fires, I(id))
    BY <1>4
<1>8. ASSUME NEW r
      PROVE  /\ matched(r) = IdentitiesOf(rows, T(r))
             /\ IsFiniteSet(T(r)) /\ IsFiniteSet(matched(r))
             /\ SumOf(f(r), matched(r)) = Cardinality(T(r))
    <2>1. matched(r) = Touched(rows, P, T(r))
        BY <1>6, <1>7 DEF Touched
    <2>2. T(r) \in SUBSET J /\ IsFiniteSet(T(r)) /\ IsFiniteSet(matched(r))
        BY <1>1, <1>2, FS_Subset
    <2>3. matched(r) = IdentitiesOf(rows, T(r))
        <3> HIDE DEF T, J, P, matched
        <3> QED
            BY <1>1, <1>2, <2>1, <2>2, TouchedIdentities
    <2>4. \A id \in matched(r) : f(r)[id] = Cardinality(RowsIn(rows, T(r), {id}))
        <3> SUFFICES ASSUME NEW id \in matched(r)
                     PROVE  f(r)[id] = Cardinality(RowsIn(rows, T(r), {id}))
            OBVIOUS
        <3>1. id \in P /\ r \in HeldOf(panels, rows, fires, I(id))
            BY <1>7
        <3>2. DayOf(fin, id, d).rules[r] = Cardinality(HeldAt(panels, rows, fires, I(id), r))
            BY <1>4, <3>1
        <3>3. RowsIn(rows, T(r), {id}) = HeldAt(panels, rows, fires, I(id), r)
            BY <1>5, <3>1
        <3>4. f(r)[id] = DayOf(fin, id, d).rules[r]
            OBVIOUS
        <3> HIDE DEF T, I, f
        <3> QED
            BY <3>2, <3>3, <3>4
    <2>5. RowsIn(rows, T(r), matched(r)) = T(r)
        BY <2>3 DEF RowsIn, IdentitiesOf
    <2>6. SumOf(f(r), matched(r)) = Cardinality(RowsIn(rows, T(r), matched(r)))
        <3> HIDE DEF T, f, matched
        <3> QED
            BY <2>2, <2>4, SumOverIdentities
    <2> QED
        BY <2>2, <2>3, <2>5, <2>6
<1>9. R = UNION {g[i] : i \in J}
    BY <1>1, <1>2, <1>3, <1>7 DEF HeldOf, RowsIn, IdentitiesOf
<1>10. StreamRules(fin, d) = [r \in R |-> <<SumOf(f(r), matched(r)), Cardinality(matched(r))>>]
    BY DEF StreamRules
<1>11. DailyRules(rows, g, d) = [r \in UNION {g[i] : i \in J} |-> Tally(rows, T(r))]
    BY DEF DailyRules
<1>12. \A r : <<SumOf(f(r), matched(r)), Cardinality(matched(r))>> = Tally(rows, T(r))
    <2> TAKE r
    <2>1. matched(r) = IdentitiesOf(rows, T(r)) /\ SumOf(f(r), matched(r)) = Cardinality(T(r))
        BY <1>8
    <2> HIDE DEF matched, f, T
    <2> QED
        BY <2>1 DEF Tally, IdentitiesOf
<1> HIDE DEF R, f, matched, T
<1> QED
    BY <1>9, <1>10, <1>11, <1>12 DEF g, fires

-------------------------------------------------------------------------------
\* What is reported of an identity.
LEMMA SeenIs ==
    ASSUME NEW rows, IsFeed(rows), InOrder(rows), NEW I \in SUBSET DOMAIN rows, I # {},
           Best(rows, I) # {}, NEW at, at = {rows[i].at : i \in I}
    PROVE  rows[Min(I)].at = Min(at) /\ rows[Min(Best(rows, I))].at = Max(at)
<1>1. I \in SUBSET Nat /\ Best(rows, I) \in SUBSET Nat /\ at \in SUBSET Int
    BY DEF IsFeed, IsTimed, Best
<1>2. Min(I) \in I /\ \A i \in I : Min(I) <= i
    BY <1>1, MinIs
<1>3. Min(Best(rows, I)) \in Best(rows, I)
    BY <1>1, MinIs
<1> DEFINE f == Min(I)
           b == Min(Best(rows, I))
<1>4. f \in I /\ b \in I
    BY <1>2, <1>3 DEF Best
<1>5. \A t \in at : rows[f].at <= t
    BY <1>2 DEF InOrder
<1>6. \A t \in at : t <= rows[b].at
    BY <1>3, <1>4 DEF Best, IsFeed, IsTimed
<1> HIDE DEF f, b
<1>7. rows[f].at \in at /\ rows[b].at \in at
    BY <1>4
<1>8. rows[f].at = Min(at)
    BY <1>1, <1>5, <1>7, LeastIsMin
<1>9. rows[b].at = Max(at)
    BY <1>1, <1>6, <1>7, GreatestIsMax
<1> QED
    BY <1>8, <1>9 DEF f, b

LEMMA FindingsAre ==
    ASSUME NEW panels, NEW rows, NEW fires,
           fires = {id \in Identities(rows) : FactsOf(rows, id).pattern # Null}
    PROVE  RowFindings(rows, panels) = HeldBy(panels, rows, fires)
BY DEF RowFindings, HeldBy, Held, RowRules

LEMMA ReportIs ==
    ASSUME NEW fin, NEW panels, NEW rows, IsFeed(rows), InOrder(rows),
           FinishedIs(fin, panels, rows), NEW id \in Identities(rows)
    PROVE  fin.identities[id].report
               = IdentityReport(rows, panels, HeldBy(panels, rows, FiresIn(fin)), id)
<1> DEFINE I == RowsOf(rows, id)
           at == {rows[i].at : i \in I}
           fires == FiresIn(fin)
           g == HeldBy(panels, rows, fires)
           rep == rows[Min(Best(rows, I))]
<1>1. I \in SUBSET DOMAIN rows /\ I # {}
    BY FeedRows
<1>2. Best(rows, I) # {} /\ fin.identities[id].report
          = FinishedReport(panels, rows, fires, I, FactsOf(rows, id))
    BY DEF FinishedIs, IdentityFinished
<1>3. rows[Min(I)].at = Min(at) /\ rep.at = Max(at)
    BY <1>1, <1>2, SeenIs
<1>4. rep = Representative(rows, id)
    BY DEF Representative, Best
<1>5. \A i \in I : g[i] = Held(panels, rows, fires, i)
    BY <1>1 DEF HeldBy
<1> HIDE DEF I, at, fires, g, rep
<1>6. UNION {g[i] : i \in I} = HeldOf(panels, rows, fires, I)
    BY <1>5 DEF HeldOf
<1>7. \A r : {i \in I : r \in g[i]} = HeldAt(panels, rows, fires, I, r)
    BY <1>5 DEF HeldAt
<1>8. Evidence(rows, g, id) = EvidenceOf(panels, rows, fires, I)
    <2>1. Evidence(rows, g, id)
              = [r \in UNION {g[i] : i \in I} |->
                    [matched_rows |-> Cardinality({i \in I : r \in g[i]}),
                     sample |-> Min({i \in I : r \in g[i]})]]
        BY DEF Evidence, I
    <2> QED
        BY <1>6, <1>7, <2>1 DEF EvidenceOf
<1>9. IdentityReport(rows, panels, g, id) =
          [representative |-> rep,
           row_count |-> Cardinality(I),
           first_seen |-> Min(at),
           last_seen |-> Max(at),
           core_rule_ids |-> CORE \cap HeldOf(panels, rows, fires, I),
           readiness_rule_ids |-> ReadinessRules(rep),
           evidence |-> EvidenceOf(panels, rows, fires, I),
           firing |-> FactsOf(rows, id),
           unseen |-> IF panels = <<>> THEN Null ELSE I \cap UnseenRows(panels, rows) # {}]
    BY <1>4, <1>6, <1>8 DEF IdentityReport, I, at
<1>10. FinishedReport(panels, rows, fires, I, FactsOf(rows, id)) =
          [representative |-> rep,
           row_count |-> Cardinality(I),
           first_seen |-> Min(at),
           last_seen |-> Max(at),
           core_rule_ids |-> CORE \cap HeldOf(panels, rows, fires, I),
           readiness_rule_ids |-> ReadinessRules(rep),
           evidence |-> EvidenceOf(panels, rows, fires, I),
           firing |-> FactsOf(rows, id),
           unseen |-> IF panels = <<>> THEN Null ELSE I \cap UnseenRows(panels, rows) # {}]
    <2>1. HeldOf(panels, rows, fires, I) \cap CORE = CORE \cap HeldOf(panels, rows, fires, I)
        OBVIOUS
    <2> QED
        BY <1>3, <2>1 DEF FinishedReport, rep
<1> QED
    BY <1>2, <1>9, <1>10 DEF g, fires
===============================================================================
