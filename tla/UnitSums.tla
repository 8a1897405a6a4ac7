-------------------------------- MODULE UnitSums --------------------------------
(*****************************************************************************)
(* Sums over finite sets, as the models write them: MapThenSumSet of the     *)
(* community modules.  A stock or a points balance that several orders share *)
(* is such a sum.                                                            *)
(*                                                                           *)
(* MapThenSumSet folds with a recursive function on the subsets of its set,  *)
(* given by CHOOSE.  That the function exists, and what it is, follows from  *)
(* strict inclusion being well founded on the subsets of a finite set: a     *)
(* family of counterexamples has a least one, and that one is none.          *)
(*****************************************************************************)
EXTENDS FiniteSetsExt, FiniteSetTheorems, NaturalsInduction, WellFoundedInduction, TLAPS

\* A set of natural numbers has a least one.
LEMMA LeastNatural ==
  ASSUME NEW D, D \subseteq Nat, D # {}
  PROVE  \E n \in D : \A k \in D : n <= k
<1>1. PICK n \in D : \A k \in D : <<k, n>> \notin OpToRel(<, Nat)
  BY NatLessThanWellFounded, WFMin, Zenon
<1>2. \A k \in D : k \in Nat OBVIOUS
<1>3. \A k \in D : ~(k < n) BY <1>1, <1>2 DEF OpToRel
<1> QED BY <1>2, <1>3

\* Min chooses it.
LEMMA LeastOfNaturals ==
  ASSUME NEW D \in SUBSET Nat, D # {}
  PROVE  Min(D) \in D /\ \A k \in D : Min(D) <= k
<1>1. \E n \in D : \A k \in D : n <= k BY LeastNatural
<1> QED BY <1>1 DEF Min

\* Max chooses the greatest, if there is a bound.
LEMMA GreatestOfNaturals ==
  ASSUME NEW D \in SUBSET Nat, D # {}, NEW b \in Nat, \A k \in D : k <= b
  PROVE  Max(D) \in D /\ \A k \in D : Max(D) >= k
<1> DEFINE U == {u \in Nat : \A k \in D : k <= u}
<1>1. U # {} /\ U \subseteq Nat OBVIOUS
<1>2. PICK n \in U : \A u \in U : n <= u
  <2> HIDE DEF U
  <2> QED BY <1>1, LeastNatural
<1>3. n \in Nat /\ \A k \in D : k \in Nat /\ k <= n OBVIOUS
<1>4. n \in D
  <2> SUFFICES ASSUME n \notin D PROVE FALSE OBVIOUS
  <2>1. PICK k \in D : TRUE OBVIOUS
  <2>2. k \in Nat /\ k < n BY <1>3, <2>1
  <2>3. n - 1 \in U BY <1>3, <2>2
  <2> QED BY <1>2, <1>3, <2>3
<1>5. \E m \in D : \A k \in D : m >= k BY <1>3, <1>4
<1> QED BY <1>5 DEF Max


\* The element that a sum over s adds first.
Pick(s) == CHOOSE x \in s : TRUE

\* The sum of the terms of the table h over the finite set S.
SumOf(h, S) == MapThenSumSet(LAMBDA x : h[x], S)

\* A family of subsets of a finite set has a member that none of the others is part of.
\* The proofs below look at the least set that is a counterexample.
LEMMA LeastSet ==
  ASSUME NEW S, IsFiniteSet(S), NEW F, F \subseteq SUBSET S, F # {}
  PROVE  \E T \in F : \A U \in F : U \subseteq T => U = T
<1>1. IsWellFoundedOn(StrictSubsetOrdering(S), SUBSET S)
  BY FS_StrictSubsetOrderingWellFounded, FS_FiniteSubsetsOfFinite
<1>2. PICK T \in F : \A U \in F : <<U, T>> \notin StrictSubsetOrdering(S)
  BY <1>1, WFMin
<1> QED BY <1>2 DEF StrictSubsetOrdering

\* g holds the sum of h over every subset of T, one element after the other.
IsTable(g, h, T) ==
    g = [s \in SUBSET T |-> IF s = {} THEN 0 ELSE h[Pick(s)] + g[s \ {Pick(s)}]]

\* The element picked is one of the set.
LEMMA PickIn == ASSUME NEW s, s # {} PROVE Pick(s) \in s
  BY DEF Pick

\* Two such tables agree where both are defined.
LEMMA TableUnique ==
  ASSUME NEW S, IsFiniteSet(S), NEW T \in SUBSET S, NEW h, NEW g, NEW k,
         IsTable(g, h, S), IsTable(k, h, T)
  PROVE  \A s \in SUBSET T : g[s] = k[s]
<1> DEFINE F == {s \in SUBSET T : g[s] # k[s]}
<1> SUFFICES ASSUME F # {} PROVE FALSE OBVIOUS
<1>1. IsFiniteSet(T) BY FS_Subset
<1>2. PICK s \in F : \A U \in F : U \subseteq s => U = s
  <2>1. F \subseteq SUBSET T OBVIOUS
  <2> HIDE DEF F
  <2> QED BY <1>1, <2>1, LeastSet
<1>3. g[s] = IF s = {} THEN 0 ELSE h[Pick(s)] + g[s \ {Pick(s)}] BY DEF IsTable
<1>4. k[s] = IF s = {} THEN 0 ELSE h[Pick(s)] + k[s \ {Pick(s)}] BY DEF IsTable
<1>5. CASE s = {} BY <1>2, <1>3, <1>4, <1>5
<1>6. CASE s # {}
  <2>1. s \ {Pick(s)} \in SUBSET T /\ s \ {Pick(s)} \subseteq s /\ s \ {Pick(s)} # s BY <1>6, PickIn
  <2>2. g[s \ {Pick(s)}] = k[s \ {Pick(s)}] BY <1>2, <2>1
  <2> QED BY <1>2, <1>3, <1>4, <1>6, <2>2
<1> QED BY <1>5, <1>6

\* There is such a table for every finite set.
LEMMA TableExists ==
  ASSUME NEW S, IsFiniteSet(S), NEW h
  PROVE  \E g : IsTable(g, h, S)
<1> DEFINE F == {s \in SUBSET S : ~ \E g : IsTable(g, h, s)}
<1> SUFFICES ASSUME F # {} PROVE FALSE OBVIOUS
<1>2. PICK T \in F : \A U \in F : U \subseteq T => U = T
  <2>1. F \subseteq SUBSET S OBVIOUS
  <2> HIDE DEF F
  <2> QED BY <2>1, LeastSet
<1> DEFINE tab(U) == CHOOSE g : IsTable(g, h, U)
           rest(s) == s \ {Pick(s)}
           g == [s \in SUBSET T |-> IF s = {} THEN 0 ELSE h[Pick(s)] + tab(rest(s))[rest(s)]]
<1>3. ASSUME NEW s \in SUBSET T, s # {} PROVE rest(s) \in SUBSET T /\ rest(s) # s /\ rest(s) # T
  BY <1>3, PickIn
<1>4. ASSUME NEW U \in SUBSET T, U # T PROVE IsTable(tab(U), h, U)
  <2>1. \E k : IsTable(k, h, U) BY <1>2, <1>4
  <2> QED BY <2>1
<1>5. ASSUME NEW s \in SUBSET T, s # {} PROVE g[rest(s)] = tab(rest(s))[rest(s)]
  <2> DEFINE r == rest(s)
  <2>1. r \in SUBSET T /\ r # T BY <1>3, <1>5
  <2>2. IsTable(tab(r), h, r) BY <2>1, <1>4
  <2>3. tab(r)[r] = IF r = {} THEN 0 ELSE h[Pick(r)] + tab(r)[rest(r)]
    <3> HIDE DEF r, tab
    <3> QED BY <2>2 DEF IsTable
  <2>4. g[r] = IF r = {} THEN 0 ELSE h[Pick(r)] + tab(rest(r))[rest(r)]
    <3> HIDE DEF r, tab
    <3> QED BY <2>1
  <2>5. CASE r = {} BY <2>3, <2>4, <2>5
  <2>6. CASE r # {}
    <3>1. rest(r) \in SUBSET r /\ rest(r) \in SUBSET T /\ rest(r) # T BY <2>1, <2>6, <1>3
    <3>2. IsTable(tab(rest(r)), h, rest(r)) BY <3>1, <1>4
    <3>3. IsFiniteSet(r) BY <2>1, <1>2, FS_Subset
    <3>4. \A t \in SUBSET rest(r) : tab(r)[t] = tab(rest(r))[t]
      <4> HIDE DEF r, tab, rest
      <4> QED BY <3>1, <3>2, <3>3, <2>2, TableUnique
    <3>5. tab(r)[rest(r)] = tab(rest(r))[rest(r)]
      <4> HIDE DEF r, tab, rest
      <4> QED BY <3>4
    <3>6. g[r] = tab(r)[r]
      <4> HIDE DEF r, tab, g, rest
      <4> QED BY <3>5, <2>3, <2>4, <2>6
    <3> HIDE DEF tab, g
    <3> QED BY <3>6
  <2> QED BY <2>5, <2>6
<1>6. IsTable(g, h, T)
  <2> HIDE DEF tab
  <2>1. \A s \in SUBSET T : g[s] = IF s = {} THEN 0 ELSE h[Pick(s)] + g[rest(s)]
    BY <1>5
  <2>2. g = [s \in SUBSET T |-> g[s]] OBVIOUS
  <2> HIDE DEF g
  <2> QED BY <2>1, <2>2 DEF IsTable
<1> QED BY <1>6, <1>2

\* The sum is an entry of such a table.
LEMMA SumIsTable ==
  ASSUME NEW S, IsFiniteSet(S), NEW h
  PROVE  \E g : IsTable(g, h, S) /\ SumOf(h, S) = g[S]
<1> DEFINE g == CHOOSE k : IsTable(k, h, S)
<1>1. IsTable(g, h, S) BY TableExists
<1>2. SumOf(h, S) = g[S] BY DEF SumOf, MapThenSumSet, MapThenFoldSet, IsTable, Pick
<1> QED BY <1>1, <1>2

\* Unfolds(g, h, S): g sums h over every subset of S, one element after the other.
Unfolds(g, h, S) ==
    \A s \in SUBSET S : g[s] = IF s = {} THEN 0 ELSE h[Pick(s)] + g[s \ {Pick(s)}]

\* So it can be unfolded, element by element.
LEMMA SumUnfold ==
  ASSUME NEW S, IsFiniteSet(S), NEW h
  PROVE  \E g : SumOf(h, S) = g[S] /\ Unfolds(g, h, S)
<1>1. PICK g : IsTable(g, h, S) /\ SumOf(h, S) = g[S] BY SumIsTable
<1>2. Unfolds(g, h, S) BY <1>1 DEF IsTable, Unfolds
<1> QED BY <1>1, <1>2

\* Sums of integers are integers, and add up pointwise.
LEMMA SumAdds ==
  ASSUME NEW S, IsFiniteSet(S), NEW a, NEW b, NEW c,
         \A x \in S : a[x] \in Int /\ b[x] \in Int /\ c[x] = a[x] + b[x]
  PROVE  /\ SumOf(a, S) \in Int /\ SumOf(b, S) \in Int
         /\ SumOf(c, S) = SumOf(a, S) + SumOf(b, S)
<1>1. PICK f : SumOf(a, S) = f[S] /\ Unfolds(f, a, S) BY SumUnfold
<1>2. PICK g : SumOf(b, S) = g[S] /\ Unfolds(g, b, S) BY SumUnfold
<1>3. PICK h : SumOf(c, S) = h[S] /\ Unfolds(h, c, S) BY SumUnfold
<1> DEFINE Good(s) == f[s] \in Int /\ g[s] \in Int /\ h[s] = f[s] + g[s]
           F == {s \in SUBSET S : ~Good(s)}
<1>4. SUFFICES ASSUME F # {} PROVE FALSE BY <1>1, <1>2, <1>3
<1>5. PICK T \in F : \A U \in F : U \subseteq T => U = T
  <2>1. F \subseteq SUBSET S OBVIOUS
  <2> HIDE DEF F
  <2> QED BY <1>4, <2>1, LeastSet
<1>6. CASE T = {}
  <2>1. f[T] = 0 /\ g[T] = 0 /\ h[T] = 0 BY <1>1, <1>2, <1>3, <1>5, <1>6 DEF Unfolds
  <2> QED BY <1>5, <2>1
<1>7. CASE T # {}
  <2>1. /\ T \ {Pick(T)} \in SUBSET S /\ T \ {Pick(T)} \subseteq T /\ T \ {Pick(T)} # T
        /\ Pick(T) \in S
    BY <1>7, PickIn
  <2>2. Good(T \ {Pick(T)}) BY <1>5, <2>1
  <2>3. /\ f[T] = a[Pick(T)] + f[T \ {Pick(T)}]
        /\ g[T] = b[Pick(T)] + g[T \ {Pick(T)}]
        /\ h[T] = c[Pick(T)] + h[T \ {Pick(T)}]
    BY <1>1, <1>2, <1>3, <1>5, <1>7 DEF Unfolds
  <2>4. Good(T)
    <3>1. a[Pick(T)] \in Int /\ b[Pick(T)] \in Int /\ c[Pick(T)] = a[Pick(T)] + b[Pick(T)]
      BY <2>1
    <3> QED BY <2>2, <2>3, <3>1
  <2> QED BY <1>5, <2>4
<1> QED BY <1>6, <1>7

\* A pointwise bound on the terms is a bound on the sum.
LEMMA SumBounds ==
  ASSUME NEW S, IsFiniteSet(S), NEW a, NEW b,
         \A x \in S : a[x] \in Int /\ b[x] \in Int /\ a[x] <= b[x]
  PROVE  SumOf(a, S) <= SumOf(b, S)
<1>1. PICK f : SumOf(a, S) = f[S] /\ Unfolds(f, a, S) BY SumUnfold
<1>2. PICK g : SumOf(b, S) = g[S] /\ Unfolds(g, b, S) BY SumUnfold
<1> DEFINE Good(s) == f[s] \in Int /\ g[s] \in Int /\ f[s] <= g[s]
           F == {s \in SUBSET S : ~Good(s)}
<1>4. SUFFICES ASSUME F # {} PROVE FALSE BY <1>1, <1>2
<1>5. PICK T \in F : \A U \in F : U \subseteq T => U = T
  <2>1. F \subseteq SUBSET S OBVIOUS
  <2> HIDE DEF F
  <2> QED BY <1>4, <2>1, LeastSet
<1>6. CASE T = {}
  <2>1. f[T] = 0 /\ g[T] = 0 BY <1>1, <1>2, <1>5, <1>6 DEF Unfolds
  <2> QED BY <1>5, <2>1
<1>7. CASE T # {}
  <2>1. /\ T \ {Pick(T)} \in SUBSET S /\ T \ {Pick(T)} \subseteq T /\ T \ {Pick(T)} # T
        /\ Pick(T) \in S
    BY <1>7, PickIn
  <2>2. Good(T \ {Pick(T)}) BY <1>5, <2>1
  <2>3. /\ f[T] = a[Pick(T)] + f[T \ {Pick(T)}]
        /\ g[T] = b[Pick(T)] + g[T \ {Pick(T)}]
    BY <1>1, <1>2, <1>5, <1>7 DEF Unfolds
  <2>4. Good(T)
    <3>1. a[Pick(T)] \in Int /\ b[Pick(T)] \in Int /\ a[Pick(T)] <= b[Pick(T)] BY <2>1
    <3> QED BY <2>2, <2>3, <3>1
  <2> QED BY <1>5, <2>4
<1> QED BY <1>6, <1>7

\* Tables of integers that differ in one place only.
DifferAt(y, a, b, S) ==
    /\ y \in S
    /\ \A x \in S : a[x] \in Int /\ b[x] \in Int
    /\ \A x \in S : x # y => b[x] = a[x]

\* Changing one term changes the sum by as much.
THEOREM SumChanges ==
  ASSUME NEW S, IsFiniteSet(S), NEW a, NEW b, NEW y, DifferAt(y, a, b, S)
  PROVE  /\ SumOf(a, S) \in Int
         /\ SumOf(b, S) = SumOf(a, S) + (b[y] - a[y])
<1>0. /\ y \in S /\ \A x \in S : a[x] \in Int /\ b[x] \in Int
      /\ \A x \in S : x # y => b[x] = a[x]
  BY DEF DifferAt
<1>1. PICK f : SumOf(a, S) = f[S] /\ Unfolds(f, a, S) BY SumUnfold
<1>2. PICK g : SumOf(b, S) = g[S] /\ Unfolds(g, b, S) BY SumUnfold
<1> DEFINE Good(s) == /\ f[s] \in Int
                      /\ g[s] = IF y \in s THEN f[s] + (b[y] - a[y]) ELSE f[s]
           F == {s \in SUBSET S : ~Good(s)}
<1>4. SUFFICES ASSUME F # {} PROVE FALSE BY <1>0, <1>1, <1>2
<1>5. PICK T \in F : \A U \in F : U \subseteq T => U = T
  <2>1. F \subseteq SUBSET S OBVIOUS
  <2> HIDE DEF F
  <2> QED BY <1>4, <2>1, LeastSet
<1>6. CASE T = {}
  <2>1. f[T] = 0 /\ g[T] = 0 BY <1>1, <1>2, <1>5, <1>6 DEF Unfolds
  <2> QED BY <1>5, <1>6, <2>1
<1>7. CASE T # {}
  <2>1. /\ T \ {Pick(T)} \in SUBSET S /\ T \ {Pick(T)} \subseteq T /\ T \ {Pick(T)} # T
        /\ Pick(T) \in S /\ Pick(T) \in T
    BY <1>7, PickIn
  <2>2. Good(T \ {Pick(T)}) BY <1>5, <2>1
  <2>3. /\ f[T] = a[Pick(T)] + f[T \ {Pick(T)}]
        /\ g[T] = b[Pick(T)] + g[T \ {Pick(T)}]
    BY <1>1, <1>2, <1>5, <1>7 DEF Unfolds
  <2>4. a[Pick(T)] \in Int /\ b[Pick(T)] \in Int /\ a[y] \in Int /\ b[y] \in Int
    BY <1>0, <2>1
  <2>5. CASE Pick(T) = y BY <1>0, <2>1, <2>2, <2>3, <2>4, <2>5, <1>5
  <2>6. CASE Pick(T) # y
    <3>1. b[Pick(T)] = a[Pick(T)] /\ (y \in T <=> y \in T \ {Pick(T)}) BY <1>0, <2>1, <2>6
    <3>2. Good(T) BY <2>2, <2>3, <2>4, <3>1
    <3> QED BY <1>5, <3>2
  <2> QED BY <2>5, <2>6
<1> QED BY <1>6, <1>7

\* Terms that are all zero sum to zero.
LEMMA SumOfNothing ==
  ASSUME NEW S, IsFiniteSet(S), NEW a, \A x \in S : a[x] = 0
  PROVE  SumOf(a, S) = 0
<1>1. \A x \in S : a[x] \in Int /\ a[x] = a[x] + a[x] OBVIOUS
<1>2. SumOf(a, S) \in Int /\ SumOf(a, S) = SumOf(a, S) + SumOf(a, S) BY <1>1, SumAdds
<1>3. \A n \in Int : n = n + n => n = 0 OBVIOUS
<1> QED BY <1>2, <1>3, Zenon

\* A sum is its chosen term and the sum of the others.
LEMMA SumStep ==
  ASSUME NEW S, IsFiniteSet(S), S # {}, NEW h
  PROVE  SumOf(h, S) = h[Pick(S)] + SumOf(h, S \ {Pick(S)})
<1> DEFINE T == S \ {Pick(S)}
<1>1. PICK g : IsTable(g, h, S) /\ SumOf(h, S) = g[S] BY SumIsTable
<1>2. IsFiniteSet(T) /\ T \in SUBSET S BY FS_Subset
<1>3. PICK k : IsTable(k, h, T) /\ SumOf(h, T) = k[T]
  <2> HIDE DEF T
  <2> QED BY <1>2, SumIsTable
<1>4. g[T] = k[T]
  <2> HIDE DEF T
  <2>1. \A s \in SUBSET T : g[s] = k[s] BY <1>1, <1>2, <1>3, TableUnique
  <2> QED BY <2>1
<1>5. g[S] = h[Pick(S)] + g[T] BY <1>1 DEF IsTable
<1> QED BY <1>1, <1>3, <1>4, <1>5

\* The table that keeps the terms of T and makes the others zero.
Only(h, T, S) == [x \in S |-> IF x \in T THEN h[x] ELSE 0]

\* Summing over a subset is summing over the set with the other terms zero.
THEOREM SumOfSubset ==
  ASSUME NEW S, IsFiniteSet(S), NEW T \in SUBSET S, NEW h, \A x \in T : h[x] \in Int
  PROVE  SumOf(h, T) = SumOf(Only(h, T, S), S)
<1> DEFINE F == {U \in SUBSET T : SumOf(h, U) # SumOf(Only(h, U, S), S)}
<1>1. SUFFICES ASSUME F # {} PROVE FALSE OBVIOUS
<1>2. PICK U \in F : \A V \in F : V \subseteq U => V = U
  <2>1. F \subseteq SUBSET S OBVIOUS
  <2> HIDE DEF F
  <2> QED BY <1>1, <2>1, LeastSet
<1>3. U \in SUBSET T /\ IsFiniteSet(U) BY <1>2, FS_Subset
<1>4. CASE U = {}
  <2>1. \A x \in S : Only(h, U, S)[x] = 0 BY <1>4 DEF Only
  <2>2. SumOf(Only(h, U, S), S) = 0 BY <2>1, SumOfNothing
  <2>3. SumOf(h, U) = 0 BY <1>3, <1>4, SumOfNothing
  <2> QED BY <1>2, <2>2, <2>3
<1>5. CASE U # {}
  <2> DEFINE y == Pick(U)
             V == U \ {y}
  <2>1. y \in U /\ V \subseteq U /\ V # U /\ V \in SUBSET T BY <1>3, <1>5, PickIn
  <2>2. SumOf(h, V) = SumOf(Only(h, V, S), S) BY <1>2, <2>1
  <2>3. SumOf(h, U) = h[y] + SumOf(h, V) BY <1>3, <1>5, SumStep
  <2>4. DifferAt(y, Only(h, V, S), Only(h, U, S), S) BY <1>3, <2>1 DEF DifferAt, Only
  <2>5. Only(h, V, S)[y] = 0 /\ Only(h, U, S)[y] = h[y] /\ h[y] \in Int
    BY <1>3, <2>1 DEF Only
  <2> HIDE DEF y, V
  <2>6. /\ SumOf(Only(h, V, S), S) \in Int
        /\ SumOf(Only(h, U, S), S) = SumOf(Only(h, V, S), S)
                                       + (Only(h, U, S)[y] - Only(h, V, S)[y])
    BY <2>4, SumChanges
  <2> QED BY <1>2, <2>2, <2>3, <2>5, <2>6
<1> QED BY <1>4, <1>5

\* One more element adds its term.
LEMMA SumGrows ==
  ASSUME NEW S, IsFiniteSet(S), NEW T \in SUBSET S, NEW y \in S \ T, NEW h,
         \A x \in S : h[x] \in Int
  PROVE  /\ SumOf(h, T) \in Int
         /\ SumOf(h, T \cup {y}) = SumOf(h, T) + h[y]
<1> DEFINE U == T \cup {y}
<1>1. SumOf(h, T) = SumOf(Only(h, T, S), S) BY SumOfSubset
<1>2. SumOf(h, U) = SumOf(Only(h, U, S), S)
  <2>1. U \in SUBSET S /\ \A x \in U : h[x] \in Int OBVIOUS
  <2> HIDE DEF U
  <2> QED BY <2>1, SumOfSubset
<1>3. DifferAt(y, Only(h, T, S), Only(h, U, S), S) BY DEF DifferAt, Only
<1>4. Only(h, T, S)[y] = 0 /\ Only(h, U, S)[y] = h[y] BY DEF Only
<1> HIDE DEF U
<1>5. /\ SumOf(Only(h, T, S), S) \in Int
      /\ SumOf(Only(h, U, S), S) = SumOf(Only(h, T, S), S) + (Only(h, U, S)[y] - Only(h, T, S)[y])
  BY <1>3, SumChanges
<1>6. SumOf(h, U) = SumOf(h, T) + h[y] BY <1>1, <1>2, <1>4, <1>5
<1> QED BY <1>1, <1>5, <1>6 DEF U

\* Of natural numbers the larger set has the larger sum.
THEOREM SumMonotone ==
  ASSUME NEW S, IsFiniteSet(S), NEW h, \A x \in S : h[x] \in Nat,
         NEW U \in SUBSET S, NEW T \in SUBSET U
  PROVE  SumOf(h, T) \in Nat /\ SumOf(h, U) \in Nat /\ SumOf(h, T) <= SumOf(h, U)
<1> DEFINE z == [x \in S |-> 0]
<1>1. SumOf(h, T) = SumOf(Only(h, T, S), S) /\ SumOf(h, U) = SumOf(Only(h, U, S), S)
  BY SumOfSubset
<1>2. \A x \in S : /\ z[x] = 0 /\ Only(h, T, S)[x] \in Nat /\ Only(h, U, S)[x] \in Nat
                   /\ z[x] <= Only(h, T, S)[x] /\ Only(h, T, S)[x] <= Only(h, U, S)[x]
  BY DEF Only
<1> HIDE DEF z
<1>3. SumOf(z, S) = 0 BY <1>2, SumOfNothing
<1>4. SumOf(Only(h, T, S), S) \in Int /\ SumOf(Only(h, U, S), S) \in Int
  <2>1. \A a : (\A x \in S : a[x] \in Int) => SumOf(a, S) \in Int
    <3> SUFFICES ASSUME NEW a, \A x \in S : a[x] \in Int PROVE SumOf(a, S) \in Int OBVIOUS
    <3>1. \A x \in S : a[x] \in Int /\ z[x] \in Int /\ a[x] = a[x] + z[x] BY <1>2
    <3> QED BY <3>1, SumAdds
  <2> QED BY <1>2, <2>1
<1>5. SumOf(z, S) <= SumOf(Only(h, T, S), S) BY <1>2, SumBounds
<1>6. SumOf(Only(h, T, S), S) <= SumOf(Only(h, U, S), S) BY <1>2, SumBounds
<1> QED BY <1>1, <1>3, <1>4, <1>5, <1>6
=================================================================================
