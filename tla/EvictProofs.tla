----------------------------- MODULE EvictProofs -----------------------------
(***************************************************************************)
(* Proofs about the byte limit of the SQLite backend, for any finite set   *)
(* of keys, any row sizes, costs, lifetime and limit.                      *)
(*                                                                         *)
(* The sums are folds over finite sets.  What such a fold returns is shown *)
(* by least counterexamples: of the finite sets for which a statement      *)
(* fails, one has no proper subset for which it fails.                     *)
(***************************************************************************)
EXTENDS SqliteEvict, FiniteSetTheorems, NaturalsInduction, TLAPS

-----------------------------------------------------------------------------
(* Of the subsets of a finite set for which something fails, take one that *)
(* has no proper subset for which it fails.                                *)
LEMMA LeastCounterexample ==
    ASSUME NEW S, IsFiniteSet(S), NEW T, T \subseteq SUBSET S, T # {}
    PROVE  \E U \in T : /\ U \subseteq S /\ IsFiniteSet(U)
                       /\ \A V : (V \subseteq U /\ V # U) => V \notin T
<1> DEFINE R == StrictSubsetOrdering(S)
           F == FiniteSubsetsOf(S)
<1>1. IsWellFoundedOn(R, F)
    BY FS_StrictSubsetOrderingWellFounded
<1>2. \A U \in T : U \subseteq S /\ IsFiniteSet(U)
    BY FS_Subset
<1>3. T \subseteq F
    BY <1>2 DEF FiniteSubsetsOf
<1>4. PICK U \in T : \A V \in T : ~(<<V, U>> \in R)
  <2> HIDE DEF R, F
  <2> QED BY <1>1, <1>3, WFMin
<1>5. ASSUME NEW V, V \subseteq U, V # U, V \in T
      PROVE  FALSE
    BY <1>2, <1>4, <1>5 DEF StrictSubsetOrdering
<1> QED BY <1>2, <1>5

Less == {p \in Nat \X Nat : p[1] < p[2]}

\* A set of natural numbers that is not empty has a least member.
LEMMA LeastNat ==
    ASSUME NEW T \in SUBSET Nat, T # {}
    PROVE  \E n \in T : \A m \in T : n <= m
<1>1. IsWellFoundedOn(Less, Nat)
    BY NatLessThanWellFounded DEF OpToRel, Less
<1>2. PICK n \in T : \A m \in T : ~(<<m, n>> \in Less)
    BY <1>1, WFMin
<1>3. ASSUME NEW m \in T
      PROVE  n <= m
  <2>1. m \in Nat /\ n \in Nat
      OBVIOUS
  <2>2. <<m, n>> \in Less <=> m < n
      BY <2>1 DEF Less
  <2> QED BY <1>2, <2>1, <2>2
<1> QED BY <1>3

-----------------------------------------------------------------------------
(* The sum of the sizes over a set of rows.                                *)
Some(s) == CHOOSE x \in s : TRUE

\* The recursion that MapThenSumSet solves on the subsets of S.
Fold(t, S, f) ==
    [s \in SUBSET S |-> IF s = {} THEN 0 ELSE t[Some(s)].size + f[s \ {Some(s)}]]

Solves(t, S, f) == f = Fold(t, S, f)

LEMMA BytesIsFold ==
    ASSUME NEW t, NEW S
    PROVE  Bytes(t, S) = (CHOOSE f : Solves(t, S, f))[S]
  BY DEF Bytes, MapThenSumSet, MapThenFoldSet, Solves, Fold, Some

LEMMA SolvesAt ==
    ASSUME NEW t, NEW S, NEW f, Solves(t, S, f), NEW s \in SUBSET S
    PROVE  f[s] = IF s = {} THEN 0 ELSE t[Some(s)].size + f[s \ {Some(s)}]
<1>1. f = Fold(t, S, f)
    BY DEF Solves
<1>2. Fold(t, S, f)[s] = IF s = {} THEN 0 ELSE t[Some(s)].size + f[s \ {Some(s)}]
    BY DEF Fold
<1> QED BY <1>1, <1>2

LEMMA PickIn ==
    ASSUME NEW s, s # {}
    PROVE  Some(s) \in s
  BY DEF Some

\* Two solutions agree where both are defined.
LEMMA SolutionsAgree ==
    ASSUME NEW t, NEW S, NEW T, NEW f, NEW g, Solves(t, S, f), Solves(t, T, g),
           NEW U, IsFiniteSet(U), U \subseteq S, U \subseteq T
    PROVE  f[U] = g[U]
<1> DEFINE Bad == {V \in SUBSET U : f[V] # g[V]}
<1>1. SUFFICES ASSUME Bad # {} PROVE FALSE
    OBVIOUS
<1>2. Bad \subseteq SUBSET ( U)
    OBVIOUS
<1>3. PICK V \in Bad : /\ V \subseteq U /\ IsFiniteSet(V)
                     /\ \A W : (W \subseteq V /\ W # V) => W \notin Bad
  <2> HIDE DEF Bad
  <2> QED BY <1>1, <1>2, LeastCounterexample
<1>4. V \in SUBSET S /\ V \in SUBSET T
    OBVIOUS
<1>5. CASE V = {}
    BY <1>4, <1>5, SolvesAt
<1>6. CASE V # {}
  <2> DEFINE W == V \ {Some(V)}
  <2>1. W \subseteq V /\ W # V /\ W \in SUBSET U
      BY <1>6, PickIn
  <2>2. f[W] = g[W]
      BY <1>3, <2>1
  <2>3. f[V] = t[Some(V)].size + f[W]
      BY <1>4, <1>6, SolvesAt
  <2>4. g[V] = t[Some(V)].size + g[W]
      BY <1>4, <1>6, SolvesAt
  <2> QED BY <2>2, <2>3, <2>4
<1> QED BY <1>5, <1>6

\* There is a solution, so the sum is what the recursion says.
LEMMA SolutionExists ==
    ASSUME NEW t, NEW S, IsFiniteSet(S)
    PROVE  \E f : Solves(t, S, f)
<1> DEFINE Bad == {U \in SUBSET S : ~ \E f : Solves(t, U, f)}
<1>1. SUFFICES ASSUME Bad # {} PROVE FALSE
    OBVIOUS
<1>2. Bad \subseteq SUBSET ( S)
    OBVIOUS
<1>3. PICK V \in Bad : /\ V \subseteq S /\ IsFiniteSet(V)
                     /\ \A W : (W \subseteq V /\ W # V) => W \notin Bad
  <2> HIDE DEF Bad
  <2> QED BY <1>1, <1>2, LeastCounterexample
<1> DEFINE sol(U) == CHOOSE f : Solves(t, U, f)
           h == [s \in SUBSET V |-> IF s = {} THEN 0
                    ELSE t[Some(s)].size + sol(s \ {Some(s)})[s \ {Some(s)}]]
<1>4. ASSUME NEW U, U \subseteq V, U # V
      PROVE  Solves(t, U, sol(U)) /\ IsFiniteSet(U)
  <2>1. \E f : Solves(t, U, f)
      BY <1>3, <1>4
  <2> QED BY <1>2, <1>4, <2>1, FS_Subset
<1> HIDE DEF sol
<1>5. ASSUME NEW U, U \subseteq V, U # V
      PROVE  h[U] = sol(U)[U]
  <2>1. CASE U = {}
    <3>1. sol(U)[U] = 0
        BY <1>4, <1>5, <2>1, SolvesAt
    <3> QED BY <2>1, <3>1
  <2>2. CASE U # {}
    <3> DEFINE W == U \ {Some(U)}
    <3>1. W \subseteq V /\ W # V /\ W \subseteq U
        BY <1>5, <2>2, PickIn
    <3>2. Solves(t, U, sol(U)) /\ Solves(t, W, sol(W)) /\ IsFiniteSet(W)
        BY <1>4, <1>5, <3>1
    <3>3. sol(U)[W] = sol(W)[W]
        BY <3>1, <3>2, SolutionsAgree
    <3>4. sol(U)[U] = t[Some(U)].size + sol(U)[W]
        BY <2>2, <3>2, SolvesAt
    <3>5. h[U] = t[Some(U)].size + sol(W)[W]
        BY <1>5, <2>2
    <3> QED BY <3>3, <3>4, <3>5
  <2> QED BY <2>1, <2>2
<1>6. ASSUME NEW s \in SUBSET V, s # {}
      PROVE  h[s \ {Some(s)}] = sol(s \ {Some(s)})[s \ {Some(s)}]
  <2>1. s \ {Some(s)} \subseteq V /\ s \ {Some(s)} # V
      BY <1>6, PickIn
  <2> HIDE DEF h
  <2> QED BY <1>5, <2>1
<1>7. \A s \in SUBSET V : h[s] = Fold(t, V, h)[s]
    BY <1>6 DEF Fold
<1>8. h = Fold(t, V, h)
    BY <1>7 DEF Fold
<1> QED BY <1>3, <1>8 DEF Solves

LEMMA BytesSolve ==
    ASSUME NEW t, NEW S, IsFiniteSet(S)
    PROVE  /\ Bytes(t, {}) = 0
           /\ S # {} => Bytes(t, S) = t[Some(S)].size + Bytes(t, S \ {Some(S)})
<1> DEFINE sol(U) == CHOOSE f : Solves(t, U, f)
<1>1. ASSUME NEW U, IsFiniteSet(U)
      PROVE  Solves(t, U, sol(U)) /\ Bytes(t, U) = sol(U)[U]
    BY <1>1, SolutionExists, BytesIsFold
<1> HIDE DEF sol
<1>2. Bytes(t, {}) = 0
  <2>1. IsFiniteSet({})
      BY FS_EmptySet
  <2> QED BY <1>1, <2>1, SolvesAt
<1>3. ASSUME S # {}
      PROVE  Bytes(t, S) = t[Some(S)].size + Bytes(t, S \ {Some(S)})
  <2> DEFINE W == S \ {Some(S)}
  <2>1. IsFiniteSet(W) /\ W \subseteq S
      BY FS_Subset
  <2>2. Solves(t, S, sol(S)) /\ Solves(t, W, sol(W))
        /\ Bytes(t, S) = sol(S)[S] /\ Bytes(t, W) = sol(W)[W]
      BY <1>1, <2>1
  <2>3. sol(S)[S] = t[Some(S)].size + sol(S)[W]
      BY <1>3, <2>2, SolvesAt
  <2>4. sol(S)[W] = sol(W)[W]
      BY <2>1, <2>2, SolutionsAgree
  <2> QED BY <2>2, <2>3, <2>4
<1> QED BY <1>2, <1>3

-----------------------------------------------------------------------------
(* What the sums over sets of rows obey.                                   *)
Sized(t, S) == \A k \in S : t[k].size \in Nat

LEMMA Rest ==
    ASSUME NEW S, NEW k \in S, IsFiniteSet(S)
    PROVE  IsFiniteSet(S \ {k}) /\ S \ {k} \subseteq S /\ S \ {k} # S
  BY FS_RemoveElement

LEMMA BytesNat ==
    ASSUME NEW t, NEW S, IsFiniteSet(S), Sized(t, S)
    PROVE  Bytes(t, S) \in Nat
<1> DEFINE Bad == {V \in SUBSET S : Bytes(t, V) \notin Nat}
<1>1. SUFFICES ASSUME Bad # {} PROVE FALSE
    OBVIOUS
<1>2. Bad \subseteq SUBSET ( S)
    OBVIOUS
<1>3. PICK V \in Bad : /\ V \subseteq S /\ IsFiniteSet(V)
                     /\ \A W : (W \subseteq V /\ W # V) => W \notin Bad
  <2> HIDE DEF Bad
  <2> QED BY <1>1, <1>2, LeastCounterexample
<1>4. V # {}
  <2>1. Bytes(t, {}) = 0
      BY <1>2, BytesSolve
  <2> QED BY <2>1
<1>5. Some(V) \in V /\ V \subseteq S /\ IsFiniteSet(V)
    BY <1>3, <1>4, PickIn
<1> DEFINE W == V \ {Some(V)}
<1>6. W \subseteq V /\ W # V /\ W \in SUBSET S
    BY <1>5
<1>7. Bytes(t, W) \in Nat
    BY <1>3, <1>6
<1>8. t[Some(V)].size \in Nat
    BY <1>5 DEF Sized
<1>9. Bytes(t, V) = t[Some(V)].size + Bytes(t, W)
    BY <1>4, <1>5, BytesSolve
<1> HIDE DEF W
<1>10. Bytes(t, V) \in Nat
    BY <1>7, <1>8, <1>9
<1> QED BY <1>10

\* Any row can be taken out first, not only the chosen one.
LEMMA BytesWithout ==
    ASSUME NEW t, NEW S, NEW k, k \in S, IsFiniteSet(S), Sized(t, S)
    PROVE  Bytes(t, S) = t[k].size + Bytes(t, S \ {k})
<1> DEFINE Bad == {V \in SUBSET S :
                      \E j \in V : Bytes(t, V) # t[j].size + Bytes(t, V \ {j})}
<1>1. SUFFICES ASSUME Bad # {} PROVE FALSE
    OBVIOUS
<1>2. Bad \subseteq SUBSET ( S)
    OBVIOUS
<1>3. PICK V \in Bad : /\ V \subseteq S /\ IsFiniteSet(V)
                     /\ \A W : (W \subseteq V /\ W # V) => W \notin Bad
  <2> HIDE DEF Bad
  <2> QED BY <1>1, <1>2, LeastCounterexample
<1>4. PICK j \in V : Bytes(t, V) # t[j].size + Bytes(t, V \ {j})
    OBVIOUS
<1>5. V \subseteq S /\ IsFiniteSet(V) /\ V # {}
    BY <1>3, <1>4
<1> DEFINE p == Some(V)
           W == V \ {p}
           X == V \ {j}
<1>6. p \in V
    BY <1>5, PickIn
<1>7. Bytes(t, V) = t[p].size + Bytes(t, W)
    BY <1>5, BytesSolve
<1> HIDE DEF p
<1>8. p # j
    BY <1>4, <1>7
<1>9. W \subseteq V /\ W # V /\ W \in SUBSET S /\ j \in W
    BY <1>5, <1>6, <1>8
<1>10. X \subseteq V /\ X # V /\ X \in SUBSET S /\ p \in X
    BY <1>5, <1>6, <1>8
<1>11. W \notin Bad /\ X \notin Bad
    BY <1>3, <1>9, <1>10
<1>12. Bytes(t, W) = t[j].size + Bytes(t, W \ {j})
    BY <1>9, <1>11
<1>13. Bytes(t, X) = t[p].size + Bytes(t, X \ {p})
    BY <1>10, <1>11
<1>14. W \ {j} = X \ {p}
    OBVIOUS
<1>15. t[j].size \in Nat /\ t[p].size \in Nat
    BY <1>5, <1>6 DEF Sized
<1>16. Bytes(t, X \ {p}) \in Nat
  <2>1. X \ {p} \in SUBSET S
      BY <1>5
  <2>2. IsFiniteSet(X \ {p}) /\ Sized(t, X \ {p})
      BY <2>1, FS_Subset DEF Sized
  <2> QED BY <2>2, BytesNat
<1> DEFINE bV == Bytes(t, V)  bW == Bytes(t, W)  bX == Bytes(t, X)  bY == Bytes(t, X \ {p})
           sj == t[j].size  sp == t[p].size
<1>17. bV # sj + bX /\ bV = sp + bW /\ bW = sj + bY /\ bX = sp + bY
       /\ sj \in Nat /\ sp \in Nat /\ bY \in Nat
    BY <1>4, <1>7, <1>12, <1>13, <1>14, <1>15, <1>16
<1> HIDE DEF bV, bW, bX, bY, sj, sp
<1> QED BY <1>17

\* Sums over disjoint sets of rows add up.
LEMMA BytesSplit ==
    ASSUME NEW t, NEW S, IsFiniteSet(S), Sized(t, S), NEW U, U \subseteq S
    PROVE  /\ Bytes(t, S) \in Nat /\ Bytes(t, U) \in Nat /\ Bytes(t, S \ U) \in Nat
           /\ Bytes(t, S) = Bytes(t, U) + Bytes(t, S \ U)
<1>1. ASSUME NEW V, V \subseteq S
      PROVE  /\ IsFiniteSet(V) /\ Sized(t, V) /\ Bytes(t, V) \in Nat
             /\ IsFiniteSet(S \ V) /\ Sized(t, S \ V) /\ Bytes(t, S \ V) \in Nat
  <2>1. IsFiniteSet(V) /\ IsFiniteSet(S \ V)
      BY <1>1, FS_Subset
  <2>2. Sized(t, V) /\ Sized(t, S \ V)
      BY <1>1 DEF Sized
  <2> QED BY <2>1, <2>2, BytesNat
<1>2. Bytes(t, S) \in Nat
    BY BytesNat
<1> DEFINE Bad == {V \in SUBSET S : Bytes(t, S) # Bytes(t, V) + Bytes(t, S \ V)}
<1>3. Bad = {}
  <2>1. SUFFICES ASSUME Bad # {} PROVE FALSE
      OBVIOUS
  <2>2. Bad \subseteq SUBSET ( S)
      OBVIOUS
  <2>3. PICK V \in Bad : /\ V \subseteq S /\ IsFiniteSet(V)
                       /\ \A W : (W \subseteq V /\ W # V) => W \notin Bad
    <3> HIDE DEF Bad
    <3> QED BY <2>1, <2>2, LeastCounterexample
  <2>4. V # {}
    <3>1. Bytes(t, {}) = 0
        BY BytesSolve
    <3>2. S \ {} = S
        OBVIOUS
    <3> QED BY <1>2, <3>1, <3>2
  <2>5. PICK k \in V : TRUE
      BY <2>4
  <2> DEFINE W == V \ {k}
  <2>6. W \subseteq V /\ W # V /\ W \in SUBSET S /\ V \in SUBSET S
      OBVIOUS
  <2>7. Bytes(t, S) = Bytes(t, W) + Bytes(t, S \ W)
      BY <2>3, <2>6
  <2>8. Bytes(t, V) = t[k].size + Bytes(t, W)
    <3>1. IsFiniteSet(V) /\ Sized(t, V)
        BY <1>1, <2>6
    <3> QED BY <3>1, BytesWithout
  <2>9. Bytes(t, S \ W) = t[k].size + Bytes(t, S \ V)
    <3>1. k \in S \ W /\ (S \ W) \ {k} = S \ V
        BY <2>6
    <3>2. IsFiniteSet(S \ W) /\ Sized(t, S \ W)
        BY <1>1, <2>6
    <3>3. Bytes(t, S \ W) = t[k].size + Bytes(t, (S \ W) \ {k})
      <4> HIDE DEF W
      <4> QED BY <3>1, <3>2, BytesWithout
    <3> QED BY <3>1, <3>3
  <2>10. t[k].size \in Nat /\ Bytes(t, W) \in Nat /\ Bytes(t, S \ V) \in Nat
      BY <1>1, <2>6 DEF Sized
  <2>11. Bytes(t, S) # Bytes(t, V) + Bytes(t, S \ V)
      BY <2>3
  <2> DEFINE bS == Bytes(t, S)  bV == Bytes(t, V)  bW == Bytes(t, W)
             cV == Bytes(t, S \ V)  cW == Bytes(t, S \ W)  sk == t[k].size
  <2>12. /\ bS = bW + cW /\ bV = sk + bW /\ cW = sk + cV /\ bS # bV + cV
         /\ sk \in Nat /\ bW \in Nat /\ cV \in Nat
      BY <2>7, <2>8, <2>9, <2>10, <2>11
  <2> HIDE DEF bS, bV, bW, cV, cW, sk
  <2> QED BY <2>12
<1>4. U \notin Bad
    BY <1>3
<1> QED BY <1>1, <1>2, <1>4

\* The same with a name for the rest.
LEMMA BytesParts ==
    ASSUME NEW t, NEW S, IsFiniteSet(S), Sized(t, S), NEW U, U \subseteq S,
           NEW V, V = S \ U
    PROVE  /\ Bytes(t, S) \in Nat /\ Bytes(t, U) \in Nat /\ Bytes(t, V) \in Nat
           /\ Bytes(t, S) = Bytes(t, U) + Bytes(t, V)
  BY BytesSplit

\* A sum over fewer rows is no greater.
LEMMA BytesGrow ==
    ASSUME NEW t, NEW S, IsFiniteSet(S), Sized(t, S), NEW U, U \subseteq S
    PROVE  Bytes(t, U) \in Nat /\ Bytes(t, S) \in Nat /\ Bytes(t, U) <= Bytes(t, S)
<1> DEFINE V == S \ U
<1>1. V = S \ U
    OBVIOUS
<1> HIDE DEF V
<1> QED BY <1>1, BytesParts

\* A sum only depends on the rows it is over.
LEMMA BytesSame ==
    ASSUME NEW t, NEW u, NEW S, IsFiniteSet(S), \A k \in S : u[k] = t[k]
    PROVE  Bytes(u, S) = Bytes(t, S)
<1> DEFINE Bad == {V \in SUBSET S : Bytes(t, V) # Bytes(u, V)}
<1>1. SUFFICES ASSUME Bad # {} PROVE FALSE
    OBVIOUS
<1>2. Bad \subseteq SUBSET S
    OBVIOUS
<1>3. PICK V \in Bad : /\ V \subseteq S /\ IsFiniteSet(V)
                     /\ \A W : (W \subseteq V /\ W # V) => W \notin Bad
  <2> HIDE DEF Bad
  <2> QED BY <1>1, <1>2, LeastCounterexample
<1>4. V # {}
  <2>1. Bytes(t, {}) = 0 /\ Bytes(u, {}) = 0
      BY BytesSolve
  <2> QED BY <2>1
<1>5. Some(V) \in V /\ V \subseteq S /\ IsFiniteSet(V)
    BY <1>3, <1>4, PickIn
<1> DEFINE W == V \ {Some(V)}
<1>6. W \subseteq V /\ W # V /\ W \in SUBSET S
    BY <1>5
<1>7. Bytes(t, W) = Bytes(u, W)
    BY <1>3, <1>6
<1>8. u[Some(V)].size = t[Some(V)].size
    BY <1>5
<1>9. Bytes(t, V) = t[Some(V)].size + Bytes(t, W) /\ Bytes(u, V) = u[Some(V)].size + Bytes(u, W)
    BY <1>4, <1>5, BytesSolve
<1> QED BY <1>3, <1>7, <1>8, <1>9

-----------------------------------------------------------------------------
(* Tables and the order their rows are evicted in.                         *)
Table == [Keys -> Row \cup {NONE}]

LEMMA TableRows ==
    ASSUME NEW t \in Table
    PROVE  /\ Present(t) \subseteq Keys
           /\ IsFiniteSet(Present(t))
           /\ Sized(t, Present(t))
           /\ \A k \in Present(t) : t[k] \in Row
<1>1. Present(t) \subseteq Keys
    BY DEF Present
<1>2. IsFiniteSet(Present(t))
    BY <1>1, EvictAssumption, FS_Subset
<1>3. \A k \in Present(t) : t[k] \in Row
    BY DEF Present, Table
<1>4. \A k \in Present(t) : t[k].size \in Nat
    BY <1>3, EvictAssumption DEF Row
<1> QED BY <1>1, <1>2, <1>3, <1>4 DEF Sized

LEMMA RowFields ==
    ASSUME NEW r \in Row
    PROVE  r.size \in Nat \ {0} /\ r.at \in Nat /\ r.cost \in Nat /\ r.until \in Nat
<1>1. r.size \in Sizes /\ r.at \in 0..MaxTime /\ r.cost \in Costs
      /\ r.until \in 0..(MaxTime + Ttl)
    BY DEF Row
<1>2. r.size \in Nat \ {0} /\ r.cost \in Nat
    BY <1>1, EvictAssumption
<1>3. r.at \in Nat /\ r.until \in Nat
    BY <1>1
<1> QED BY <1>2, <1>3

LEMMA UpToIsOrder ==
    ASSUME NEW q \in Row, NEW r \in Row, NEW s \in Row
    PROVE  /\ UpTo(r, r)
           /\ UpTo(r, s) \/ UpTo(s, r)
           /\ UpTo(q, r) /\ UpTo(r, s) => UpTo(q, s)
<1>1. /\ q.at \in Nat /\ r.at \in Nat /\ s.at \in Nat
      /\ q.cost \in Nat /\ r.cost \in Nat /\ s.cost \in Nat
    BY RowFields
<1> QED BY <1>1 DEF UpTo

\* A table that is not empty has rows that are the next to go.
LEMMA OldestExists ==
    ASSUME NEW t \in Table, Present(t) # {}
    PROVE  \E o \in Present(t) : \A j \in Present(t) : UpTo(t[o], t[j])
<1>1. \A k \in Present(t) : t[k].at \in Nat /\ t[k].cost \in Nat
    BY TableRows, RowFields
<1> DEFINE A == {t[k].at : k \in Present(t)}
<1>2. A \in SUBSET Nat /\ A # {}
    BY <1>1
<1>3. PICK a \in A : \A b \in A : a <= b
  <2> HIDE DEF A
  <2> QED BY <1>2, LeastNat
<1> DEFINE C == {t[k].cost : k \in {j \in Present(t) : t[j].at = a}}
<1>4. C \in SUBSET Nat /\ C # {}
    BY <1>1
<1>5. PICK c \in C : \A d \in C : c <= d
  <2> HIDE DEF C
  <2> QED BY <1>4, LeastNat
<1>6. PICK o \in Present(t) : t[o].at = a /\ t[o].cost = c
    OBVIOUS
<1>7. ASSUME NEW j \in Present(t)
      PROVE  UpTo(t[o], t[j])
  <2>1. t[j].at \in Nat /\ t[j].cost \in Nat /\ t[o].at \in Nat /\ t[o].cost \in Nat
      BY <1>1
  <2>2. t[o].at <= t[j].at
      BY <1>3, <1>6
  <2>3. t[j].at = t[o].at => t[o].cost <= t[j].cost
      BY <1>5, <1>6
  <2> QED BY <2>1, <2>2, <2>3 DEF UpTo
<1> QED BY <1>6, <1>7

LEMMA Dropped ==
    ASSUME NEW t \in Table, NEW S
    PROVE  /\ Drop(t, S) \in Table
           /\ Present(Drop(t, S)) = Present(t) \ S
           /\ \A k \in Present(t) \ S : Drop(t, S)[k] = t[k]
           /\ \A k \in Keys : Drop(t, S)[k] \in {t[k], NONE}
<1>1. ASSUME NEW k \in Keys
      PROVE  Drop(t, S)[k] = IF k \in S THEN NONE ELSE t[k]
    BY DEF Drop
<1>2. Drop(t, S) \in Table
    BY DEF Drop, Table
<1> QED BY <1>1, <1>2 DEF Present

-----------------------------------------------------------------------------
(* One eviction.  Gone is what it deletes.                                 *)
Window(t, k) == {j \in Present(t) : UpTo(t[j], t[k])}

Gone(t) == {k \in Present(t) : RunningTotal(t, k) <= Total(t) - MaxBytes}

LEMMA Evicts ==
    ASSUME NEW t
    PROVE  evict_oldest(t) = IF Total(t) <= MaxBytes THEN t ELSE Drop(t, Gone(t))
  BY DEF evict_oldest, Gone

LEMMA Sums ==
    ASSUME NEW t \in Table, NEW S, S \subseteq Present(t)
    PROVE  /\ Bytes(t, S) \in Nat /\ Total(t) \in Nat /\ Bytes(t, S) <= Total(t)
           /\ Total(t) = Bytes(t, S) + Bytes(t, Present(t) \ S)
           /\ IsFiniteSet(S) /\ Sized(t, S)
<1> DEFINE P == Present(t)
           V == P \ S
<1>1. IsFiniteSet(P) /\ Sized(t, P) /\ S \subseteq P /\ V = P \ S
    BY TableRows
<1>2. IsFiniteSet(S) /\ Sized(t, S)
    BY <1>1, FS_Subset DEF Sized
<1>3. Total(t) = Bytes(t, P)
    BY DEF Total
<1> HIDE DEF P, V
<1>4. /\ Bytes(t, P) \in Nat /\ Bytes(t, S) \in Nat /\ Bytes(t, V) \in Nat
      /\ Bytes(t, P) = Bytes(t, S) + Bytes(t, V)
  <2>1. Bytes(t, P) \in Nat /\ Bytes(t, S) \in Nat /\ Bytes(t, V) \in Nat
      BY <1>1, BytesParts
  <2>2. Bytes(t, P) = Bytes(t, S) + Bytes(t, V)
      BY <1>1, BytesParts
  <2> QED BY <2>1, <2>2
<1>5. Bytes(t, S) <= Bytes(t, P)
    BY <1>4
<1> QED BY <1>2, <1>3, <1>4, <1>5 DEF P, V

LEMMA WindowSum ==
    ASSUME NEW t \in Table, NEW k \in Present(t)
    PROVE  /\ Window(t, k) \subseteq Present(t) /\ k \in Window(t, k)
           /\ RunningTotal(t, k) = Bytes(t, Window(t, k))
           /\ RunningTotal(t, k) \in Nat
<1>1. Window(t, k) \subseteq Present(t)
    BY DEF Window
<1>2. t[k] \in Row
    BY TableRows
<1>3. k \in Window(t, k)
    BY <1>2, UpToIsOrder DEF Window
<1>4. RunningTotal(t, k) = Bytes(t, Window(t, k))
    BY DEF RunningTotal, Window
<1>5. Bytes(t, Window(t, k)) \in Nat
    BY <1>1, Sums
<1> QED BY <1>1, <1>3, <1>4, <1>5

\* A row that comes later has the greater running total.
LEMMA RunningTotalGrows ==
    ASSUME NEW t \in Table, NEW j \in Present(t), NEW k \in Present(t),
           UpTo(t[j], t[k])
    PROVE  /\ RunningTotal(t, j) <= RunningTotal(t, k)
           /\ ~UpTo(t[k], t[j]) => RunningTotal(t, j) < RunningTotal(t, k)
<1> DEFINE J == Window(t, j)
           K == Window(t, k)
<1>1. \A i \in Present(t) : t[i] \in Row
    BY TableRows
<1>2. J \subseteq K
    BY <1>1, UpToIsOrder DEF Window
<1>3. /\ K \subseteq Present(t) /\ k \in K
      /\ RunningTotal(t, j) = Bytes(t, J) /\ RunningTotal(t, k) = Bytes(t, K)
    BY WindowSum
<1>4. IsFiniteSet(K) /\ Sized(t, K)
    BY <1>3, Sums
<1>5. ~UpTo(t[k], t[j]) => k \notin J
    BY DEF Window
<1> HIDE DEF J, K
<1>6. Bytes(t, J) \in Nat /\ Bytes(t, K) \in Nat /\ Bytes(t, J) <= Bytes(t, K)
    BY <1>2, <1>4, BytesGrow
<1>7. ASSUME ~UpTo(t[k], t[j])
      PROVE  RunningTotal(t, j) < RunningTotal(t, k)
  <2> DEFINE L == K \ {k}
  <2>1. IsFiniteSet(L) /\ Sized(t, L) /\ J \subseteq L
      BY <1>2, <1>4, <1>5, <1>7, FS_Subset DEF Sized
  <2>2. Bytes(t, K) = t[k].size + Bytes(t, L)
      BY <1>3, <1>4, BytesWithout
  <2>3. t[k].size \in Nat \ {0}
      BY <1>1, RowFields
  <2> HIDE DEF L
  <2>4. Bytes(t, J) <= Bytes(t, L) /\ Bytes(t, L) \in Nat
      BY <2>1, BytesGrow
  <2> QED BY <1>3, <1>6, <2>2, <2>3, <2>4
<1> QED BY <1>3, <1>6, <1>7

\* Without the oldest rows it leaves, an eviction is under the limit.
LEMMA LeavesLittle ==
    ASSUME NEW t \in Table, NEW u \in Table, Total(t) > MaxBytes,
           Present(u) = Present(t) \ Gone(t), \A k \in Present(u) : u[k] = t[k]
    PROVE  \/ Total(u) <= MaxBytes
           \/ Bytes(u, Present(u) \ {k \in Present(u) : \A j \in Present(u) : UpTo(u[k], u[j])})
                 < MaxBytes
<1> DEFINE P == Present(t)
           Q == Present(u)
           O == {k \in Q : \A j \in Q : UpTo(u[k], u[j])}
<1>1. Q = P \ Gone(t) /\ Q \subseteq P /\ \A k \in Q : u[k] = t[k]
    OBVIOUS
<1>2. MaxBytes \in Nat
    BY EvictAssumption
<1>3. CASE Q = {}
  <2>1. Total(u) = 0
    <3>1. IsFiniteSet(Q)
        BY TableRows
    <3> QED BY <1>3, <3>1, BytesSolve DEF Total
  <2> QED BY <1>2, <2>1
<1>4. CASE Q # {}
  <2>1. PICK o \in Q : \A j \in Q : UpTo(u[o], u[j])
      BY <1>4, OldestExists
  <2>2. o \in P /\ o \notin Gone(t)
      BY <1>1
  <2>3. RunningTotal(t, o) \in Nat /\ Total(t) \in Nat /\ Window(t, o) \subseteq P
        /\ RunningTotal(t, o) = Bytes(t, Window(t, o))
      BY <2>2, WindowSum, Sums
  <2>4. RunningTotal(t, o) > Total(t) - MaxBytes
      BY <1>2, <2>2, <2>3 DEF Gone
  <2> DEFINE A == P \ Window(t, o)
             B == Q \ O
  <2>5. B \subseteq A /\ A \subseteq P /\ B \subseteq Q
    <3>1. ASSUME NEW b \in B, b \in Window(t, o)
          PROVE  FALSE
      <4>1. b \in Q /\ UpTo(u[b], u[o])
          BY <1>1, <3>1 DEF Window
      <4>2. \A j \in Q : u[j] \in Row
          BY TableRows
      <4>3. \A j \in Q : UpTo(u[b], u[j])
          BY <2>1, <4>1, <4>2, UpToIsOrder
      <4>4. b \in O
          BY <4>1, <4>3
      <4> QED BY <3>1, <4>4
    <3>2. B \subseteq Q
        OBVIOUS
    <3> HIDE DEF B
    <3> QED BY <1>1, <3>1, <3>2
  <2>6. Total(t) = Bytes(t, Window(t, o)) + Bytes(t, A)
      BY <2>3, Sums
  <2>7. Bytes(t, A) \in Nat /\ IsFiniteSet(A) /\ Sized(t, A)
      BY <2>5, Sums
  <2> HIDE DEF P, O, Q, A, B
  <2>8. Bytes(t, B) <= Bytes(t, A) /\ Bytes(t, B) \in Nat
      BY <2>5, <2>7, BytesGrow
  <2>9. IsFiniteSet(B) /\ \A k \in B : u[k] = t[k]
      BY <1>1, <2>5, <2>7, FS_Subset
  <2>10. Bytes(u, B) = Bytes(t, B)
      BY <2>9, BytesSame
  <2>11. Bytes(u, B) < MaxBytes
      BY <1>2, <2>3, <2>4, <2>6, <2>7, <2>8, <2>10
  <2> QED BY <2>11 DEF B, O, Q
<1> QED BY <1>3, <1>4

(* What is deleted had the running totals up to what is over the limit, and *)
(* the greatest of these is the sum of all that is deleted.                 *)
LEMMA GoneSum ==
    ASSUME NEW t \in Table, Total(t) > MaxBytes
    PROVE  Bytes(t, Gone(t)) \in Nat /\ Bytes(t, Gone(t)) <= Total(t) - MaxBytes
<1> DEFINE G == Gone(t)
           over == Total(t) - MaxBytes
<1>1. G \subseteq Present(t)
    BY DEF Gone
<1>2. Bytes(t, G) \in Nat /\ Total(t) \in Nat /\ IsFiniteSet(G)
    BY <1>1, Sums
<1>3. over \in Nat
    BY <1>2, EvictAssumption
<1>4. \A k \in G : RunningTotal(t, k) \in Nat /\ RunningTotal(t, k) <= over
    BY <1>1, WindowSum DEF Gone
<1>5. \A k \in G : t[k] \in Row
    BY <1>1, TableRows
<1>6. CASE G = {}
  <2>1. Bytes(t, {}) = 0
      BY <1>2, BytesSolve
  <2> HIDE DEF G, over
  <2>2. Bytes(t, G) = 0
      BY <1>6, <2>1
  <2> QED BY <1>3, <2>2 DEF G, over
<1>7. CASE G # {}
  <2> DEFINE left(k) == over - RunningTotal(t, k)
             L == {left(k) : k \in G}
  <2>1. L \in SUBSET Nat /\ L # {}
      BY <1>3, <1>4, <1>7
  <2>2. PICK n \in L : \A m \in L : n <= m
    <3> HIDE DEF L
    <3> QED BY <2>1, LeastNat
  <2>3. PICK last \in G : n = left(last)
      BY <2>2
  <2>4. ASSUME NEW j \in G
        PROVE  RunningTotal(t, j) <= RunningTotal(t, last)
    <3>1. left(last) <= left(j)
        BY <2>2, <2>3
    <3> QED BY <1>3, <1>4, <3>1
  <2>5. G \subseteq Window(t, last)
    <3>1. SUFFICES ASSUME NEW j \in G PROVE UpTo(t[j], t[last])
        BY <1>1 DEF Window
    <3>2. SUFFICES ASSUME ~UpTo(t[j], t[last]) PROVE FALSE
        OBVIOUS
    <3>3. UpTo(t[last], t[j])
        BY <1>5, <3>2, UpToIsOrder
    <3>4. RunningTotal(t, last) < RunningTotal(t, j)
        BY <1>1, <3>2, <3>3, RunningTotalGrows
    <3>5. RunningTotal(t, j) <= RunningTotal(t, last)
        BY <2>4
    <3>6. RunningTotal(t, j) \in Nat /\ RunningTotal(t, last) \in Nat
        BY <1>4
    <3> QED BY <3>4, <3>5, <3>6
  <2>6. /\ Window(t, last) \subseteq Present(t)
        /\ RunningTotal(t, last) = Bytes(t, Window(t, last))
      BY <1>1, WindowSum
  <2>7. IsFiniteSet(Window(t, last)) /\ Sized(t, Window(t, last))
      BY <2>6, Sums
  <2> HIDE DEF G
  <2>8. Bytes(t, G) <= Bytes(t, Window(t, last)) /\ Bytes(t, Window(t, last)) \in Nat
      BY <2>5, <2>7, BytesGrow
  <2>9. RunningTotal(t, last) <= over
      BY <1>4
  <2> HIDE DEF over
  <2>10. Bytes(t, G) <= over
      BY <1>2, <1>3, <2>6, <2>8, <2>9
  <2> QED BY <1>2, <2>10 DEF over, G
<1> QED BY <1>6, <1>7

LEMMA LeavesEnough ==
    ASSUME NEW t \in Table, NEW u \in Table, Total(t) > MaxBytes,
           Present(u) = Present(t) \ Gone(t), \A k \in Present(u) : u[k] = t[k]
    PROVE  Total(u) \in Nat /\ Total(u) >= MaxBytes
<1> DEFINE Q == Present(t) \ Gone(t)
<1>1. Present(u) = Q /\ \A k \in Q : u[k] = t[k]
    OBVIOUS
<1>2. Gone(t) \subseteq Present(t) /\ Q \subseteq Present(t)
    BY DEF Gone
<1>3. Total(t) = Bytes(t, Gone(t)) + Bytes(t, Q) /\ Total(t) \in Nat
    BY <1>2, Sums
<1>4. Bytes(t, Q) \in Nat /\ IsFiniteSet(Q)
    BY <1>2, Sums
<1>5. Bytes(t, Gone(t)) \in Nat /\ Bytes(t, Gone(t)) <= Total(t) - MaxBytes
    BY GoneSum
<1> HIDE DEF Q
<1>6. Bytes(u, Q) = Bytes(t, Q)
    BY <1>1, <1>4, BytesSame
<1>7. Total(u) = Bytes(t, Q)
    BY <1>1, <1>6 DEF Total
<1> QED BY <1>3, <1>4, <1>5, <1>7, EvictAssumption

\* What is deleted comes before all that is left.
LEMMA LeavesLater ==
    ASSUME NEW t \in Table, Total(t) > MaxBytes,
           NEW j \in Gone(t), NEW k \in Present(t) \ Gone(t)
    PROVE  ~UpTo(t[k], t[j])
<1>1. j \in Present(t) /\ k \in Present(t)
      /\ RunningTotal(t, j) <= Total(t) - MaxBytes
      /\ ~(RunningTotal(t, k) <= Total(t) - MaxBytes)
    BY DEF Gone
<1>2. RunningTotal(t, j) \in Nat /\ RunningTotal(t, k) \in Nat /\ Total(t) \in Nat
    BY <1>1, WindowSum, Sums
<1>3. UpTo(t[k], t[j]) => RunningTotal(t, k) <= RunningTotal(t, j)
    BY <1>1, RunningTotalGrows
<1> QED BY <1>1, <1>2, <1>3, EvictAssumption

-----------------------------------------------------------------------------
(* The steps.  A write replaces its row, purges and evicts.                *)
LEMMA InitTyped == Init => TypeOK
<1> SUFFICES ASSUME Init PROVE TypeOK
    OBVIOUS
<1>1. now \in 0..MaxTime
    BY EvictAssumption DEF Init
<1>2. rows \in [Keys -> Row \cup {NONE}]
    BY DEF Init
<1>3. written = NONE
    BY DEF Init
<1> QED BY <1>1, <1>2, <1>3 DEF TypeOK

LEMMA WrittenRow ==
    ASSUME TypeOK, NEW s \in Sizes, NEW a \in 0..now, NEW c \in Costs
    PROVE  [size |-> s, at |-> a, cost |-> c, until |-> now + Ttl] \in Row
<1>1. now \in 0..MaxTime /\ Ttl \in Nat /\ MaxTime \in Nat
    BY EvictAssumption DEF TypeOK
<1>2. a \in 0..MaxTime /\ now + Ttl \in 0..(MaxTime + Ttl)
    BY <1>1
<1> QED BY <1>2 DEF Row

(* What is in the table before the eviction of a write: the row that is    *)
(* written and the others that have not expired.                           *)
Purged(k, row) == Purge([rows EXCEPT ![k] = row])

LEMMA PurgedRows ==
    ASSUME TypeOK, NEW k \in Keys, NEW row \in Row
    PROVE  /\ Purged(k, row) \in Table
           /\ \A j \in Present(Purged(k, row)) : Purged(k, row)[j].until > now
           /\ \A j \in Present(rows) :
                 (j # k /\ rows[j].until > now) =>
                     j \in Present(Purged(k, row)) /\ Purged(k, row)[j] = rows[j]
<1> DEFINE t == [rows EXCEPT ![k] = row]
           E == {j \in Present(t) : t[j].until <= now}
<1>1. rows \in Table /\ now \in Nat
    BY EvictAssumption DEF TypeOK, Table
<1>2. t \in Table /\ \A j \in Keys : t[j] = IF j = k THEN row ELSE rows[j]
    BY <1>1 DEF Table
<1>3. Purged(k, row) = Drop(t, E)
    BY DEF Purged, Purge
<1>4. \A j \in Present(t) : t[j] \in Row
    BY <1>2, TableRows
<1>5. \A j \in Present(t) : t[j].until \in Nat
    BY <1>4, RowFields
<1> HIDE DEF t
<1>6. /\ Drop(t, E) \in Table
      /\ Present(Drop(t, E)) = Present(t) \ E
      /\ \A j \in Present(t) \ E : Drop(t, E)[j] = t[j]
    BY <1>2, Dropped
<1>7. \A j \in Present(t) \ E : t[j].until > now
    BY <1>1, <1>5
<1>8. ASSUME NEW j \in Present(rows), j # k, rows[j].until > now
      PROVE  j \in Present(t) \ E /\ t[j] = rows[j]
  <2>1. j \in Keys /\ rows[j] # NONE
      BY DEF Present
  <2>2. t[j] = rows[j]
      BY <1>2, <1>8, <2>1
  <2>3. j \in Present(t)
      BY <2>1, <2>2 DEF Present
  <2>4. ~(t[j].until <= now)
      BY <1>1, <1>5, <1>8, <2>2, <2>3
  <2> QED BY <2>2, <2>3, <2>4
<1> HIDE DEF E
<1>9. Purged(k, row) \in Table
    BY <1>3, <1>6
<1>10. \A j \in Present(Purged(k, row)) : Purged(k, row)[j].until > now
    BY <1>3, <1>6, <1>7
<1>11. \A j \in Present(rows) : (j # k /\ rows[j].until > now) =>
          j \in Present(Purged(k, row)) /\ Purged(k, row)[j] = rows[j]
    BY <1>3, <1>6, <1>8
<1> QED BY <1>9, <1>10, <1>11

\* The table a write leaves.
LEMMA WriteLeaves ==
    ASSUME TypeOK, NEW k \in Keys, NEW row \in Row, Write(k, row)
    PROVE  /\ rows' = evict_oldest(Purged(k, row))
           /\ rows' \in Table
           /\ Present(rows') \subseteq Present(Purged(k, row))
           /\ \A j \in Present(rows') : rows'[j] = Purged(k, row)[j]
           /\ now' = now /\ written' = k
<1> DEFINE t == Purged(k, row)
<1>1. rows' = evict_oldest(t) /\ now' = now /\ written' = k
    BY DEF Write, Purged
<1>2. t \in Table
    BY PurgedRows
<1> HIDE DEF t
<1>3. rows' = t \/ rows' = Drop(t, Gone(t))
    BY <1>1, Evicts
<1>4. /\ Drop(t, Gone(t)) \in Table
      /\ Present(Drop(t, Gone(t))) = Present(t) \ Gone(t)
      /\ \A j \in Present(t) \ Gone(t) : Drop(t, Gone(t))[j] = t[j]
    BY <1>2, Dropped
<1>5. CASE rows' = t
    BY <1>1, <1>2, <1>5 DEF t
<1>6. CASE rows' = Drop(t, Gone(t))
  <2> DEFINE G == Gone(t)
  <2>1. rows' = Drop(t, G) /\ Drop(t, G) \in Table /\ Present(Drop(t, G)) = Present(t) \ G
        /\ \A j \in Present(t) \ G : Drop(t, G)[j] = t[j]
      BY <1>4, <1>6
  <2> HIDE DEF G
  <2>2. rows' \in Table /\ Present(rows') = Present(t) \ G
      BY <2>1
  <2>3. \A j \in Present(rows') : rows'[j] = t[j]
      BY <2>1, <2>2
  <2> QED BY <1>1, <2>2, <2>3 DEF t
<1> QED BY <1>3, <1>5, <1>6

LEMMA WriteKeepsTypes ==
    ASSUME TypeOK, NEW k \in Keys, NEW row \in Row, Write(k, row)
    PROVE  TypeOK'
<1>1. now' = now /\ now \in 0..MaxTime /\ written' = k
    BY WriteLeaves DEF TypeOK
<1>2. rows' \in [Keys -> Row \cup {NONE}]
    BY WriteLeaves DEF Table
<1>3. \A j \in Present(rows') : rows'[j].until > now
    BY WriteLeaves, PurgedRows
<1> QED BY <1>1, <1>2, <1>3 DEF TypeOK, Present

LEMMA WriteBounds ==
    ASSUME TypeOK, NEW k \in Keys, NEW row \in Row, Write(k, row)
    PROVE  OvershootBounded'
<1> DEFINE t == Purged(k, row)
<1>1. t \in Table /\ rows' \in Table /\ rows' = evict_oldest(t)
    BY PurgedRows, WriteLeaves
<1>2. MaxBytes \in Nat /\ Total(t) \in Nat
    BY <1>1, Sums, EvictAssumption
<1> HIDE DEF t
<1>3. CASE Total(t) <= MaxBytes
  <2>1. rows' = t
      BY <1>1, <1>3, Evicts
  <2>2. Total(rows') <= MaxBytes
      BY <1>3, <2>1
  <2> QED BY <2>2 DEF OvershootBounded, Total
<1>4. CASE ~(Total(t) <= MaxBytes)
  <2>1. rows' = Drop(t, Gone(t)) /\ Total(t) > MaxBytes
      BY <1>1, <1>2, <1>4, Evicts
  <2>2. Present(rows') = Present(t) \ Gone(t) /\ \A j \in Present(rows') : rows'[j] = t[j]
      BY <1>1, <2>1, Dropped
  <2> QED BY <1>1, <2>1, <2>2, LeavesLittle DEF OvershootBounded, Oldest, Total
<1> QED BY <1>3, <1>4

\* A row that a write deletes for its size comes before those it leaves.
LEMMA WriteEvictsInOrder ==
    ASSUME TypeOK, NEW k \in Keys, NEW row \in Row, Write(k, row),
           NEW gone \in Present(rows), NEW kept \in Present(rows'),
           gone # k, rows'[gone] = NONE, rows[gone].until > now
    PROVE  ~UpTo(rows'[kept], rows[gone]) /\ Total(rows') >= MaxBytes
<1> DEFINE t == Purged(k, row)
<1>1. t \in Table /\ rows' \in Table /\ rows' = evict_oldest(t)
      /\ kept \in Present(t) /\ rows'[kept] = t[kept]
    BY PurgedRows, WriteLeaves
<1>2. gone \in Present(t) /\ t[gone] = rows[gone]
    BY PurgedRows
<1>3. MaxBytes \in Nat /\ Total(t) \in Nat
    BY <1>1, Sums, EvictAssumption
<1> HIDE DEF t
<1>4. rows' # t
    BY <1>2 DEF Present
<1>5. rows' = Drop(t, Gone(t)) /\ Total(t) > MaxBytes
    BY <1>1, <1>3, <1>4, Evicts
<1>6. /\ Present(rows') = Present(t) \ Gone(t)
      /\ \A j \in Present(rows') : rows'[j] = t[j]
    BY <1>1, <1>5, Dropped
<1>7. gone \in Gone(t)
  <2>1. gone \notin Present(rows')
      BY DEF Present
  <2> QED BY <1>2, <1>6, <2>1
<1>8. kept \in Present(t) \ Gone(t)
    BY <1>6
<1>9. ~UpTo(t[kept], t[gone])
    BY <1>1, <1>5, <1>7, <1>8, LeavesLater
<1>10. Total(rows') >= MaxBytes
    BY <1>1, <1>5, <1>6, LeavesEnough
<1> QED BY <1>1, <1>2, <1>9, <1>10

LEMMA LookupKeepsTypes ==
    ASSUME TypeOK, NEW k \in Keys, Lookup(k)
    PROVE  TypeOK'
<1>1. now' = now /\ now \in 0..MaxTime /\ written' = NONE
    BY DEF Lookup, TypeOK
<1>2. rows[k] \in Row
    BY DEF Lookup, TypeOK
<1>3. [rows[k] EXCEPT !.at = now] \in Row
    BY <1>1, <1>2 DEF Row
<1>4. rows' = [rows EXCEPT ![k] = [rows[k] EXCEPT !.at = now]]
    BY DEF Lookup
<1>5. rows' \in [Keys -> Row \cup {NONE}]
    BY <1>3, <1>4 DEF TypeOK
<1> QED BY <1>1, <1>5 DEF TypeOK

LEMMA TickKeepsTypes ==
    ASSUME TypeOK, Tick
    PROVE  TypeOK'
<1>1. now' \in 0..MaxTime /\ written' = NONE /\ rows' = rows
    BY EvictAssumption DEF Tick, TypeOK
<1> QED BY <1>1 DEF TypeOK

\* What EvictsInOrder says of one step.
InOrder ==
    \A gone \in Present(rows), kept \in Present(rows') :
        (written' \notin {NONE, gone} /\ rows'[gone] = NONE /\ rows[gone].until > now) =>
            /\ ~UpTo(rows'[kept], rows[gone])
            /\ Total(rows') >= MaxBytes

LEMMA StepKeeps ==
    ASSUME TypeOK, OvershootBounded, [Next]_vars
    PROVE  TypeOK' /\ OvershootBounded' /\ (InOrder \/ UNCHANGED vars)
<1>1. ASSUME NEW k \in Keys, NEW s \in Sizes, NEW a \in 0..now, NEW c \in Costs,
             Write(k, [size |-> s, at |-> a, cost |-> c, until |-> now + Ttl])
      PROVE  TypeOK' /\ OvershootBounded' /\ InOrder
  <2> DEFINE row == [size |-> s, at |-> a, cost |-> c, until |-> now + Ttl]
  <2>1. row \in Row /\ Write(k, row)
      BY <1>1, WrittenRow
  <2> HIDE DEF row
  <2>2. TypeOK' /\ OvershootBounded' /\ written' = k
      BY <2>1, WriteKeepsTypes, WriteBounds, WriteLeaves
  <2>3. InOrder
      BY <2>1, <2>2, WriteEvictsInOrder DEF InOrder
  <2> QED BY <2>2, <2>3
<1>2. ASSUME NEW k \in Keys, Lookup(k)
      PROVE  TypeOK' /\ OvershootBounded' /\ InOrder
  <2>1. TypeOK'
      BY <1>2, LookupKeepsTypes
  <2>2. written' = NONE
      BY <1>2 DEF Lookup
  <2> QED BY <2>1, <2>2 DEF OvershootBounded, InOrder
<1>3. ASSUME Tick
      PROVE  TypeOK' /\ OvershootBounded' /\ InOrder
  <2>1. TypeOK'
      BY <1>3, TickKeepsTypes
  <2>2. written' = NONE
      BY <1>3 DEF Tick
  <2> QED BY <2>1, <2>2 DEF OvershootBounded, InOrder
<1>4. ASSUME UNCHANGED vars
      PROVE  TypeOK' /\ OvershootBounded'
  <2>1. now' = now /\ rows' = rows /\ written' = written
      BY <1>4 DEF vars
  <2>2. TypeOK'
      BY <2>1 DEF TypeOK, Present
  <2>3. OvershootBounded'
      BY <2>1 DEF OvershootBounded, Oldest, Total
  <2> QED BY <2>2, <2>3
<1> QED BY <1>1, <1>2, <1>3, <1>4 DEF Next

-----------------------------------------------------------------------------
\* The table keeps its types, and a write leaves no row that has expired.
THEOREM EvictTyped == Spec => []TypeOK
<1>1. Init => OvershootBounded
    BY DEF Init, OvershootBounded
<1>2. Init => TypeOK /\ OvershootBounded
    BY <1>1, InitTyped
<1>3. TypeOK /\ OvershootBounded /\ [Next]_vars => (TypeOK /\ OvershootBounded)'
    BY StepKeeps
<1> QED BY <1>2, <1>3, PTL DEF Spec

(* However many rows of whatever sizes there are: after a write, what is   *)
(* left without its oldest rows is under the limit.                        *)
THEOREM LimitHolds == Spec => []OvershootBounded
<1>1. Init => OvershootBounded
    BY DEF Init, OvershootBounded
<1>2. Init => TypeOK /\ OvershootBounded
    BY <1>1, InitTyped
<1>3. TypeOK /\ OvershootBounded /\ [Next]_vars => (TypeOK /\ OvershootBounded)'
    BY StepKeeps
<1> QED BY <1>2, <1>3, PTL DEF Spec

(* An eviction takes the least recently used rows, the cheapest first, and *)
(* no more of them than the limit asks for.                                *)
THEOREM LeastRecentGoFirst == Spec => EvictsInOrder
<1>1. Init => TypeOK /\ OvershootBounded
  <2>1. Init => OvershootBounded
      BY DEF Init, OvershootBounded
  <2> QED BY <2>1, InitTyped
<1>2. TypeOK /\ OvershootBounded /\ [Next]_vars => (TypeOK /\ OvershootBounded)'
    BY StepKeeps
<1>3. TypeOK /\ OvershootBounded /\ [Next]_vars => [InOrder]_vars
    BY StepKeeps
<1>4. EvictsInOrder <=> [][InOrder]_vars
    BY PTL DEF EvictsInOrder, InOrder
<1> QED BY <1>1, <1>2, <1>3, <1>4, PTL DEF Spec
=============================================================================
