---------------------------- MODULE GraphProofs ----------------------------
(***************************************************************************)
(* Proofs about ConversationGraph, the part "graph" of MCArchives: the     *)
(* search by colours finds every cycle and no other node, the branches     *)
(* hold what the roots lead to once each, and a report that says complete  *)
(* has seen a forest.  The prover has no induction of its own, so ReachIn, *)
(* ClosureIn and PathFrom are shown to exist by iterating a function       *)
(* (Iterates), and inductions on a number look at the least number that    *)
(* fails (LeastNumber).                                                    *)
(***************************************************************************)
EXTENDS MCArchives, FiniteSetTheorems, SequenceTheorems, WellFoundedInduction, TLAPS

(* Every set of numbers has a least one: induction, where the prover has   *)
(* none.                                                                   *)
LEMMA LeastNumber ==
  ASSUME NEW T \in SUBSET Nat, T # {}
  PROVE  \E x \in T : \A y \in T : x <= y
  <1> DEFINE R == OpToRel(<, Nat)
  <1>1. \A x, y \in Nat : y < x => <<y, x>> \in R
    BY DEF OpToRel
  <1>2. IsWellFoundedOn(R, Nat)
    BY NatLessThanWellFounded
  <1> HIDE DEF R
  <1>3. PICK x \in T : \A y \in T : ~ (<<y, x>> \in R)
    BY <1>2, WFMin
  <1>4. \A y \in T : x \in Nat /\ y \in Nat /\ ~(y < x)
    BY <1>1, <1>3
  <1>5. \A y \in T : x <= y
    BY <1>4
  <1> QED BY <1>5

(* The first n iterates of a function exist. *)
IsOrbit(f, D, a, g, n) ==
  f \in [0 .. n -> D] /\ f[0] = a /\ \A k \in 1 .. n : f[k] = g[f[k - 1]]

LEMMA Iterates ==
  ASSUME NEW D, NEW a \in D, NEW g \in [D -> D], NEW n \in Nat
  PROVE  \E f : IsOrbit(f, D, a, g, n)
  <1> DEFINE Has(k) == \E f \in [0 .. k -> D] : f[0] = a /\ \A i \in 1 .. k : f[i] = g[f[i - 1]]
             T == {k \in Nat : ~Has(k)}
  <1>1. Has(0)
    <2> DEFINE h == [i \in 0 .. 0 |-> a]
    <2>1. h \in [0 .. 0 -> D] /\ h[0] = a /\ \A i \in 1 .. 0 : h[i] = g[h[i - 1]]
      OBVIOUS
    <2> HIDE DEF h
    <2> QED BY <2>1
  <1>2. ASSUME NEW k \in Nat, k > 0, Has(k - 1) PROVE Has(k)
    <2>1. PICK f \in [0 .. k - 1 -> D] :
            f[0] = a /\ \A i \in 1 .. k - 1 : f[i] = g[f[i - 1]]
      BY <1>2
    <2> DEFINE h == [i \in 0 .. k |-> IF i = k THEN g[f[k - 1]] ELSE f[i]]
    <2>2. f[k - 1] \in D
      BY <1>2
    <2>3. h \in [0 .. k -> D]
      BY <2>2
    <2>4. h[0] = a
      BY <1>2, <2>1
    <2>5. ASSUME NEW i \in 1 .. k PROVE h[i] = g[h[i - 1]]
      <3>1. h[i - 1] = f[i - 1]
        OBVIOUS
      <3>2. CASE i = k
        BY <3>1, <3>2
      <3>3. CASE i # k
        BY <3>1, <3>3, <2>1
      <3> QED BY <3>2, <3>3
    <2> HIDE DEF h
    <2> QED BY <2>3, <2>4, <2>5
  <1>3. SUFFICES ASSUME T # {} PROVE FALSE
    BY DEF IsOrbit
  <1> HIDE DEF Has
  <1>4. PICK k \in T : \A y \in T : k <= y
    BY <1>3, LeastNumber
  <1>5. k # 0
    BY <1>1, <1>4
  <1>6. k - 1 \in Nat /\ k - 1 \notin T
    BY <1>4, <1>5
  <1> QED BY <1>2, <1>4, <1>5, <1>6

(* A set that grows within n elements is fixed after n steps: C are the    *)
(* steps at which it is.                                                   *)
LEMMA Growth ==
  ASSUME NEW S, IsFiniteSet(S), NEW n, n = Cardinality(S), NEW f \in [0 .. n -> SUBSET S], NEW C,
         \A k \in 0 .. n : f[k] = {} => k \in C,
         \A k \in 1 .. n : k - 1 \notin C => f[k - 1] # f[k] /\ f[k - 1] \subseteq f[k],
         \A k \in 1 .. n : k - 1 \in C => k \in C
  PROVE  n \in C
  <1>1. n \in Nat
    BY FS_CardinalityType
  <1> SUFFICES ASSUME n \notin C PROVE FALSE
    OBVIOUS
  <1>2. \A k \in 0 .. n : IsFiniteSet(f[k]) /\ Cardinality(f[k]) \in Nat /\ Cardinality(f[k]) <= n
    BY FS_Subset, FS_CardinalityType
  <1>3. ASSUME NEW k \in 0 .. n, k \in C PROVE FALSE
    <2> DEFINE T == {j \in Nat : k <= j /\ j <= n /\ j \notin C}
    <2>1. n \in T
      BY <1>1
    <2>2. PICK j \in T : \A y \in T : j <= y
      BY <2>1, LeastNumber
    <2>3. j # k /\ j \in 1 .. n
      BY <1>1, <1>3, <2>2
    <2>4. j - 1 \notin T
      BY <2>2, <2>3
    <2> QED BY <1>1, <2>2, <2>3, <2>4
  <1> DEFINE T == {k \in Nat : k <= n /\ Cardinality(f[k]) <= k}
  <1>4. n \in T
    BY <1>1, <1>2
  <1> HIDE DEF T
  <1>5. PICK k \in T : \A y \in T : k <= y
    BY <1>4, LeastNumber DEF T
  <1>6. k \in 0 .. n /\ k \in Nat /\ Cardinality(f[k]) <= k
    BY <1>1, <1>5 DEF T
  <1>7. k # 0
    <2> SUFFICES ASSUME k = 0 PROVE FALSE
      OBVIOUS
    <2>1. Cardinality(f[0]) = 0 /\ IsFiniteSet(f[0])
      BY <1>2, <1>6
    <2> QED BY <1>3, <1>6, <2>1, FS_EmptySet
  <1>8. k \in 1 .. n /\ k - 1 \in 0 .. n /\ k - 1 \notin T /\ k - 1 \in Nat
    BY <1>1, <1>5, <1>6, <1>7
  <1>9. Cardinality(f[k - 1]) > k - 1
    BY <1>1, <1>2, <1>8 DEF T
  <1>10. f[k - 1] # f[k] /\ f[k - 1] \subseteq f[k]
    BY <1>3, <1>8
  <1>11. /\ Cardinality(f[k - 1]) <= Cardinality(f[k])
         /\ Cardinality(f[k]) = Cardinality(f[k - 1]) => f[k] = f[k - 1]
    BY <1>2, <1>6, <1>10, FS_Subset
  <1> QED BY <1>2, <1>6, <1>8, <1>9, <1>10, <1>11
-----------------------------------------------------------------------------
(* The instance has operators of its own for what the library knows. *)
LEMMA SameCardinality == \A S : Graph!Cardinality(S) = Cardinality(S)
  BY DEF Graph!Cardinality, Cardinality

MappingTypes ==
  /\ parent \in [Nodes -> Graph!Ids \cup {NoNode}]
  /\ children \in [Nodes -> SUBSET Graph!Ids]

Closed(X) == \A n \in X : children[n] \cap Nodes \subseteq X

Reachable == Graph!ReachIn[Graph!Cardinality(Nodes)]

NodeCount == Cardinality(Nodes)

(* ReachIn exists, and grows by the children of what it has. *)
LEMMA ReachInDef ==
  /\ Graph!ReachIn \in [0 .. NodeCount -> SUBSET Nodes]
  /\ Graph!ReachIn[0] = Graph!Roots
  /\ \A k \in 1 .. NodeCount :
       Graph!ReachIn[k] = Graph!ReachIn[k - 1]
                            \cup UNION {children[n] \cap Nodes : n \in Graph!ReachIn[k - 1]}
  <1> DEFINE N == NodeCount
             D == SUBSET Nodes
             g == [X \in D |-> X \cup UNION {children[n] \cap Nodes : n \in X}]
             Is(f) == f = [k \in 0 .. N |->
                             IF k = 0 THEN Graph!Roots
                             ELSE f[k - 1] \cup UNION {children[n] \cap Nodes : n \in f[k - 1]}]
  <1>1. N \in Nat
    BY GraphAssumption, FS_CardinalityType DEF GraphAssumption, NodeCount
  <1>2. Graph!Roots \in D /\ g \in [D -> D]
    BY DEF Graph!Roots
  <1> HIDE DEF N
  <1>3. PICK f : IsOrbit(f, D, Graph!Roots, g, N)
    <2> HIDE DEF D, g
    <2> QED BY <1>1, <1>2, Iterates
  <1>4. f \in [0 .. N -> D] /\ f[0] = Graph!Roots /\ \A k \in 1 .. N : f[k] = g[f[k - 1]]
    BY <1>3 DEF IsOrbit
  <1>5. Is(f)
    <2>0. \A X \in D : g[X] = X \cup UNION {children[n] \cap Nodes : n \in X}
      OBVIOUS
    <2>00. \A k \in 1 .. N : f[k - 1] \in D
      BY <1>1, <1>4
    <2> HIDE DEF D, g
    <2>1. \A k \in 0 .. N : f[k] = IF k = 0 THEN Graph!Roots
                       ELSE f[k - 1] \cup UNION {children[n] \cap Nodes : n \in f[k - 1]}
      BY <1>1, <1>4, <2>0, <2>00
    <2>2. f = [k \in 0 .. N |-> f[k]]
      BY <1>4
    <2> QED BY <2>1, <2>2
  <1>6. Graph!ReachIn = CHOOSE h : Is(h)
    BY SameCardinality DEF Graph!ReachIn, N, NodeCount
  <1>7. Is(Graph!ReachIn)
    <2> HIDE DEF Is
    <2> QED BY <1>5, <1>6
  <1> DEFINE r == Graph!ReachIn
  <1>8. r = [k \in 0 .. N |->
               IF k = 0 THEN Graph!Roots
               ELSE r[k - 1] \cup UNION {children[n] \cap Nodes : n \in r[k - 1]}]
    BY <1>7
  <1> HIDE DEF r
  <1>9. /\ r[0] = Graph!Roots
        /\ \A k \in 1 .. N : r[k] = r[k - 1] \cup UNION {children[n] \cap Nodes : n \in r[k - 1]}
    BY <1>1, <1>8
  <1>10. \A k \in 0 .. N : r[k] \in SUBSET Nodes
    <2> DEFINE T == {k \in Nat : k <= N /\ r[k] \notin SUBSET Nodes}
    <2> SUFFICES ASSUME T # {} PROVE FALSE
      BY <1>1
    <2>1. PICK k \in T : \A y \in T : k <= y
      BY LeastNumber
    <2>2. k # 0
      BY <1>2, <1>9, <2>1
    <2>3. k \in 1 .. N /\ k - 1 \notin T /\ k - 1 \in Nat
      BY <1>1, <2>1, <2>2
    <2> QED BY <1>1, <1>9, <2>1, <2>3
  <1> QED BY <1>8, <1>9, <1>10 DEF r, N

LEMMA NodeCountType == NodeCount \in Nat /\ Graph!Cardinality(Nodes) = NodeCount
  BY GraphAssumption, SameCardinality, FS_CardinalityType DEF GraphAssumption, NodeCount

(* What can be reached is the least set that holds the roots and all       *)
(* children of its own.                                                    *)
LEMMA ReachIs ==
  /\ Reachable \subseteq Nodes /\ Graph!Roots \subseteq Reachable /\ Closed(Reachable)
  /\ \A X : Graph!Roots \subseteq X /\ Closed(X) => Reachable \subseteq X
  <1> DEFINE N == NodeCount
             r == Graph!ReachIn
             C == {k \in 0 .. N : Closed(r[k])}
  <1>1. N \in Nat /\ Reachable = r[N]
    BY NodeCountType DEF Reachable
  <1>2. r \in [0 .. N -> SUBSET Nodes] /\ r[0] = Graph!Roots
    BY ReachInDef
  <1>3. \A k \in 1 .. N : r[k] = r[k - 1] \cup UNION {children[n] \cap Nodes : n \in r[k - 1]}
    BY ReachInDef
  <1> HIDE DEF r, N
  <1>4. \A k \in 0 .. N : Graph!Roots \subseteq r[k]
    <2> DEFINE T == {k \in Nat : k <= N /\ ~(Graph!Roots \subseteq r[k])}
    <2> SUFFICES ASSUME T # {} PROVE FALSE
      BY <1>1
    <2>1. PICK k \in T : \A y \in T : k <= y
      BY LeastNumber
    <2>2. k # 0
      BY <1>2, <2>1
    <2>3. k \in 1 .. N /\ k - 1 \notin T /\ k - 1 \in Nat
      BY <1>1, <2>1, <2>2
    <2> QED BY <1>1, <1>3, <2>1, <2>3
  <1>5. Closed(r[N])
    <2>1. \A k \in 0 .. N : r[k] = {} => k \in C
      BY DEF Closed
    <2>2. ASSUME NEW k \in 1 .. N, k - 1 \notin C PROVE r[k - 1] # r[k] /\ r[k - 1] \subseteq r[k]
      <3>1. k - 1 \in 0 .. N
        BY <1>1
      <3>2. PICK n \in r[k - 1] : ~(children[n] \cap Nodes \subseteq r[k - 1])
        BY <2>2, <3>1 DEF Closed
      <3> QED BY <1>3, <3>2
    <2>3. ASSUME NEW k \in 1 .. N, k - 1 \in C PROVE k \in C
      <3>1. UNION {children[n] \cap Nodes : n \in r[k - 1]} \subseteq r[k - 1]
        BY <2>3 DEF Closed
      <3>2. r[k] = r[k - 1]
        BY <1>3, <3>1
      <3> QED BY <2>3, <3>2
    <2>4. IsFiniteSet(Nodes) /\ N = Cardinality(Nodes)
      BY GraphAssumption DEF GraphAssumption, N, NodeCount
    <2> HIDE DEF C
    <2>5. N \in C
      BY <1>2, <2>1, <2>2, <2>3, <2>4, Growth
    <2> QED BY <2>5 DEF C
  <1>6. ASSUME NEW X, Graph!Roots \subseteq X, Closed(X) PROVE r[N] \subseteq X
    <2> DEFINE T == {k \in Nat : k <= N /\ ~(r[k] \subseteq X)}
    <2> SUFFICES ASSUME T # {} PROVE FALSE
      BY <1>1
    <2>1. PICK k \in T : \A y \in T : k <= y
      BY LeastNumber
    <2>2. k # 0
      BY <1>2, <1>6, <2>1
    <2>3. k \in 1 .. N /\ k - 1 \notin T /\ k - 1 \in Nat
      BY <1>1, <2>1, <2>2
    <2>4. r[k - 1] \subseteq X
      BY <1>1, <2>3
    <2>5. UNION {children[n] \cap Nodes : n \in r[k - 1]} \subseteq X
      BY <1>6, <2>4 DEF Closed
    <2> QED BY <1>3, <2>1, <2>3, <2>4, <2>5
  <1> QED BY <1>1, <1>2, <1>4, <1>5, <1>6

(* The reference: what is in the closure after k doublings. *)
LEMMA ClosureInDef ==
  /\ Graph!ClosureIn \in [0 .. NodeCount -> SUBSET (Nodes \X Nodes)]
  /\ Graph!ClosureIn[0] = {e \in Nodes \X Nodes : e[2] \in children[e[1]]}
  /\ \A k \in 1 .. NodeCount : \A a, c \in Nodes :
       <<a, c>> \in Graph!ClosureIn[k] <=>
         \/ <<a, c>> \in Graph!ClosureIn[k - 1]
         \/ \E m \in Nodes : /\ <<a, m>> \in Graph!ClosureIn[k - 1]
                             /\ <<m, c>> \in Graph!ClosureIn[k - 1]
  <1> DEFINE N == NodeCount
             D == SUBSET (Nodes \X Nodes)
             Twice(R) == R \cup {e \in Nodes \X Nodes :
                                   \E m \in Nodes : <<e[1], m>> \in R /\ <<m, e[2]>> \in R}
             g == [R \in D |-> Twice(R)]
             Edges == {e \in Nodes \X Nodes : e[2] \in children[e[1]]}
             Is(f) == f = [k \in 0 .. N |-> IF k = 0 THEN Edges ELSE Twice(f[k - 1])]
  <1>1. N \in Nat
    BY NodeCountType
  <1>2. Edges \in D /\ g \in [D -> D] /\ \A R \in D : g[R] = Twice(R)
    OBVIOUS
  <1> HIDE DEF N
  <1>3. PICK f : IsOrbit(f, D, Edges, g, N)
    <2> HIDE DEF D, g, Edges
    <2> QED BY <1>1, <1>2, Iterates
  <1>4. f \in [0 .. N -> D] /\ f[0] = Edges /\ \A k \in 1 .. N : f[k] = g[f[k - 1]]
    BY <1>3 DEF IsOrbit
  <1>5. Is(f)
    <2> HIDE DEF D, g, Edges, Twice
    <2>1. \A k \in 1 .. N : f[k - 1] \in D
      BY <1>1, <1>4
    <2>2. \A k \in 0 .. N : f[k] = IF k = 0 THEN Edges ELSE Twice(f[k - 1])
      BY <1>1, <1>2, <1>4, <2>1
    <2>3. f = [k \in 0 .. N |-> f[k]]
      BY <1>4
    <2> QED BY <2>2, <2>3
  <1>6. Graph!ClosureIn = CHOOSE h : Is(h)
    BY SameCardinality DEF Graph!ClosureIn, N, NodeCount
  <1>7. Is(Graph!ClosureIn)
    <2> HIDE DEF Is
    <2> QED BY <1>5, <1>6
  <1> DEFINE r == Graph!ClosureIn
  <1>8. r = [k \in 0 .. N |-> IF k = 0 THEN Edges ELSE Twice(r[k - 1])]
    BY <1>7
  <1> HIDE DEF r, Twice, Edges
  <1>9. r[0] = Edges /\ \A k \in 1 .. N : r[k] = Twice(r[k - 1])
    BY <1>1, <1>8
  <1>10. \A k \in 0 .. N : r[k] \in D
    <2> HIDE DEF D
    <2> DEFINE T == {k \in Nat : k <= N /\ r[k] \notin D}
    <2> SUFFICES ASSUME T # {} PROVE FALSE
      BY <1>1
    <2>1. PICK k \in T : \A y \in T : k <= y
      BY LeastNumber
    <2>2. k # 0
      BY <1>2, <1>9, <2>1
    <2>3. k \in 1 .. N /\ k - 1 \notin T /\ k - 1 \in Nat
      BY <1>1, <2>1, <2>2
    <2>4. \A R \in D : Twice(R) \in D
      BY DEF Twice, D
    <2> QED BY <1>1, <1>9, <2>1, <2>3, <2>4
  <1>11. ASSUME NEW k \in 1 .. N, NEW a \in Nodes, NEW c \in Nodes
         PROVE <<a, c>> \in r[k] <=>
                 \/ <<a, c>> \in r[k - 1]
                 \/ \E m \in Nodes : <<a, m>> \in r[k - 1] /\ <<m, c>> \in r[k - 1]
    <2> DEFINE R == r[k - 1]
               e == <<a, c>>
    <2>1. r[k] = Twice(R)
      BY <1>9
    <2> HIDE DEF R
    <2>2. e \in Twice(R) <=>
            e \in R \/ e \in {x \in Nodes \X Nodes :
                              \E m \in Nodes : <<x[1], m>> \in R /\ <<m, x[2]>> \in R}
      BY DEF Twice
    <2>3. e \in Nodes \X Nodes /\ e[1] = a /\ e[2] = c
      OBVIOUS
    <2> HIDE DEF e
    <2>4. e \in {x \in Nodes \X Nodes : \E m \in Nodes : <<x[1], m>> \in R /\ <<m, x[2]>> \in R}
            <=> \E m \in Nodes : <<a, m>> \in R /\ <<m, c>> \in R
      BY <2>3
    <2> QED BY <2>1, <2>2, <2>4 DEF R, e
  <1> QED BY <1>8, <1>9, <1>10, <1>11 DEF r, N, Edges

(* Its doublings reach a fixed point: Descends is the transitive closure   *)
(* of the lists of children.                                               *)
DescendsIs ==
  /\ \A n \in Nodes : \A c \in children[n] \cap Nodes : Graph!Descends(n, c)
  /\ \A n, m, c \in Nodes : Graph!Descends(n, m) /\ Graph!Descends(m, c) => Graph!Descends(n, c)
  /\ \A n, c \in Nodes : Graph!Descends(n, c) =>
       \E m \in children[n] \cap Nodes : m = c \/ Graph!Descends(m, c)

LEMMA ClosureStable ==
  ASSUME NEW n \in Nodes
  PROVE  LET S == {c \in Nodes : Graph!Descends(n, c)}
         IN /\ children[n] \cap Nodes \subseteq S /\ Closed(S)
            /\ \A X : Closed(X) /\ children[n] \cap Nodes \subseteq X => S \subseteq X
  <1> DEFINE N == NodeCount
             r == Graph!ClosureIn
             f == [k \in 0 .. N |-> {c \in Nodes : <<n, c>> \in r[k]}]
             C == {k \in 0 .. N : Closed(f[k])}
  <1>1. N \in Nat /\ f[N] = {c \in Nodes : Graph!Descends(n, c)}
    BY NodeCountType DEF Graph!Descends
  <1>2. \A a, c \in Nodes : <<a, c>> \in r[0] <=> c \in children[a]
    <2> SUFFICES ASSUME NEW a \in Nodes, NEW c \in Nodes
                 PROVE <<a, c>> \in r[0] <=> c \in children[a]
      OBVIOUS
    <2> DEFINE e == <<a, c>>
    <2>1. e \in Nodes \X Nodes /\ e[1] = a /\ e[2] = c
      OBVIOUS
    <2>2. r[0] = {x \in Nodes \X Nodes : x[2] \in children[x[1]]}
      BY ClosureInDef
    <2> HIDE DEF e, r
    <2>3. e \in r[0] <=> c \in children[a]
      BY <2>1, <2>2
    <2> QED BY <2>3 DEF e
  <1>3. \A k \in 1 .. N : \A a, c \in Nodes :
          <<a, c>> \in r[k] <=>
            <<a, c>> \in r[k - 1] \/ \E m \in Nodes : <<a, m>> \in r[k - 1] /\ <<m, c>> \in r[k - 1]
    BY ClosureInDef
  <1> HIDE DEF r, N
  <1>4. \A k \in 0 .. N : \A a \in Nodes : \A c \in children[a] \cap Nodes : <<a, c>> \in r[k]
    <2> DEFINE Has(k) == \A a \in Nodes : \A c \in children[a] \cap Nodes : <<a, c>> \in r[k]
               T == {k \in Nat : k <= N /\ ~Has(k)}
    <2>0. SUFFICES ASSUME T # {} PROVE FALSE
      <3> HIDE DEF Has
      <3>1. \A k \in 0 .. N : Has(k)
        BY <1>1, <2>0
      <3> QED BY <3>1 DEF Has
    <2> HIDE DEF Has
    <2>1. PICK k \in T : \A y \in T : k <= y
      BY <2>0, LeastNumber
    <2>2. k # 0
      BY <1>2, <2>1 DEF Has
    <2>3. k \in 1 .. N /\ k - 1 \notin T /\ k - 1 \in Nat /\ k - 1 <= N
      BY <1>1, <2>1, <2>2
    <2>4. \A b \in Nodes : \A c \in children[b] \cap Nodes : <<b, c>> \in r[k - 1]
      BY <2>3 DEF Has
    <2> QED BY <1>3, <2>1, <2>3, <2>4 DEF Has
  <1>5. ASSUME NEW k \in 0 .. N, NEW a \in Nodes, NEW X, Closed(X),
                 children[a] \cap Nodes \subseteq X,
               NEW c \in Nodes, <<a, c>> \in r[k]
        PROVE c \in X
    <2> DEFINE Leads(j) == \A b, d \in Nodes : \A Y \in SUBSET Nodes :
                             Closed(Y) /\ children[b] \cap Nodes \subseteq Y
                               /\ <<b, d>> \in r[j] => d \in Y
               T == {j \in Nat : j <= N /\ ~Leads(j)}
    <2>1. Leads(0)
      BY <1>2
    <2>2. ASSUME NEW j \in 1 .. N, Leads(j - 1) PROVE Leads(j)
      <3> SUFFICES ASSUME NEW b \in Nodes, NEW d \in Nodes, NEW Y \in SUBSET Nodes, Closed(Y),
                          children[b] \cap Nodes \subseteq Y, <<b, d>> \in r[j]
                   PROVE d \in Y
        OBVIOUS
      <3>1. CASE <<b, d>> \in r[j - 1]
        BY <2>2, <3>1
      <3>2. CASE \E m \in Nodes : <<b, m>> \in r[j - 1] /\ <<m, d>> \in r[j - 1]
        <4>1. PICK m \in Nodes : <<b, m>> \in r[j - 1] /\ <<m, d>> \in r[j - 1]
          BY <3>2
        <4>2. m \in Y
          BY <2>2, <4>1
        <4>3. children[m] \cap Nodes \subseteq Y
          BY <4>2 DEF Closed
        <4> QED BY <2>2, <4>1, <4>3
      <3> QED BY <1>3, <3>1, <3>2
    <2>3. Leads(k)
      <3> SUFFICES ASSUME T # {} PROVE FALSE
        OBVIOUS
      <3> HIDE DEF Leads
      <3>1. PICK j \in T : \A y \in T : j <= y
        BY LeastNumber
      <3>2. j # 0
        BY <2>1, <3>1
      <3>3. j \in 1 .. N /\ j - 1 \notin T /\ j - 1 \in Nat /\ j - 1 <= N
        BY <1>1, <3>1, <3>2
      <3> QED BY <2>2, <3>1, <3>3
    <2>4. Closed(X \cap Nodes) /\ children[a] \cap Nodes \subseteq X \cap Nodes
      BY <1>5 DEF Closed
    <2> QED BY <1>5, <2>3, <2>4
  <1>6. \A k \in 0 .. N : f[k] = {c \in Nodes : <<n, c>> \in r[k]}
    OBVIOUS
  <1>7. f \in [0 .. N -> SUBSET Nodes]
    OBVIOUS
  <1> HIDE DEF f
  <1>8. Closed(f[N])
    <2>1. \A k \in 0 .. N : f[k] = {} => k \in C
      BY DEF Closed
    <2>2. ASSUME NEW k \in 1 .. N, k - 1 \notin C PROVE f[k - 1] # f[k] /\ f[k - 1] \subseteq f[k]
      <3>1. k - 1 \in 0 .. N /\ k \in 0 .. N
        BY <1>1
      <3>2. PICK m \in f[k - 1] : ~(children[m] \cap Nodes \subseteq f[k - 1])
        BY <2>2, <3>1 DEF Closed
      <3>3. PICK c \in children[m] \cap Nodes : c \notin f[k - 1]
        BY <3>2
      <3>4. m \in Nodes /\ <<n, m>> \in r[k - 1] /\ <<m, c>> \in r[k - 1]
        BY <1>4, <1>6, <3>1, <3>2, <3>3
      <3>5. c \in f[k]
        BY <1>3, <1>6, <3>1, <3>3, <3>4
      <3>6. f[k - 1] \subseteq f[k]
        BY <1>3, <1>6, <3>1
      <3> QED BY <3>3, <3>5, <3>6
    <2>3. ASSUME NEW k \in 1 .. N, k - 1 \in C PROVE k \in C
      <3>1. k - 1 \in 0 .. N /\ k \in 0 .. N
        BY <1>1
      <3>2. children[n] \cap Nodes \subseteq f[k - 1]
        BY <1>4, <1>6, <3>1
      <3>3. f[k] \subseteq f[k - 1]
        BY <1>5, <1>6, <2>3, <3>1, <3>2
      <3>4. f[k - 1] \subseteq f[k]
        BY <1>3, <1>6, <3>1
      <3>5. f[k] = f[k - 1]
        BY <3>3, <3>4
      <3> QED BY <2>3, <3>1, <3>5
    <2>4. IsFiniteSet(Nodes) /\ N = Cardinality(Nodes)
      BY GraphAssumption DEF GraphAssumption, N, NodeCount
    <2> HIDE DEF C
    <2>5. N \in C
      BY <1>7, <2>1, <2>2, <2>3, <2>4, Growth
    <2> QED BY <2>5 DEF C
  <1>9. N \in 0 .. N /\ f[N] = {c \in Nodes : <<n, c>> \in r[N]}
    BY <1>1, <1>6
  <1>10. children[n] \cap Nodes \subseteq f[N]
    BY <1>4, <1>9
  <1>11. \A X : Closed(X) /\ children[n] \cap Nodes \subseteq X => f[N] \subseteq X
    BY <1>5, <1>9
  <1> QED BY <1>1, <1>8, <1>10, <1>11

LEMMA DescendsHolds == DescendsIs
  <1> DEFINE S(n) == {c \in Nodes : Graph!Descends(n, c)}
  <1>1. \A n \in Nodes : children[n] \cap Nodes \subseteq S(n) /\ Closed(S(n))
    BY ClosureStable
  <1>2. \A n \in Nodes : \A X : Closed(X) /\ children[n] \cap Nodes \subseteq X => S(n) \subseteq X
    BY ClosureStable
  <1>3. \A n, m, c \in Nodes : Graph!Descends(n, m) /\ Graph!Descends(m, c) => Graph!Descends(n, c)
    <2> SUFFICES ASSUME NEW n \in Nodes, NEW m \in Nodes, NEW c \in Nodes,
                        Graph!Descends(n, m), Graph!Descends(m, c)
                 PROVE Graph!Descends(n, c)
      OBVIOUS
    <2>1. m \in S(n) /\ c \in S(m)
      OBVIOUS
    <2>2. children[m] \cap Nodes \subseteq S(n)
      BY <1>1, <2>1 DEF Closed
    <2>3. S(m) \subseteq S(n)
      BY <1>1, <1>2, <2>2
    <2> QED BY <2>1, <2>3
  <1>4. ASSUME NEW n \in Nodes, NEW c \in Nodes, Graph!Descends(n, c)
        PROVE \E m \in children[n] \cap Nodes : m = c \/ Graph!Descends(m, c)
    <2> DEFINE X == {d \in Nodes : \E m \in children[n] \cap Nodes : m = d \/ Graph!Descends(m, d)}
    <2>1. \A d \in Nodes : \A b \in children[d] \cap Nodes : Graph!Descends(d, b)
      BY <1>1
    <2>2. Closed(X)
      BY <1>3, <2>1 DEF Closed
    <2>3. children[n] \cap Nodes \subseteq X
      OBVIOUS
    <2>4. S(n) \subseteq X
      BY <1>2, <2>2, <2>3
    <2> QED BY <1>4, <2>4
  <1> QED BY <1>1, <1>3, <1>4 DEF DescendsIs

(* An order of a finite set lists each of its elements once. *)
Elements(s) == {s[i] : i \in DOMAIN s}

LEMMA ListedIs ==
  ASSUME NEW S, IsFiniteSet(S)
  PROVE  /\ Graph!Listed(S) \in Seq(S) /\ Len(Graph!Listed(S)) = Cardinality(S)
         /\ Elements(Graph!Listed(S)) = S
  <1> DEFINE n == Cardinality(S)
             Good(q) == q \in [1 .. n -> S] /\ \A i, j \in DOMAIN q : q[i] = q[j] => i = j
  <1>1. n \in Nat /\ ExistsBijection(1 .. n, S)
    BY FS_CardinalityType
  <1>2. PICK b : b \in Bijection(1 .. n, S)
    BY <1>1 DEF ExistsBijection
  <1>3. Good(b)
    BY <1>2 DEF Bijection, Injection, IsInjective
  <1>4. Graph!Listed(S) = CHOOSE q \in [1 .. n -> S] : \A i, j \in DOMAIN q : q[i] = q[j] => i = j
    BY SameCardinality DEF Graph!Listed
  <1>5. Good(Graph!Listed(S))
    BY <1>3, <1>4
  <1> DEFINE q == Graph!Listed(S)
  <1> HIDE DEF q
  <1>6. q \in Injection(1 .. n, S)
    BY <1>5 DEF q, Injection, IsInjective
  <1>7. IsFiniteSet(1 .. n) /\ Cardinality(1 .. n) = n
    BY <1>1, FS_Interval
  <1>8. q \in Surjection(1 .. n, S)
    BY <1>6, <1>7, FS_Injection
  <1>9. Elements(q) = S
    BY <1>6, <1>8 DEF Elements, Surjection, Injection
  <1> QED BY <1>1, <1>5, <1>9 DEF q
-----------------------------------------------------------------------------
(* The search by colours.  The grey nodes are those an entry of the stack  *)
(* says to leave; each leads to everything above it, and each of its       *)
(* children is done, reported or above it.  A child of a black node is     *)
(* black or reported, so that black nodes form no cycle without a reported *)
(* node: any set of them has one whose children within the set are all     *)
(* reported.                                                               *)
SearchTypes ==
  /\ MappingTypes
  /\ colour \in [Nodes -> {"white", "grey", "black"}]
  /\ stack \in Seq(Nodes \X BOOLEAN)
  /\ cycles \in SUBSET Nodes
  /\ pass \in {"cycles", "branches", "done"}

GreyStacked ==
  /\ \A n \in Nodes : colour[n] = "grey" <=> \E i \in DOMAIN stack : stack[i] = <<n, TRUE>>
  /\ \A i, j \in DOMAIN stack :
       stack[i][2] /\ stack[j][2] /\ stack[i][1] = stack[j][1] => i = j

StackDescends ==
  \A i, j \in DOMAIN stack : i < j /\ stack[i][2] => Graph!Descends(stack[i][1], stack[j][1])

ChildrenAbove ==
  \A i \in DOMAIN stack : stack[i][2] =>
    \A c \in children[stack[i][1]] \cap Nodes :
      colour[c] = "black" \/ c \in cycles \/ \E j \in DOMAIN stack : j > i /\ stack[j][1] = c

BlackChildren ==
  \A n \in Nodes : colour[n] = "black" =>
    \A c \in children[n] \cap Nodes : colour[c] = "black" \/ c \in cycles

BlackAcyclic ==
  \A S \in SUBSET Nodes : S # {} /\ (\A n \in S : colour[n] = "black") =>
    \E n \in S : \A c \in children[n] \cap S : c \in cycles

SearchInv ==
  /\ SearchTypes /\ GreyStacked /\ StackDescends /\ ChildrenAbove /\ BlackChildren /\ BlackAcyclic
  /\ \A n \in cycles : Graph!Descends(n, n)
  /\ pass # "cycles" => stack = <<>> /\ \A n \in Nodes : colour[n] = "black"

LEMMA SearchInit == Graph!Init => SearchInv
  <1> SUFFICES ASSUME Graph!Init PROVE SearchInv
    OBVIOUS
  <1>1. MappingTypes
    BY DEF Graph!Init, MappingTypes, Graph!Ids
  <1>2. /\ pass = "cycles" /\ stack = <<>> /\ cycles = {}
        /\ colour = [n \in Nodes |-> "white"]
    BY DEF Graph!Init
  <1>3. SearchTypes
    BY <1>1, <1>2 DEF SearchTypes
  <1> QED
    BY <1>2, <1>3 DEF SearchInv, GreyStacked, StackDescends, ChildrenAbove, BlackChildren,
         BlackAcyclic

(* The top of a stack is replaced by x and, above it, by q. *)
Push(s, x, q) == SubSeq(s, 1, Len(s) - 1) \o <<x>> \o q

IsPush(r, s, x, q) ==
  /\ Len(r) = Len(s) + Len(q)
  /\ \A i \in 1 .. Len(s) - 1 : r[i] = s[i]
  /\ r[Len(s)] = x
  /\ \A i \in 1 .. Len(q) : r[Len(s) + i] = q[i]

LEMMA PushIs ==
  ASSUME NEW T, NEW s \in Seq(T), s # <<>>, NEW x \in T, NEW q \in Seq(T)
  PROVE  Push(s, x, q) \in Seq(T) /\ IsPush(Push(s, x, q), s, x, q)
  <1> DEFINE p == SubSeq(s, 1, Len(s) - 1)
             t == p \o <<x>>
             r == Push(s, x, q)
  <1> HIDE DEF r
  <1>1. p \in Seq(T) /\ Len(p) = Len(s) - 1 /\ \A i \in 1 .. Len(s) - 1 : p[i] = s[i]
    <2>1. Len(s) \in Nat /\ Len(s) > 0 /\ \A i \in 1 .. Len(s) - 1 : s[i] \in T
      OBVIOUS
    <2> HIDE DEF t
    <2>2. p \in Seq(T)
      BY <2>1
    <2>3. Len(p) = Len(s) - 1
      <3> DEFINE m == Len(s) - 1
      <3>1. 1 \in Int /\ m \in Int /\ m >= 0 /\ \A i \in 1 .. m : s[i] \in T
        BY <2>1
      <3> HIDE DEF m
      <3>2. Len(SubSeq(s, 1, m)) = IF 1 <= m THEN m - 1 + 1 ELSE 0
        BY <3>1, SubSeqProperties
      <3>3. (IF 1 <= m THEN m - 1 + 1 ELSE 0) = m
        BY <3>1
      <3> QED BY <3>2, <3>3 DEF m
    <2>4. \A i \in 1 .. Len(s) - 1 : p[i] = s[i]
      BY <2>1
    <2> QED BY <2>2, <2>3, <2>4
  <1>2. <<x>> \in Seq(T) /\ Len(<<x>>) = 1 /\ <<x>>[1] = x
    OBVIOUS
  <1> HIDE DEF p
  <1>3. /\ t \in Seq(T) /\ Len(t) = Len(s) /\ t[Len(s)] = x
        /\ \A i \in 1 .. Len(s) - 1 : t[i] = s[i]
    BY <1>1, <1>2
  <1> HIDE DEF t
  <1>4. r = t \o q
    BY DEF p, t, r, Push
  <1>5. r \in Seq(T) /\ Len(r) = Len(t) + Len(q)
    BY <1>3, <1>4, ConcatProperties
  <1>6. \A i \in 1 .. Len(t) : r[i] = t[i]
    BY <1>3, <1>4, ConcatProperties
  <1>7. \A i \in 1 .. Len(q) : r[Len(t) + i] = q[i]
    <2> SUFFICES ASSUME NEW i \in 1 .. Len(q) PROVE r[Len(t) + i] = q[i]
      OBVIOUS
    <2>1. Len(t) \in Nat /\ Len(q) \in Nat
      BY <1>3, LenProperties
    <2> DEFINE k == Len(t) + i
    <2>2. k \in 1 .. Len(t) + Len(q) /\ ~(k <= Len(t)) /\ k - Len(t) = i
      BY <2>1
    <2> HIDE DEF k
    <2>3. r[k] = IF k <= Len(t) THEN t[k] ELSE q[k - Len(t)]
      BY <1>3, <1>4, <2>2, ConcatProperties
    <2> QED BY <2>2, <2>3 DEF k
  <1>8. Len(s) \in Nat /\ Len(s) > 0 /\ Len(t) = Len(s)
    BY <1>3
  <1>9. \A i \in 1 .. Len(s) - 1 : r[i] = s[i]
    BY <1>3, <1>6, <1>8
  <1>10. r[Len(s)] = x
    BY <1>3, <1>6, <1>8
  <1>11. Len(r) = Len(s) + Len(q)
    BY <1>5, <1>8
  <1>12. \A i \in 1 .. Len(q) : r[Len(s) + i] = q[i]
    BY <1>7, <1>8
  <1> QED BY <1>5, <1>9, <1>10, <1>11, <1>12 DEF r, IsPush

LEMMA DescendsStable ==
  ASSUME children' = children
  PROVE  \A n, c : Graph!Descends(n, c)' <=> Graph!Descends(n, c)
  BY DEF Graph!Descends, Graph!ClosureIn

(* What Start, Enter, Leave and Meet have in common. *)
LEMMA TopIs ==
  ASSUME SearchInv, stack # <<>>
  PROVE  /\ Len(stack) \in Nat /\ Len(stack) > 0 /\ Len(stack) \in DOMAIN stack
         /\ DOMAIN stack = 1 .. Len(stack)
         /\ Graph!Top = stack[Len(stack)] /\ Graph!Top \in Nodes \X BOOLEAN
         /\ Graph!Top = <<Graph!Top[1], Graph!Top[2]>>
         /\ Graph!Top[1] \in Nodes /\ Graph!Top[2] \in BOOLEAN
         /\ Graph!Rest \in Seq(Nodes \X BOOLEAN) /\ Len(Graph!Rest) = Len(stack) - 1
         /\ DOMAIN Graph!Rest = 1 .. Len(stack) - 1
         /\ \A i \in 1 .. Len(stack) - 1 : Graph!Rest[i] = stack[i]
         /\ \A i \in DOMAIN stack : stack[i] \in Nodes \X BOOLEAN
  <1>1. stack \in Seq(Nodes \X BOOLEAN)
    BY DEF SearchInv, SearchTypes
  <1>2. /\ Len(stack) \in Nat /\ Len(stack) > 0 /\ DOMAIN stack = 1 .. Len(stack)
        /\ \A i \in DOMAIN stack : stack[i] \in Nodes \X BOOLEAN
    BY <1>1
  <1>3. /\ Graph!Rest \in Seq(Nodes \X BOOLEAN) /\ Len(Graph!Rest) = Len(stack) - 1
        /\ DOMAIN Graph!Rest = 1 .. Len(stack) - 1
        /\ \A i \in 1 .. Len(stack) - 1 : Graph!Rest[i] = stack[i]
    BY <1>1, <1>2 DEF Graph!Rest
  <1>4. Len(stack) \in DOMAIN stack /\ Graph!Top = stack[Len(stack)]
    BY <1>2 DEF Graph!Top
  <1>5. Graph!Top \in Nodes \X BOOLEAN
    BY <1>2, <1>4
  <1>6. /\ Graph!Top = <<Graph!Top[1], Graph!Top[2]>>
        /\ Graph!Top[1] \in Nodes /\ Graph!Top[2] \in BOOLEAN
    BY <1>5
  <1> QED BY <1>2, <1>3, <1>4, <1>5, <1>6

LEMMA StartStep == SearchInv /\ Graph!Start => SearchInv'
  <1> SUFFICES ASSUME SearchInv, Graph!Start PROVE SearchInv'
    OBVIOUS
  <1>1. PICK n \in Nodes : colour[n] = "white" /\ stack' = <<<<n, FALSE>>>>
    BY DEF Graph!Start
  <1>2. /\ pass = "cycles" /\ stack = <<>>
        /\ UNCHANGED <<parent, children, pass, colour, cycles>>
    BY DEF Graph!Start, Graph!mappingVars
  <1>3. /\ stack' \in Seq(Nodes \X BOOLEAN) /\ DOMAIN stack' = {1} /\ stack'[1] = <<n, FALSE>>
        /\ stack'[1][1] = n /\ stack'[1][2] = FALSE
    <2> DEFINE e == <<n, FALSE>>
    <2>1. e \in Nodes \X BOOLEAN /\ e[1] = n /\ e[2] = FALSE
      OBVIOUS
    <2>2. stack' = <<e>>
      BY <1>1
    <2> HIDE DEF e
    <2>3. stack' \in Seq(Nodes \X BOOLEAN) /\ DOMAIN stack' = {1} /\ stack'[1] = e
      BY <2>1, <2>2
    <2> QED BY <2>1, <2>3 DEF e
  <1>4. SearchTypes'
    BY <1>2, <1>3 DEF SearchInv, SearchTypes, MappingTypes
  <1>5. GreyStacked'
    <2>1. \A m \in Nodes : colour[m] # "grey"
      BY <1>2 DEF SearchInv, GreyStacked
    <2>2. \A m \in Nodes : ~ \E i \in DOMAIN stack' : stack'[i] = <<m, TRUE>>
      <3> SUFFICES ASSUME NEW m \in Nodes, stack'[1] = <<m, TRUE>> PROVE FALSE
        BY <1>3
      <3>1. stack'[1][2] = TRUE
        OBVIOUS
      <3> QED BY <1>3, <3>1
    <2> QED BY <1>2, <1>3, <2>1, <2>2 DEF GreyStacked
  <1>6. StackDescends'
    BY <1>3 DEF StackDescends
  <1>7. ChildrenAbove'
    BY <1>3 DEF ChildrenAbove
  <1>8. BlackChildren' /\ BlackAcyclic'
    BY <1>2 DEF SearchInv, BlackChildren, BlackAcyclic
  <1>9. \A m \in cycles' : Graph!Descends(m, m)'
    BY <1>2, DescendsStable DEF SearchInv
  <1> QED BY <1>2, <1>4, <1>5, <1>6, <1>7, <1>8, <1>9 DEF SearchInv

LEMMA LeaveStep == SearchInv /\ Graph!Leave => SearchInv'
  <1> SUFFICES ASSUME SearchInv, Graph!Leave PROVE SearchInv'
    OBVIOUS
  <1> DEFINE L == Len(stack)
             n == Graph!Top[1]
  <1>1. /\ stack # <<>> /\ Graph!Top[2] /\ stack' = Graph!Rest
        /\ colour' = [colour EXCEPT ![n] = "black"]
        /\ UNCHANGED <<parent, children, pass, cycles>>
    BY DEF Graph!Leave, Graph!mappingVars
  <1>2. /\ L \in Nat /\ L > 0 /\ L \in DOMAIN stack /\ DOMAIN stack = 1 .. L
        /\ stack[L] = <<n, TRUE>> /\ n \in Nodes
        /\ DOMAIN stack' = 1 .. L - 1 /\ \A i \in 1 .. L - 1 : stack'[i] = stack[i]
    BY <1>1, TopIs
  <1>3. stack[L][1] = n /\ stack[L][2]
    BY <1>2
  <1>4. SearchTypes'
    BY <1>1, <1>2, TopIs DEF SearchInv, SearchTypes, MappingTypes
  <1>5. colour[n] = "grey"
    BY <1>2 DEF SearchInv, GreyStacked
  <1>6. /\ colour' \in [Nodes -> {"white", "grey", "black"}]
        /\ \A m \in Nodes : colour'[m] = IF m = n THEN "black" ELSE colour[m]
    BY <1>1, <1>4 DEF SearchInv, SearchTypes
  <1> HIDE DEF L, n
  <1>7. GreyStacked'
    <2>1. \A i, j \in DOMAIN stack :
            stack[i][2] /\ stack[j][2] /\ stack[i][1] = stack[j][1] => i = j
      BY DEF SearchInv, GreyStacked
    <2>2. ASSUME NEW m \in Nodes
          PROVE  colour'[m] = "grey" <=> \E i \in DOMAIN stack' : stack'[i] = <<m, TRUE>>
      <3>1. colour[m] = "grey" <=> \E i \in DOMAIN stack : stack[i] = <<m, TRUE>>
        BY DEF SearchInv, GreyStacked
      <3>2. CASE m = n
        <4>1. ASSUME NEW i \in DOMAIN stack, stack[i] = <<n, TRUE>> PROVE i = L
          <5>1. stack[i][1] = n /\ stack[i][2]
            BY <4>1
          <5> QED BY <1>2, <1>3, <2>1, <5>1
        <4>2. ASSUME NEW i \in 1 .. L - 1, stack'[i] = <<n, TRUE>> PROVE FALSE
          <5>1. i \in DOMAIN stack /\ i # L
            BY <1>2
          <5>2. stack[i] = <<n, TRUE>>
            BY <1>2, <4>2
          <5> QED BY <4>1, <5>1, <5>2
        <4> QED BY <1>2, <1>6, <3>2, <4>2
      <3>3. CASE m # n
        <4>1. \A i \in DOMAIN stack : stack[i] = <<m, TRUE>> => i # L
          BY <1>3, <3>3
        <4>2. (\E i \in DOMAIN stack : stack[i] = <<m, TRUE>>)
                <=> \E i \in DOMAIN stack' : stack'[i] = <<m, TRUE>>
          <5>0. \A i \in DOMAIN stack : i # L => i \in 1 .. L - 1
            BY <1>2
          <5>1. \A i \in DOMAIN stack : stack[i] = <<m, TRUE>> => i \in 1 .. L - 1
            BY <5>0, <4>1
          <5>2. \A i \in 1 .. L - 1 : i \in DOMAIN stack
            BY <1>2
          <5> QED BY <1>2, <5>1, <5>2
        <4> QED BY <1>6, <3>1, <3>3, <4>2
      <3> QED BY <3>2, <3>3
    <2>3. \A i \in DOMAIN stack' : i \in DOMAIN stack /\ stack'[i] = stack[i]
      BY <1>2
    <2> HIDE DEF L
    <2>4. \A i, j \in DOMAIN stack' :
            stack'[i][2] /\ stack'[j][2] /\ stack'[i][1] = stack'[j][1] => i = j
      BY <2>1, <2>3
    <2> QED BY <2>2, <2>4 DEF GreyStacked
  <1>8. StackDescends'
    BY <1>1, <1>2, DescendsStable DEF SearchInv, StackDescends
  <1>9. ChildrenAbove'
    <2> SUFFICES ASSUME NEW i \in 1 .. L - 1, stack[i][2],
                        NEW c \in children[stack[i][1]] \cap Nodes
                 PROVE  \/ colour'[c] = "black" \/ c \in cycles
                        \/ \E j \in 1 .. L - 1 : j > i /\ stack[j][1] = c
      BY <1>1, <1>2 DEF ChildrenAbove
    <2>1. \/ colour[c] = "black" \/ c \in cycles
          \/ \E j \in 1 .. L : j > i /\ stack[j][1] = c
      BY <1>2 DEF SearchInv, ChildrenAbove
    <2>2. CASE \E j \in 1 .. L : j > i /\ stack[j][1] = c
      <3>1. PICK j \in 1 .. L : j > i /\ stack[j][1] = c
        BY <2>2
      <3>2. j = L => c = n
        BY <1>3, <3>1
      <3> QED BY <1>2, <1>6, <3>1, <3>2
    <2> QED BY <1>6, <2>1, <2>2
  <1>10. \A c \in children[n] \cap Nodes : colour[c] = "black" \/ c \in cycles
    <2>1. \A c \in children[n] \cap Nodes :
            colour[c] = "black" \/ c \in cycles \/ \E j \in DOMAIN stack : j > L /\ stack[j][1] = c
      BY <1>2, <1>3 DEF SearchInv, ChildrenAbove
    <2>2. \A j \in DOMAIN stack : ~(j > L)
      BY <1>2
    <2> QED BY <2>1, <2>2
  <1>11. BlackChildren'
    BY <1>1, <1>6, <1>10 DEF SearchInv, BlackChildren
  <1>12. BlackAcyclic'
    <2> SUFFICES ASSUME NEW S \in SUBSET Nodes, S # {}, \A m \in S : colour'[m] = "black"
                 PROVE  \E m \in S : \A c \in children[m] \cap S : c \in cycles
      BY <1>1 DEF BlackAcyclic
    <2> DEFINE R == S \ {n}
    <2>1. R \in SUBSET Nodes /\ \A m \in R : colour[m] = "black"
      BY <1>6
    <2>2. CASE R = {}
      <3>1. S = {n}
        BY <2>2
      <3>2. \A c \in children[n] \cap S : c \in cycles
        BY <1>2, <1>5, <1>10, <3>1
      <3> QED BY <3>1, <3>2
    <2>3. CASE R # {}
      <3>1. PICK m \in R : \A c \in children[m] \cap R : c \in cycles
        BY <2>1, <2>3 DEF SearchInv, BlackAcyclic
      <3>2. n \in children[m] => n \in cycles
        BY <1>2, <1>5, <2>1, <3>1 DEF SearchInv, BlackChildren
      <3>3. \A c \in children[m] \cap S : c \in cycles
        BY <3>1, <3>2
      <3> QED BY <3>1, <3>3
    <2> QED BY <2>2, <2>3
  <1>13. \A m \in cycles' : Graph!Descends(m, m)'
    BY <1>1, DescendsStable DEF SearchInv
  <1>14. pass' = "cycles"
    BY <1>1 DEF SearchInv
  <1> QED BY <1>4, <1>7, <1>8, <1>9, <1>11, <1>12, <1>13, <1>14 DEF SearchInv

LEMMA MeetStep == SearchInv /\ Graph!Meet => SearchInv'
  <1> SUFFICES ASSUME SearchInv, Graph!Meet PROVE SearchInv'
    OBVIOUS
  <1> DEFINE L == Len(stack)
             n == Graph!Top[1]
  <1>1. /\ stack # <<>> /\ ~Graph!Top[2] /\ colour[n] # "white" /\ stack' = Graph!Rest
        /\ cycles' = IF colour[n] = "grey" THEN cycles \cup {n} ELSE cycles
        /\ UNCHANGED <<parent, children, pass, colour>>
    BY DEF Graph!Meet, Graph!mappingVars
  <1>2. /\ L \in Nat /\ L > 0 /\ L \in DOMAIN stack /\ DOMAIN stack = 1 .. L
        /\ stack[L] = <<n, FALSE>> /\ n \in Nodes
        /\ DOMAIN stack' = 1 .. L - 1 /\ \A i \in 1 .. L - 1 : stack'[i] = stack[i]
    BY <1>1, TopIs
  <1>3. stack[L][1] = n /\ stack[L][2] = FALSE
    BY <1>2
  <1>4. SearchTypes'
    BY <1>1, <1>2, TopIs DEF SearchInv, SearchTypes, MappingTypes
  <1>5. colour[n] = "black" \/ n \in cycles'
    BY <1>1, <1>2 DEF SearchInv, SearchTypes
  <1>6. cycles \subseteq cycles'
    BY <1>1
  <1> HIDE DEF L, n
  <1>7. GreyStacked'
    <2>1. \A i, j \in DOMAIN stack' :
            stack'[i][2] /\ stack'[j][2] /\ stack'[i][1] = stack'[j][1] => i = j
      <3>1. \A i \in DOMAIN stack' : i \in DOMAIN stack /\ stack'[i] = stack[i]
        BY <1>2
      <3> QED BY <3>1 DEF SearchInv, GreyStacked
    <2>2. ASSUME NEW m \in Nodes
          PROVE  colour[m] = "grey" <=> \E i \in DOMAIN stack' : stack'[i] = <<m, TRUE>>
      <3>1. colour[m] = "grey" <=> \E i \in DOMAIN stack : stack[i] = <<m, TRUE>>
        BY DEF SearchInv, GreyStacked
      <3>2. \A i \in DOMAIN stack : stack[i] = <<m, TRUE>> => i # L
        <4> SUFFICES ASSUME stack[L] = <<m, TRUE>> PROVE FALSE
          OBVIOUS
        <4>1. stack[L][2] = TRUE
          OBVIOUS
        <4> QED BY <1>3, <4>1
      <3>3. \A i \in DOMAIN stack : i # L => i \in 1 .. L - 1
        BY <1>2
      <3>4. \A i \in 1 .. L - 1 : i \in DOMAIN stack
        BY <1>2
      <3> QED BY <1>2, <3>1, <3>2, <3>3, <3>4
    <2> QED BY <1>1, <2>1, <2>2 DEF GreyStacked
  <1>8. StackDescends'
    BY <1>1, <1>2, DescendsStable DEF SearchInv, StackDescends
  <1>9. ChildrenAbove'
    <2> SUFFICES ASSUME NEW i \in 1 .. L - 1, stack[i][2],
                        NEW c \in children[stack[i][1]] \cap Nodes
                 PROVE  \/ colour[c] = "black" \/ c \in cycles'
                        \/ \E j \in 1 .. L - 1 : j > i /\ stack[j][1] = c
      BY <1>1, <1>2 DEF ChildrenAbove
    <2>1. \/ colour[c] = "black" \/ c \in cycles
          \/ \E j \in 1 .. L : j > i /\ stack[j][1] = c
      BY <1>2 DEF SearchInv, ChildrenAbove
    <2>2. CASE \E j \in 1 .. L : j > i /\ stack[j][1] = c
      <3>1. PICK j \in 1 .. L : j > i /\ stack[j][1] = c
        BY <2>2
      <3>2. j = L => c = n
        BY <1>3, <3>1
      <3> QED BY <1>2, <1>5, <3>1, <3>2
    <2> QED BY <1>6, <2>1, <2>2
  <1>10. BlackChildren' /\ BlackAcyclic'
    BY <1>1, <1>6 DEF SearchInv, BlackChildren, BlackAcyclic
  <1>11. ASSUME colour[n] = "grey" PROVE Graph!Descends(n, n)
    <2>1. PICK i \in DOMAIN stack : stack[i] = <<n, TRUE>>
      BY <1>2, <1>11 DEF SearchInv, GreyStacked
    <2>2. stack[i][1] = n /\ stack[i][2] = TRUE
      BY <2>1
    <2>3. i # L
      BY <1>3, <2>2
    <2>4. i < L
      BY <1>2, <2>3
    <2> QED BY <1>2, <1>3, <2>2, <2>4 DEF SearchInv, StackDescends
  <1>12. \A m \in cycles' : Graph!Descends(m, m)'
    BY <1>1, <1>11, DescendsStable DEF SearchInv
  <1>13. pass' = "cycles"
    BY <1>1 DEF SearchInv
  <1> QED BY <1>4, <1>7, <1>8, <1>9, <1>10, <1>12, <1>13 DEF SearchInv

LEMMA EnterStep == SearchInv /\ Graph!Enter => SearchInv'
  <1> SUFFICES ASSUME SearchInv, Graph!Enter PROVE SearchInv'
    OBVIOUS
  <1> DEFINE L == Len(stack)
             n == Graph!Top[1]
             kids == children[n] \cap Nodes
             known == Graph!Listed(kids)
             q == [i \in DOMAIN known |-> <<known[i], FALSE>>]
             E == Nodes \X BOOLEAN
  <1>1. /\ stack # <<>> /\ ~Graph!Top[2] /\ colour[n] = "white"
        /\ colour' = [colour EXCEPT ![n] = "grey"]
        /\ stack' = Graph!Rest \o <<<<n, TRUE>>>> \o q
        /\ UNCHANGED <<parent, children, pass, cycles>>
    BY DEF Graph!Enter, Graph!mappingVars
  <1>2. /\ L \in Nat /\ L > 0 /\ L \in DOMAIN stack /\ DOMAIN stack = 1 .. L
        /\ stack[L] = <<n, FALSE>> /\ n \in Nodes
        /\ stack \in Seq(E)
    BY <1>1, TopIs DEF SearchInv, SearchTypes
  <1>3. stack[L][1] = n /\ stack[L][2] = FALSE
    BY <1>2
  <1>4. known \in Seq(Nodes) /\ Elements(known) = kids
    <2>1. IsFiniteSet(kids)
      BY GraphAssumption, FS_Intersection DEF GraphAssumption
    <2>2. known \in Seq(kids) /\ Elements(known) = kids
      BY <2>1, ListedIs
    <2>3. kids \subseteq Nodes
      OBVIOUS
    <2> HIDE DEF known, kids
    <2>4. known \in Seq(Nodes)
      BY <2>2, <2>3
    <2> QED BY <2>2, <2>4
  <1>5. /\ colour' \in [Nodes -> {"white", "grey", "black"}]
        /\ \A m \in Nodes : colour'[m] = IF m = n THEN "grey" ELSE colour[m]
    BY <1>1, <1>2 DEF SearchInv, SearchTypes
  <1> HIDE DEF known
  <1>6. /\ q \in Seq(E) /\ Len(q) = Len(known) /\ Len(q) \in Nat
        /\ \A i \in 1 .. Len(q) : q[i] = <<known[i], FALSE>> /\ q[i][1] = known[i]
                                   /\ q[i][2] = FALSE
    <2>1. /\ DOMAIN known = 1 .. Len(known) /\ Len(known) \in Nat
          /\ \A i \in 1 .. Len(known) : known[i] \in Nodes
      BY <1>4
    <2> DEFINE k == Len(known)
    <2>2. k \in Nat /\ q = [i \in 1 .. k |-> <<known[i], FALSE>>]
      BY <2>1
    <2>3. \A i \in 1 .. k : <<known[i], FALSE>> \in E
      BY <2>1
    <2> HIDE DEF k, E
    <2>4. q \in [1 .. k -> E]
      BY <2>2, <2>3
    <2>5. q \in Seq(E) /\ Len(q) = k
      <3>1. \A f : f \in [1 .. k -> E] => f \in Seq(E) /\ Len(f) = k
        <4> SUFFICES ASSUME NEW f \in [1 .. k -> E] PROVE f \in Seq(E) /\ Len(f) = k
          OBVIOUS
        <4>1. f \in Seq(E)
          BY <2>2, SeqDef
        <4> QED BY <2>2, <4>1, LenProperties
      <3> HIDE DEF q
      <3> QED BY <2>4, <3>1
    <2>6. \A i \in 1 .. k : q[i] = <<known[i], FALSE>>
      BY <2>2
    <2>7. ASSUME NEW i \in 1 .. k PROVE q[i][1] = known[i] /\ q[i][2] = FALSE
      <3>1. q[i] = <<known[i], FALSE>>
        BY <2>6
      <3> HIDE DEF q
      <3> QED BY <3>1
    <2> HIDE DEF q
    <2> QED BY <2>2, <2>5, <2>6, <2>7 DEF k
  <1>7. <<n, TRUE>> \in E /\ <<n, TRUE>>[1] = n /\ <<n, TRUE>>[2] = TRUE
    BY <1>2
  <1> HIDE DEF L, n, q, E
  <1>8. /\ stack' \in Seq(E) /\ Len(stack') = L + Len(q)
        /\ \A i \in 1 .. L - 1 : stack'[i] = stack[i]
        /\ stack'[L] = <<n, TRUE>>
        /\ \A i \in 1 .. Len(q) : stack'[L + i] = q[i]
    <2>1. stack' = SubSeq(stack, 1, Len(stack) - 1) \o <<<<n, TRUE>>>> \o q
      BY <1>1 DEF Graph!Rest
    <2> DEFINE x == <<n, TRUE>>
    <2>2. x \in E /\ stack' = Push(stack, x, q)
      BY <1>7, <2>1 DEF Push
    <2> HIDE DEF x
    <2>3. stack \in Seq(E) /\ stack # <<>> /\ x \in E /\ q \in Seq(E)
      BY <1>1, <1>2, <1>6, <2>2
    <2> DEFINE t == Push(stack, x, q)
    <2>4. t \in Seq(E) /\ IsPush(t, stack, x, q)
      BY <2>3, PushIs
    <2> QED BY <2>2, <2>4 DEF IsPush, L, x
  <1>9. DOMAIN stack' = 1 .. L + Len(q)
    BY <1>8
  <1>10. \A i \in DOMAIN stack' : i > L =>
           /\ stack'[i][2] = FALSE /\ stack'[i][1] \in kids
           /\ stack'[i] = <<stack'[i][1], FALSE>>
    <2> SUFFICES ASSUME NEW i \in DOMAIN stack', i > L
                 PROVE  /\ stack'[i][2] = FALSE /\ stack'[i][1] \in kids
                        /\ stack'[i] = <<stack'[i][1], FALSE>>
      OBVIOUS
    <2>1. i - L \in 1 .. Len(q) /\ L + (i - L) = i
      BY <1>2, <1>6, <1>9
    <2>2. stack'[i] = q[i - L]
      BY <1>8, <2>1
    <2>3. known[i - L] \in kids
      BY <1>4, <1>6, <2>1 DEF Elements
    <2> QED BY <1>6, <2>1, <2>2, <2>3
  <1>11. \A c \in kids : \E j \in DOMAIN stack' : j > L /\ stack'[j][1] = c
    <2> SUFFICES ASSUME NEW c \in kids PROVE \E j \in DOMAIN stack' : j > L /\ stack'[j][1] = c
      OBVIOUS
    <2>1. PICK i \in DOMAIN known : known[i] = c
      BY <1>4 DEF Elements
    <2>2. i \in 1 .. Len(q)
      BY <1>4, <1>6, <2>1
    <2>3. L + i \in DOMAIN stack' /\ L + i > L
      BY <1>2, <1>6, <1>9, <2>2
    <2>4. stack'[L + i] = q[i] /\ q[i][1] = known[i]
      BY <1>6, <1>8, <2>2
    <2> QED BY <2>1, <2>3, <2>4
  <1>12. \A i \in DOMAIN stack' : i < L \/ i = L \/ i > L
    BY <1>2, <1>9
  <1>13. \A i \in DOMAIN stack' : i < L => i \in DOMAIN stack /\ stack'[i] = stack[i]
    BY <1>2, <1>8, <1>9
  <1>14. \A i \in DOMAIN stack : i # L => i \in DOMAIN stack' /\ stack'[i] = stack[i] /\ i < L
    BY <1>2, <1>6, <1>8, <1>9
  <1>15. L \in DOMAIN stack' /\ stack'[L][1] = n /\ stack'[L][2] = TRUE
    BY <1>2, <1>6, <1>7, <1>8, <1>9
  <1>16. SearchTypes'
    BY <1>1, <1>5, <1>8 DEF SearchInv, SearchTypes, MappingTypes, E
  <1>17. \A i \in DOMAIN stack : stack[i][2] => stack[i][1] # n
    <2>0. SUFFICES ASSUME NEW i \in DOMAIN stack, stack[i][2], stack[i][1] = n PROVE FALSE
      OBVIOUS
    <2>1. stack[i] = <<n, TRUE>>
      <3>1. stack[i] \in Nodes \X BOOLEAN
        BY <1>1, TopIs
      <3>2. PICK m \in Nodes, b \in BOOLEAN : stack[i] = <<m, b>>
        BY <3>1
      <3>3. m = n /\ b = TRUE
        BY <2>0, <3>2
      <3> QED BY <3>2, <3>3
    <2> QED BY <1>1, <1>2, <2>1 DEF SearchInv, GreyStacked
  <1>18. GreyStacked'
    <2>1. ASSUME NEW m \in Nodes
          PROVE  colour'[m] = "grey" <=> \E i \in DOMAIN stack' : stack'[i] = <<m, TRUE>>
      <3>1. CASE m = n
        BY <1>5, <1>8, <1>15, <3>1
      <3>2. CASE m # n
        <4>1. colour[m] = "grey" <=> \E i \in DOMAIN stack : stack[i] = <<m, TRUE>>
          BY DEF SearchInv, GreyStacked
        <4>2. <<m, TRUE>>[1] = m /\ <<m, TRUE>>[2] = TRUE
          OBVIOUS
        <4>3. \A i \in DOMAIN stack : stack[i] = <<m, TRUE>> => i # L
          BY <1>3, <4>2
        <4>4. \A i \in DOMAIN stack' : stack'[i] = <<m, TRUE>> => i < L
          BY <1>10, <1>12, <1>15, <3>2, <4>2
        <4> QED BY <1>5, <1>13, <1>14, <3>2, <4>1, <4>3, <4>4
      <3> QED BY <3>1, <3>2
    <2>2. ASSUME NEW i \in DOMAIN stack', NEW j \in DOMAIN stack',
                 stack'[i][2], stack'[j][2], stack'[i][1] = stack'[j][1]
          PROVE  i = j
      <3>1. (i < L \/ i = L) /\ (j < L \/ j = L)
        BY <1>10, <1>12, <2>2
      <3>2. i < L /\ j < L => i = j
        BY <1>13, <2>2 DEF SearchInv, GreyStacked
      <3>3. ~(i < L /\ j = L) /\ ~(i = L /\ j < L)
        BY <1>13, <1>15, <1>17, <2>2
      <3> QED BY <3>1, <3>2, <3>3
    <2> QED BY <2>1, <2>2 DEF GreyStacked
  <1>19. StackDescends'
    <2> SUFFICES ASSUME NEW i \in DOMAIN stack', NEW j \in DOMAIN stack', i < j, stack'[i][2]
                 PROVE  Graph!Descends(stack'[i][1], stack'[j][1])
      BY <1>1, DescendsStable DEF StackDescends
    <2>1. i < L \/ i = L
      BY <1>10, <1>12
    <2>2. CASE i < L /\ j < L
      BY <1>13, <2>2 DEF SearchInv, StackDescends
    <2>3. i < L => Graph!Descends(stack'[i][1], n) /\ stack'[i][1] \in Nodes
      <3>1. i < L => i \in DOMAIN stack /\ stack[i] = stack'[i] /\ stack[i] \in Nodes \X BOOLEAN
        BY <1>1, <1>13, TopIs
      <3> QED BY <1>2, <1>3, <3>1 DEF SearchInv, StackDescends
    <2>4. j > L => Graph!Descends(n, stack'[j][1]) /\ stack'[j][1] \in Nodes
      <3>1. \A c \in kids : Graph!Descends(n, c) /\ c \in Nodes
        BY <1>2, DescendsHolds DEF DescendsIs
      <3> QED BY <1>10, <3>1
    <2>5. CASE i < L /\ j = L
      BY <1>15, <2>3, <2>5
    <2>6. CASE i < L /\ j > L
      BY <1>2, <2>3, <2>4, <2>6, DescendsHolds DEF DescendsIs
    <2>7. CASE i = L
      <3>1. j > L
        BY <1>2, <1>9, <2>7
      <3> QED BY <1>15, <2>4, <2>7, <3>1
    <2> QED BY <1>12, <2>1, <2>2, <2>5, <2>6, <2>7
  <1>20. ChildrenAbove'
    <2> SUFFICES ASSUME NEW i \in DOMAIN stack', stack'[i][2],
                        NEW c \in children[stack'[i][1]] \cap Nodes
                 PROVE  \/ colour'[c] = "black" \/ c \in cycles
                        \/ \E j \in DOMAIN stack' : j > i /\ stack'[j][1] = c
      BY <1>1 DEF ChildrenAbove
    <2>1. CASE i = L
      BY <1>11, <1>15, <2>1
    <2>2. CASE i < L
      <3>1. \/ colour[c] = "black" \/ c \in cycles
            \/ \E j \in DOMAIN stack : j > i /\ stack[j][1] = c
        BY <1>13, <2>2 DEF SearchInv, ChildrenAbove
      <3>2. colour[c] = "black" => colour'[c] = "black"
        BY <1>1, <1>5
      <3>3. \A j \in DOMAIN stack : j \in DOMAIN stack' /\ stack'[j][1] = stack[j][1]
        BY <1>3, <1>14, <1>15
      <3> QED BY <3>1, <3>2, <3>3
    <2> QED BY <1>10, <1>12, <2>1, <2>2
  <1>21. \A m \in Nodes : colour'[m] = "black" <=> colour[m] = "black"
    BY <1>1, <1>5
  <1>22. BlackChildren' /\ BlackAcyclic'
    BY <1>1, <1>21 DEF SearchInv, BlackChildren, BlackAcyclic
  <1>23. \A m \in cycles' : Graph!Descends(m, m)'
    BY <1>1, DescendsStable DEF SearchInv
  <1>24. pass' = "cycles"
    BY <1>1 DEF SearchInv
  <1> QED BY <1>16, <1>18, <1>19, <1>20, <1>22, <1>23, <1>24 DEF SearchInv

LEMMA SearchStep == SearchInv /\ (Graph!Next \/ UNCHANGED graphVars) => SearchInv'
  <1> SUFFICES ASSUME SearchInv, Graph!Next \/ UNCHANGED graphVars PROVE SearchInv'
    OBVIOUS
  <1>1. ASSUME UNCHANGED <<parent, children, colour, stack, cycles>>,
               \/ pass' = pass
               \/ /\ pass' \in {"branches", "done"} /\ stack = <<>>
                  /\ \A n \in Nodes : colour[n] = "black"
        PROVE  SearchInv'
    <2>1. SearchTypes'
      BY <1>1 DEF SearchInv, SearchTypes, MappingTypes
    <2>2. GreyStacked' /\ ChildrenAbove' /\ BlackChildren' /\ BlackAcyclic'
      <3>1. GreyStacked'
        BY <1>1 DEF SearchInv, GreyStacked
      <3>2. ChildrenAbove' /\ BlackChildren'
        BY <1>1 DEF SearchInv, ChildrenAbove, BlackChildren
      <3>3. BlackAcyclic'
        BY <1>1 DEF SearchInv, BlackAcyclic
      <3> QED BY <3>1, <3>2, <3>3
    <2>3. StackDescends' /\ \A m \in cycles' : Graph!Descends(m, m)'
      BY <1>1, DescendsStable DEF SearchInv, StackDescends
    <2> QED BY <1>1, <2>1, <2>2, <2>3 DEF SearchInv
  <1>2. CASE UNCHANGED graphVars
    BY <1>1, <1>2 DEF graphVars
  <1>3. CASE Graph!Searched
    BY <1>1, <1>3 DEF Graph!Searched, Graph!mappingVars, Graph!searchVars
  <1>4. CASE Graph!Walk
    BY <1>1, <1>4 DEF Graph!Walk, Graph!mappingVars, Graph!searchVars
  <1>5. CASE Graph!Walked
    BY <1>1, <1>5 DEF SearchInv, Graph!Walked, Graph!mappingVars, Graph!searchVars
  <1> QED
    BY <1>2, <1>3, <1>4, <1>5, StartStep, LeaveStep, EnterStep, MeetStep
    DEF Graph!Next, Graph!Process

LEMMA SearchFinds == SearchInv => Graph!CyclesFound
  <1> SUFFICES ASSUME SearchInv, pass = "branches"
               PROVE  /\ \A n \in cycles : Graph!Descends(n, n)
                      /\ \A n \in Nodes : Graph!Descends(n, n) =>
                           \E m \in cycles : Graph!Descends(n, m) /\ Graph!Descends(m, n)
    BY DEF Graph!CyclesFound
  <1>1. ASSUME NEW n \in Nodes, Graph!Descends(n, n)
        PROVE  \E m \in cycles : Graph!Descends(n, m) /\ Graph!Descends(m, n)
    <2> DEFINE S == {m \in Nodes : Graph!Descends(n, m) /\ Graph!Descends(m, n)}
    <2>1. n \in S /\ S \in SUBSET Nodes
      BY <1>1
    <2>2. \A m \in S : colour[m] = "black"
      BY DEF SearchInv
    <2>3. PICK m \in S : \A c \in children[m] \cap S : c \in cycles
      <3> HIDE DEF S
      <3> QED BY <2>1, <2>2 DEF SearchInv, BlackAcyclic
    <2>4. PICK c \in children[m] \cap Nodes : c = n \/ Graph!Descends(c, n)
      BY <1>1, <2>3, DescendsHolds DEF DescendsIs
    <2>5. Graph!Descends(m, c)
      BY <2>3, <2>4, DescendsHolds DEF DescendsIs
    <2>6. Graph!Descends(n, c)
      BY <2>3, <2>4, <2>5, DescendsHolds DEF DescendsIs
    <2>7. Graph!Descends(c, n)
      BY <1>1, <2>4
    <2>8. c \in S
      BY <2>4, <2>6, <2>7
    <2> QED BY <2>3, <2>4, <2>6, <2>7, <2>8
  <1> QED BY <1>1 DEF SearchInv
-----------------------------------------------------------------------------
LEMMA ElementsHead ==
  ASSUME NEW T, NEW w \in Seq(T), w # <<>>
  PROVE  Head(w) \in T /\ Tail(w) \in Seq(T) /\ Elements(w) = {Head(w)} \cup Elements(Tail(w))
  <1>1. /\ DOMAIN w = 1 .. Len(w) /\ Len(w) \in Nat /\ Len(w) > 0 /\ Head(w) = w[1] /\ w[1] \in T
        /\ Tail(w) \in Seq(T) /\ DOMAIN Tail(w) = 1 .. Len(w) - 1
        /\ \A i \in 1 .. Len(w) - 1 : Tail(w)[i] = w[i + 1]
    OBVIOUS
  <1> DEFINE n == Len(w)
             t == Tail(w)
  <1> HIDE DEF n, t
  <1>2. Elements(w) \subseteq {w[1]} \cup Elements(t)
    <2> SUFFICES ASSUME NEW i \in 1 .. n, i # 1 PROVE w[i] \in Elements(t)
      BY <1>1 DEF Elements, n
    <2>1. i - 1 \in 1 .. n - 1 /\ i - 1 + 1 = i
      BY <1>1 DEF n
    <2>2. t[i - 1] = w[i]
      BY <1>1, <2>1 DEF n, t
    <2> QED BY <1>1, <2>1, <2>2 DEF Elements, n, t
  <1>3. Elements(t) \subseteq Elements(w)
    <2> SUFFICES ASSUME NEW i \in 1 .. n - 1 PROVE t[i] \in Elements(w)
      BY <1>1 DEF Elements, n, t
    <2>1. i + 1 \in 1 .. n
      BY <1>1 DEF n
    <2> QED BY <1>1, <2>1 DEF Elements, n, t
  <1>4. w[1] \in Elements(w)
    BY <1>1 DEF Elements
  <1> QED BY <1>1, <1>2, <1>3, <1>4 DEF t

LEMMA ElementsConcat ==
  ASSUME NEW T, NEW v \in Seq(T), NEW w \in Seq(T)
  PROVE  v \o w \in Seq(T) /\ Elements(v \o w) = Elements(v) \cup Elements(w)
  <1> DEFINE m == Len(v)
             n == Len(w)
             r == v \o w
  <1>1. /\ m \in Nat /\ n \in Nat /\ DOMAIN v = 1 .. m /\ DOMAIN w = 1 .. n
        /\ r \in Seq(T) /\ DOMAIN r = 1 .. m + n
    BY LenProperties, ConcatProperties
  <1>2. \A i \in 1 .. m + n : r[i] = IF i <= m THEN v[i] ELSE w[i - m]
    BY ConcatProperties
  <1> HIDE DEF m, n, r
  <1>3. Elements(r) \subseteq Elements(v) \cup Elements(w)
    <2> SUFFICES ASSUME NEW i \in 1 .. m + n PROVE r[i] \in Elements(v) \cup Elements(w)
      BY <1>1 DEF Elements
    <2>1. i \in 1 .. m \/ (~(i <= m) /\ i - m \in 1 .. n)
      BY <1>1
    <2>2. CASE i \in 1 .. m
      <3>1. i <= m
        BY <1>1, <2>2
      <3>2. r[i] = v[i]
        BY <1>2, <3>1
      <3> QED BY <1>1, <2>2, <3>2 DEF Elements
    <2>3. CASE ~(i <= m) /\ i - m \in 1 .. n
      <3>1. r[i] = w[i - m]
        BY <1>2, <2>3
      <3> QED BY <1>1, <2>3, <3>1 DEF Elements
    <2> QED BY <2>1, <2>2, <2>3
  <1>4. Elements(v) \subseteq Elements(r)
    <2> SUFFICES ASSUME NEW i \in 1 .. m PROVE v[i] \in Elements(r)
      BY <1>1 DEF Elements
    <2>1. i \in 1 .. m + n /\ i <= m
      BY <1>1
    <2> QED BY <1>1, <1>2, <2>1 DEF Elements
  <1>5. Elements(w) \subseteq Elements(r)
    <2> SUFFICES ASSUME NEW i \in 1 .. n PROVE w[i] \in Elements(r)
      BY <1>1 DEF Elements
    <2> DEFINE k == m + i
    <2>1. k \in 1 .. m + n /\ ~(k <= m) /\ k - m = i
      BY <1>1
    <2> HIDE DEF k
    <2>2. r[k] = w[i]
      BY <1>2, <2>1
    <2> QED BY <1>1, <2>1, <2>2 DEF Elements
  <1> QED BY <1>1, <1>3, <1>4, <1>5 DEF r

(* Of the messages of the branches B and the walk s none is there twice,   *)
(* and they are those of V.                                                *)
Once(B, s) ==
  /\ \A b, c \in B : \A i \in DOMAIN b, j \in DOMAIN c : b[i] = c[j] => b = c /\ i = j
  /\ \A i, j \in DOMAIN s : s[i] = s[j] => i = j
  /\ \A b \in B : \A i \in DOMAIN b, j \in DOMAIN s : b[i] # s[j]

Holds(B, s, V) ==
  \A n \in Nodes : n \in V <=> n \in Elements(s) \/ \E b \in B : n \in Elements(b)

LEMMA KeepOnce ==
  ASSUME NEW B, NEW s, NEW V, Once(B, s), Holds(B, s, V)
  PROVE  Once(B \cup {s}, <<>>) /\ Holds(B \cup {s}, <<>>, V)
  <1>1. DOMAIN <<>> = {} /\ Elements(<<>>) = {}
    BY DEF Elements
  <1>2. Once(B \cup {s}, <<>>)
    BY <1>1 DEF Once
  <1>3. Holds(B \cup {s}, <<>>, V)
    BY <1>1 DEF Holds
  <1> QED BY <1>2, <1>3

LEMMA ExtendOnce ==
  ASSUME NEW B, NEW s \in Seq(Nodes), NEW V, NEW n \in Nodes, n \notin V, Once(B, s), Holds(B, s, V)
  PROVE  /\ Append(s, n) \in Seq(Nodes) /\ Append(s, n) # <<>>
         /\ Once(B, Append(s, n)) /\ Holds(B, Append(s, n), V \cup {n})
  <1> DEFINE t == Append(s, n)
             m == Len(s)
  <1>1. /\ t \in Seq(Nodes) /\ t # <<>> /\ m \in Nat /\ DOMAIN s = 1 .. m /\ DOMAIN t = 1 .. m + 1
        /\ t[m + 1] = n /\ \A i \in 1 .. m : t[i] = s[i]
    OBVIOUS
  <1> HIDE DEF t, m
  <1>2. n \notin Elements(s) /\ \A b \in B : n \notin Elements(b)
    BY DEF Holds
  <1>3. \A i \in DOMAIN t : i = m + 1 \/ i \in DOMAIN s
    BY <1>1
  <1>4. Elements(t) = Elements(s) \cup {n}
    <2>1. DOMAIN s \subseteq DOMAIN t /\ m + 1 \in DOMAIN t
      BY <1>1
    <2> QED BY <1>1, <1>3, <2>1 DEF Elements
  <1>5. Once(B, t)
    <2>1. \A i \in DOMAIN s : s[i] # n
      BY <1>2 DEF Elements
    <2>2. \A b \in B : \A i \in DOMAIN b : b[i] # n
      BY <1>2 DEF Elements
    <2>3. \A i \in DOMAIN s : t[i] = s[i]
      BY <1>1
    <2>4. \A i, j \in DOMAIN t : t[i] = t[j] => i = j
      BY <1>1, <1>3, <2>1, <2>3 DEF Once
    <2>5. \A b \in B : \A i \in DOMAIN b, j \in DOMAIN t : b[i] # t[j]
      BY <1>1, <1>3, <2>2, <2>3 DEF Once
    <2> QED BY <2>4, <2>5 DEF Once
  <1>6. Holds(B, t, V \cup {n})
    BY <1>4 DEF Holds
  <1> QED BY <1>1, <1>5, <1>6 DEF t

(* The walks.  Of the nodes that were visited each is in one branch, or    *)
(* once in the walk under way; what is visited or still to be walked can   *)
(* be reached; and the roots and the children of what was visited are.     *)
BranchInv ==
  /\ MappingTypes
  /\ branches \in SUBSET Seq(Nodes) /\ segment \in Seq(Nodes) /\ walks \in Seq(Graph!Ids)
  /\ Once(branches, segment) /\ Holds(branches, segment, visited)
  /\ \A n \in Nodes : n \in visited \/ n \in Elements(walks) => n \in Reachable
  /\ \A n \in visited \cap Nodes : \A c \in children[n] \cap Nodes :
       c \in visited \/ c \in Elements(walks)
  /\ pass # "cycles" => \A n \in Graph!Roots : n \in visited \/ n \in Elements(walks)
  /\ pass = "cycles" => walks = <<>> /\ segment = <<>>
  /\ pass = "done" => walks = <<>>
  /\ walks = <<>> => segment = <<>>

LEMMA BranchInit == Graph!Init => BranchInv
  <1> SUFFICES ASSUME Graph!Init PROVE BranchInv
    OBVIOUS
  <1>1. MappingTypes
    BY DEF Graph!Init, MappingTypes, Graph!Ids
  <1>2. pass = "cycles" /\ visited = {} /\ segment = <<>> /\ walks = <<>> /\ branches = {}
    BY DEF Graph!Init
  <1>3. Elements(<<>>) = {} /\ DOMAIN <<>> = {}
    BY DEF Elements
  <1>4. Once(branches, segment) /\ Holds(branches, segment, visited)
    BY <1>2, <1>3 DEF Once, Holds
  <1> QED BY <1>1, <1>2, <1>3, <1>4 DEF BranchInv

LEMMA ReachableStable ==
  ASSUME UNCHANGED <<parent, children>>
  PROVE  Reachable' = Reachable /\ Graph!Roots' = Graph!Roots
  BY DEF Reachable, Graph!ReachIn, Graph!Roots

LEMMA WalkStep == BranchInv /\ Graph!Walk => BranchInv'
  <1> SUFFICES ASSUME BranchInv, Graph!Walk PROVE BranchInv'
    OBVIOUS
  <1> DEFINE n == Head(walks)
             kids == Graph!Listed(children[n])
             rest == Tail(walks)
  <1>1. /\ pass = "branches" /\ walks # <<>>
        /\ UNCHANGED <<parent, children, pass>>
    BY DEF Graph!Walk, Graph!mappingVars
  <1>2. /\ n \in Graph!Ids /\ rest \in Seq(Graph!Ids)
        /\ Elements(walks) = {n} \cup Elements(rest)
    <2>1. walks \in Seq(Graph!Ids) /\ walks # <<>>
      BY <1>1 DEF BranchInv
    <2> QED BY <2>1, ElementsHead
  <1>3. visited' = visited \cup {n}
    BY DEF Graph!Walk
  <1>4. MappingTypes'
    BY <1>1 DEF BranchInv, MappingTypes
  <1>5. /\ \A m \in Nodes : m \in visited \/ m \in Elements(walks) => m \in Reachable
        /\ \A m \in visited \cap Nodes : \A c \in children[m] \cap Nodes :
             c \in visited \/ c \in Elements(walks)
        /\ \A m \in Graph!Roots : m \in visited \/ m \in Elements(walks)
        /\ Once(branches, segment) /\ Holds(branches, segment, visited)
        /\ branches \in SUBSET Seq(Nodes) /\ segment \in Seq(Nodes)
    BY <1>1 DEF BranchInv
  <1>6. <<>> \in Seq(Nodes)
    OBVIOUS
  <1>7. CASE n \in visited \/ n \notin Nodes
    <2>1. branches' = Graph!Keep(segment) /\ segment' = <<>> /\ walks' = rest
      BY <1>7 DEF Graph!Walk
    <2>2. /\ branches' \in SUBSET Seq(Nodes)
          /\ Once(branches', <<>>) /\ Holds(branches', <<>>, visited)
      <3>1. CASE segment = <<>>
        BY <1>5, <2>1, <3>1 DEF Graph!Keep
      <3>2. CASE segment # <<>>
        <4>1. branches' = branches \cup {segment}
          BY <2>1, <3>2 DEF Graph!Keep
        <4> QED BY <1>5, <4>1, KeepOnce
      <3> QED BY <3>1, <3>2
    <2>3. \A m \in Nodes : m \in visited' <=> m \in visited
      BY <1>3, <1>7
    <2>4. Once(branches', segment') /\ Holds(branches', segment', visited')
      <3>1. Once(branches', segment')
        BY <2>1, <2>2
      <3>2. Holds(branches', segment', visited')
        BY <2>1, <2>2, <2>3 DEF Holds
      <3> QED BY <3>1, <3>2
    <2>5. \A m \in Nodes : m \in visited' \/ m \in Elements(walks)' <=>
            m \in visited \/ m \in Elements(walks)
      <3>1. Elements(walks)' = Elements(rest)
        BY <2>1 DEF Elements
      <3> QED BY <1>2, <1>7, <2>3, <3>1
    <2>6. Graph!Roots \subseteq Nodes
      BY DEF Graph!Roots
    <2> HIDE DEF n, rest
    <2>7. /\ \A m \in Nodes : m \in visited' \/ m \in Elements(walks)' => m \in Reachable'
          /\ \A m \in visited' \cap Nodes : \A c \in children'[m] \cap Nodes :
               c \in visited' \/ c \in Elements(walks)'
          /\ \A m \in Graph!Roots' : m \in visited' \/ m \in Elements(walks)'
      BY <1>1, <1>5, <2>3, <2>5, <2>6, ReachableStable
    <2>8. walks' \in Seq(Graph!Ids) /\ segment' \in Seq(Nodes)
      BY <1>2, <1>6, <2>1
    <2> QED BY <1>1, <1>4, <2>1, <2>2, <2>4, <2>7, <2>8 DEF BranchInv, Graph!Ids
  <1>8. CASE n \notin visited /\ n \in Nodes
    <2> DEFINE s == Append(segment, n)
    <2>1. /\ walks' = kids \o rest
          /\ \/ Len(kids) = 1 /\ segment' = s /\ branches' = branches
             \/ segment' = <<>> /\ branches' = Graph!Keep(s)
      BY <1>8 DEF Graph!Walk
    <2>2. IsFiniteSet(children[n]) /\ children[n] \subseteq Graph!Ids
      <3>1. IsFiniteSet(Graph!Ids)
        BY GraphAssumption, FS_AddElement DEF GraphAssumption, Graph!Ids
      <3>2. children[n] \subseteq Graph!Ids
        BY <1>8 DEF BranchInv, MappingTypes
      <3> QED BY <3>1, <3>2, FS_Subset
    <2>3. kids \in Seq(Graph!Ids) /\ Elements(kids) = children[n]
      <3> DEFINE K == children[n]
      <3>1. Graph!Listed(K) \in Seq(K) /\ Elements(Graph!Listed(K)) = K
        BY <2>2, ListedIs
      <3> HIDE DEF K
      <3>2. K \subseteq Graph!Ids
        BY <2>2 DEF K
      <3>3. Graph!Listed(K) \in Seq(Graph!Ids)
        BY <3>1, <3>2, SeqMonotonic
      <3> QED BY <3>1, <3>3 DEF K
    <2> HIDE DEF n, kids, rest
    <2>4. walks' \in Seq(Graph!Ids) /\ Elements(walks)' = children[n] \cup Elements(rest)
      <3>1. kids \o rest \in Seq(Graph!Ids)
            /\ Elements(kids \o rest) = children[n] \cup Elements(rest)
        BY <1>2, <2>3, ElementsConcat
      <3>2. Elements(walks)' = Elements(kids \o rest)
        BY <2>1 DEF Elements
      <3> QED BY <2>1, <3>1, <3>2
    <2>5. /\ s \in Seq(Nodes) /\ s # <<>>
          /\ Once(branches, s) /\ Holds(branches, s, visited \cup {n})
      BY <1>5, <1>8, ExtendOnce
    <2> HIDE DEF s
    <2>6. /\ branches' \in SUBSET Seq(Nodes) /\ segment' \in Seq(Nodes)
          /\ Once(branches', segment') /\ Holds(branches', segment', visited')
      <3>1. CASE segment' = s /\ branches' = branches
        <4>1. Holds(branches', segment', visited')
          BY <1>3, <2>5, <3>1
        <4> QED BY <1>5, <2>5, <3>1, <4>1
      <3>2. CASE segment' = <<>> /\ branches' = Graph!Keep(s)
        <4>1. branches' = branches \cup {s}
          BY <2>5, <3>2 DEF Graph!Keep
        <4>2. Once(branches \cup {s}, <<>>) /\ Holds(branches \cup {s}, <<>>, visited \cup {n})
          BY <2>5, KeepOnce
        <4> QED BY <1>3, <1>5, <1>6, <2>5, <3>2, <4>1, <4>2
      <3> QED BY <2>1, <3>1, <3>2
    <2>7. walks' = <<>> => segment' = <<>>
      <3>1. Len(kids) = 1 => walks' # <<>>
        <4>1. Len(kids \o rest) = Len(kids) + Len(rest) /\ Len(rest) \in Nat
          BY <1>2, <2>3, ConcatProperties, LenProperties
        <4> QED BY <2>1, <4>1
      <3> QED BY <2>1, <3>1
    <2>8. \A c \in children[n] \cap Nodes : c \in Reachable
      <3>1. n \in Reachable
        BY <1>2, <1>5, <1>8
      <3> QED BY <3>1, ReachIs DEF Closed
    <2>9. Graph!Roots \subseteq Nodes
      BY DEF Graph!Roots
    <2>10. /\ \A m \in Nodes : m \in visited' \/ m \in Elements(walks)' => m \in Reachable'
           /\ \A m \in visited' \cap Nodes : \A c \in children'[m] \cap Nodes :
                c \in visited' \/ c \in Elements(walks)'
           /\ \A m \in Graph!Roots' : m \in visited' \/ m \in Elements(walks)'
      <3>1. \A m \in visited' : m \in visited \/ m = n
        BY <1>3
      <3>2. \A m \in Nodes : m \in visited' \/ m \in Elements(walks)' => m \in Reachable
        BY <1>2, <1>5, <1>8, <2>4, <2>8, <3>1
      <3>3. \A m : m \in visited \/ m \in Elements(walks) =>
              m \in visited' \/ m \in Elements(walks)'
        BY <1>2, <1>3, <2>4
      <3>4. \A c \in children[n] \cap Nodes : c \in Elements(walks)'
        BY <2>4
      <3>5. \A m \in visited' \cap Nodes : \A c \in children[m] \cap Nodes :
              c \in visited' \/ c \in Elements(walks)'
        BY <1>5, <3>1, <3>3, <3>4
      <3> QED BY <1>1, <1>5, <3>2, <3>3, <3>5, ReachableStable
    <2> QED BY <1>1, <1>4, <2>4, <2>6, <2>7, <2>10 DEF BranchInv, Graph!Ids
  <1> QED BY <1>7, <1>8

LEMMA BranchStep == BranchInv /\ (Graph!Next \/ UNCHANGED graphVars) => BranchInv'
  <1> SUFFICES ASSUME BranchInv, Graph!Next \/ UNCHANGED graphVars PROVE BranchInv'
    OBVIOUS
  <1>1. ASSUME UNCHANGED <<parent, children, visited, segment, walks, branches>>,
               pass' = pass \/ (pass # "cycles" /\ pass' = "done" /\ walks = <<>>)
        PROVE  BranchInv'
    <2>1. MappingTypes' /\ Reachable' = Reachable /\ Graph!Roots' = Graph!Roots
      BY <1>1, ReachableStable DEF BranchInv, MappingTypes
    <2>2. Once(branches, segment)' /\ Holds(branches, segment, visited)'
          /\ Elements(walks)' = Elements(walks)
      BY <1>1 DEF BranchInv, Once, Holds, Elements
    <2> QED BY <1>1, <2>1, <2>2 DEF BranchInv, Graph!Ids
  <1>2. CASE UNCHANGED graphVars
    BY <1>1, <1>2 DEF graphVars
  <1>3. CASE Graph!Start \/ Graph!Leave \/ Graph!Enter \/ Graph!Meet
    BY <1>1, <1>3
    DEF Graph!Start, Graph!Leave, Graph!Enter, Graph!Meet, Graph!mappingVars, Graph!branchVars
  <1>4. CASE Graph!Walked
    BY <1>1, <1>4 DEF Graph!Walked, Graph!mappingVars, Graph!branchVars
  <1>5. CASE Graph!Searched
    <2>1. /\ pass = "cycles" /\ pass' = "branches" /\ walks' = Graph!Listed(Graph!Roots)
          /\ UNCHANGED <<parent, children, visited, segment, branches>>
      BY <1>5 DEF Graph!Searched, Graph!mappingVars
    <2>2. walks = <<>> /\ segment = <<>>
      BY <2>1 DEF BranchInv
    <2>3. IsFiniteSet(Graph!Roots) /\ Graph!Roots \subseteq Nodes
      <3>1. Graph!Roots \subseteq Nodes
        BY DEF Graph!Roots
      <3> QED BY <3>1, GraphAssumption, FS_Subset DEF GraphAssumption
    <2>4. walks' \in Seq(Graph!Ids) /\ Elements(walks)' = Graph!Roots
      <3>1. Graph!Listed(Graph!Roots) \in Seq(Graph!Roots)
            /\ Elements(Graph!Listed(Graph!Roots)) = Graph!Roots
        BY <2>3, ListedIs
      <3>2. Graph!Roots \subseteq Graph!Ids
        BY <2>3 DEF Graph!Ids
      <3>3. Graph!Listed(Graph!Roots) \in Seq(Graph!Ids)
        BY <3>1, <3>2, SeqMonotonic
      <3>4. Elements(walks)' = Elements(Graph!Listed(Graph!Roots))
        BY <2>1 DEF Elements
      <3> QED BY <2>1, <3>1, <3>3, <3>4
    <2>5. MappingTypes' /\ Reachable' = Reachable /\ Graph!Roots' = Graph!Roots
      BY <2>1, ReachableStable DEF BranchInv, MappingTypes
    <2>6. Once(branches, segment)' /\ Holds(branches, segment, visited)'
      BY <2>1 DEF BranchInv, Once, Holds, Elements
    <2>7. Elements(<<>>) = {}
      BY DEF Elements
    <2>8. /\ \A m \in Nodes : m \in visited => m \in Reachable
          /\ \A m \in visited \cap Nodes : \A c \in children[m] \cap Nodes : c \in visited
      BY <2>2, <2>7 DEF BranchInv
    <2>9. branches' \in SUBSET Seq(Nodes) /\ segment' \in Seq(Nodes) /\ segment' = <<>>
      BY <2>1, <2>2 DEF BranchInv
    <2>10. /\ \A m \in Nodes : m \in visited' \/ m \in Elements(walks)' => m \in Reachable'
           /\ \A m \in visited' \cap Nodes : \A c \in children'[m] \cap Nodes :
                c \in visited' \/ c \in Elements(walks)'
           /\ \A m \in Graph!Roots' : m \in visited' \/ m \in Elements(walks)'
      BY <2>1, <2>4, <2>5, <2>8, ReachIs
    <2> QED BY <2>1, <2>4, <2>5, <2>6, <2>9, <2>10 DEF BranchInv, Graph!Ids
  <1> QED BY <1>2, <1>3, <1>4, <1>5, WalkStep DEF Graph!Next, Graph!Process

LEMMA WalksPartition == BranchInv => Graph!BranchesPartition
  <1> SUFFICES ASSUME BranchInv, pass = "done", NEW n \in Nodes
               PROVE  Graph!Cardinality({at1 \in branches \X (1 .. Graph!Cardinality(Nodes)) :
                                           at1[2] <= Len(at1[1]) /\ at1[1][at1[2]] = n})
                        = IF n \in Graph!Unreachable THEN 0 ELSE 1
    BY DEF Graph!BranchesPartition
  <1> DEFINE P == {e \in branches \X (1 .. NodeCount) : e[2] <= Len(e[1]) /\ e[1][e[2]] = n}
  <1>1. walks = <<>> /\ segment = <<>>
    BY DEF BranchInv
  <1>2. Elements(<<>>) = {}
    BY DEF Elements
  <1>3. n \in visited <=> n \in Reachable
    <2>1. Closed(visited \cap Nodes) /\ Graph!Roots \subseteq visited \cap Nodes
      BY <1>1, <1>2 DEF BranchInv, Closed, Graph!Roots
    <2> QED BY <2>1, ReachIs DEF BranchInv
  <1>4. n \in Graph!Unreachable <=> n \notin Reachable
    BY DEF Graph!Unreachable, Reachable
  <1>5. n \in visited <=> \E b \in branches : n \in Elements(b)
    BY <1>1, <1>2 DEF BranchInv, Holds
  <1>6. \A b \in branches : b \in Seq(Nodes) /\ DOMAIN b = 1 .. Len(b) /\ Len(b) \in Nat
                              /\ Len(b) <= NodeCount
    <2> SUFFICES ASSUME NEW b \in branches
                 PROVE  /\ b \in Seq(Nodes) /\ DOMAIN b = 1 .. Len(b) /\ Len(b) \in Nat
                        /\ Len(b) <= NodeCount
      OBVIOUS
    <2>1. b \in Seq(Nodes) /\ DOMAIN b = 1 .. Len(b) /\ Len(b) \in Nat
      BY DEF BranchInv
    <2>2. \A i, j \in DOMAIN b : b[i] = b[j] => i = j
      BY DEF BranchInv, Once
    <2>3. b \in Injection(1 .. Len(b), Nodes)
      BY <2>1, <2>2 DEF Injection, IsInjective
    <2>4. IsFiniteSet(1 .. Len(b)) /\ Cardinality(1 .. Len(b)) = Len(b)
      <3> DEFINE l == Len(b)
      <3>1. l \in Nat /\ 1 \in Int /\ l \in Int /\ (IF 1 > l THEN 0 ELSE l - 1 + 1) = l
        BY <2>1
      <3> HIDE DEF l
      <3>2. IsFiniteSet(1 .. l) /\ Cardinality(1 .. l) = l
        BY <3>1, FS_Interval
      <3> QED BY <3>2 DEF l
    <2>5. Cardinality(1 .. Len(b)) <= NodeCount
      BY <2>3, GraphAssumption, FS_Injection DEF GraphAssumption, NodeCount
    <2> QED BY <2>1, <2>4, <2>5
  <1>7. CASE n \notin Reachable
    <2>1. P = {}
      <3> SUFFICES ASSUME NEW b \in branches, NEW i \in 1 .. NodeCount, i <= Len(b), b[i] = n
                   PROVE FALSE
        OBVIOUS
      <3>1. i \in DOMAIN b
        BY <1>6, NodeCountType
      <3> QED BY <1>3, <1>5, <1>7, <3>1 DEF Elements
    <2> HIDE DEF P
    <2>2. Cardinality(P) = 0
      BY <2>1, FS_EmptySet
    <2> QED BY <1>4, <1>7, <2>2, SameCardinality, NodeCountType DEF P
  <1>8. CASE n \in Reachable
    <2>1. PICK b \in branches : n \in Elements(b)
      BY <1>3, <1>5, <1>8
    <2>2. PICK i \in DOMAIN b : b[i] = n
      BY <2>1 DEF Elements
    <2>3. P = {<<b, i>>}
      <3>1. <<b, i>> \in P
        BY <1>6, <2>2, NodeCountType
      <3>2. ASSUME NEW c \in branches, NEW j \in 1 .. NodeCount, j <= Len(c), c[j] = n
            PROVE  c = b /\ j = i
        <4>1. j \in DOMAIN c
          BY <1>6, <3>2, NodeCountType
        <4> QED BY <2>2, <3>2, <4>1 DEF BranchInv, Once
      <3>3. \A e \in P : e = <<b, i>>
        BY <3>2
      <3> QED BY <3>1, <3>3
    <2> HIDE DEF P
    <2>4. Cardinality(P) = 1
      BY <2>3, FS_Singleton
    <2> QED BY <1>4, <1>8, <2>4, SameCardinality, NodeCountType DEF P
  <1> QED BY <1>7, <1>8
-----------------------------------------------------------------------------
Ends == (Graph!Ids \cup {NoNode}) \X SUBSET Nodes

(* One step of the selected path, given the path of its parent. *)
Extended(h, walk) ==
  IF walk[1] \notin Nodes \ walk[2] THEN <<>>
  ELSE Append(h[<<parent[walk[1]], walk[2] \cup {walk[1]}>>], walk[1])

(* The selected path exists: each step leaves fewer nodes to visit. *)
LEMMA PathFromDef ==
  ASSUME MappingTypes
  PROVE  Graph!PathFrom = [walk \in Ends |-> Extended(Graph!PathFrom, walk)]
  <1> DEFINE N == NodeCount
             D == [Ends -> Seq(Nodes)]
             g == [h \in D |-> [walk \in Ends |-> Extended(h, walk)]]
             a == [walk \in Ends |-> <<>>]
             Left(walk) == Cardinality(Nodes \ walk[2])
             Up(walk) == <<parent[walk[1]], walk[2] \cup {walk[1]}>>
             Is(h) == h = [walk \in Ends |-> Extended(h, walk)]
  <1>1. N \in Nat
    BY NodeCountType
  <1>2. ASSUME NEW walk \in Ends, walk[1] \in Nodes \ walk[2]
        PROVE  Up(walk) \in Ends /\ Left(Up(walk)) \in Nat /\ Left(walk) = Left(Up(walk)) + 1
    <2>1. Up(walk) \in Ends
      BY <1>2 DEF MappingTypes, Ends
    <2>2. IsFiniteSet(Nodes \ walk[2])
      BY GraphAssumption, FS_Difference DEF GraphAssumption
    <2>3. Nodes \ Up(walk)[2] = (Nodes \ walk[2]) \ {walk[1]}
      OBVIOUS
    <2>4. Left(Up(walk)) = Left(walk) - 1 /\ Left(walk) \in Nat
      <3> DEFINE S == Nodes \ walk[2]
      <3>1. Cardinality(S) \in Nat
        BY <2>2, FS_CardinalityType
      <3>2. Cardinality(S \ {walk[1]}) = Cardinality(S) - 1
        <4> HIDE DEF S
        <4> QED BY <1>2, <2>2, FS_RemoveElement DEF S
      <3> QED BY <2>3, <3>1, <3>2
    <2>5. IsFiniteSet(Nodes \ Up(walk)[2])
      BY GraphAssumption, FS_Difference DEF GraphAssumption
    <2>6. Left(Up(walk)) \in Nat
      BY <2>5, FS_CardinalityType
    <2> QED BY <2>1, <2>4, <2>6
  <1>3. ASSUME NEW walk \in Ends PROVE Left(walk) \in Nat /\ Left(walk) <= N
    <2>1. Nodes \ walk[2] \subseteq Nodes
      OBVIOUS
    <2> QED BY <2>1, GraphAssumption, FS_Subset, FS_CardinalityType DEF GraphAssumption, NodeCount
  <1>4. a \in D
    OBVIOUS
  <1>5. ASSUME NEW h \in D, NEW walk \in Ends PROVE Extended(h, walk) \in Seq(Nodes)
    <2>1. CASE walk[1] \in Nodes \ walk[2]
      <3>1. Up(walk) \in Ends
        BY <1>2, <2>1
      <3>2. h[Up(walk)] \in Seq(Nodes)
        BY <3>1
      <3>3. Append(h[Up(walk)], walk[1]) \in Seq(Nodes)
        BY <2>1, <3>2
      <3> QED BY <2>1, <3>3 DEF Extended
    <2>2. CASE walk[1] \notin Nodes \ walk[2]
      BY <2>2 DEF Extended
    <2> QED BY <2>1, <2>2
  <1>6. g \in [D -> D]
    BY <1>5
  <1>7. \A h \in D, walk \in Ends : g[h][walk] = Extended(h, walk)
    OBVIOUS
  <1>8. \A h \in D : g[h] = [walk \in Ends |-> Extended(h, walk)]
    OBVIOUS
  <1>9. ASSUME NEW walk \in Ends, NEW h, NEW i, walk[1] \in Nodes \ walk[2], h[Up(walk)] =
                 i[Up(walk)]
        PROVE  Extended(h, walk) = Extended(i, walk)
    BY <1>9 DEF Extended
  <1>10. ASSUME NEW walk \in Ends, NEW h, walk[1] \notin Nodes \ walk[2]
         PROVE Extended(h, walk) = <<>>
    BY <1>10 DEF Extended
  <1> HIDE DEF D, g, a, N, Left, Up
  <1>11. PICK f : IsOrbit(f, D, a, g, N + 1)
    BY <1>1, <1>4, <1>6, Iterates
  <1>12. f \in [0 .. N + 1 -> D] /\ \A k \in 1 .. N + 1 : f[k] = g[f[k - 1]]
    BY <1>11 DEF IsOrbit
  <1> DEFINE Settled(k) == \A walk \in Ends : Left(walk) < k => f[k][walk] = Extended(f[k], walk)
  <1>13. Settled(0)
    BY <1>3
  <1>14. ASSUME NEW k \in 1 .. N + 1, Settled(k - 1) PROVE Settled(k)
    <2> SUFFICES ASSUME NEW walk \in Ends, Left(walk) < k PROVE f[k][walk] = Extended(f[k], walk)
      OBVIOUS
    <2>1. k - 1 \in 0 .. N + 1 /\ k \in 0 .. N + 1
      BY <1>1
    <2>2. f[k - 1] \in D /\ f[k] \in D /\ f[k] = g[f[k - 1]]
      BY <1>12, <2>1
    <2>3. \A w \in Ends : f[k][w] = Extended(f[k - 1], w)
      BY <1>7, <2>2
    <2>4. CASE walk[1] \in Nodes \ walk[2]
      <3>1. Up(walk) \in Ends /\ Left(Up(walk)) < k - 1
        BY <1>1, <1>2, <1>3, <2>4
      <3>2. f[k - 1][Up(walk)] = Extended(f[k - 1], Up(walk))
        BY <1>14, <3>1
      <3>3. f[k][Up(walk)] = f[k - 1][Up(walk)]
        BY <2>3, <3>1, <3>2
      <3> QED BY <1>9, <2>3, <2>4, <3>3
    <2>5. CASE walk[1] \notin Nodes \ walk[2]
      BY <1>10, <2>3, <2>5
    <2> QED BY <2>4, <2>5
  <1>15. Settled(N + 1)
    <2> DEFINE T == {k \in Nat : k <= N + 1 /\ ~Settled(k)}
    <2> HIDE DEF Settled
    <2> SUFFICES ASSUME T # {} PROVE FALSE
      BY <1>1
    <2>1. PICK k \in T : \A y \in T : k <= y
      BY LeastNumber
    <2>2. k # 0
      BY <1>13, <2>1
    <2>3. k \in 1 .. N + 1 /\ k - 1 \notin T /\ k - 1 \in Nat
      BY <1>1, <2>1, <2>2
    <2> QED BY <1>1, <1>14, <2>1, <2>3
  <1> DEFINE h == f[N + 1]
  <1>16. h \in D /\ \A walk \in Ends : h[walk] = Extended(h, walk)
    BY <1>1, <1>3, <1>12, <1>15
  <1>17. Is(h)
    <2>1. h = [walk \in Ends |-> h[walk]]
      BY <1>16 DEF D
    <2> HIDE DEF h
    <2> QED BY <1>16, <2>1
  <1>18. Graph!PathFrom = CHOOSE i : Is(i)
    BY DEF Graph!PathFrom, Extended, Ends
  <1>19. Is(Graph!PathFrom)
    <2> HIDE DEF Is, h
    <2> QED BY <1>17, <1>18
  <1> QED BY <1>19

(* What Report tells of a mapping, and what makes it a forest. *)
Consistent ==
  /\ Unknown \notin UNION {children[n] : n \in Nodes}
  /\ Graph!Disagreements = {}
  /\ Graph!Unreachable = {}

Forest == \A n, m \in Nodes : m \in children[n] <=> parent[m] = n

(* Lists of children that agree with the parents and lead everywhere are   *)
(* those of a forest: a node that is no root is listed by some node.       *)
LEMMA ConsistentForest == MappingTypes /\ Consistent => Forest
  <1> SUFFICES ASSUME MappingTypes, Consistent PROVE Forest
    OBVIOUS
  <1>1. \A n \in Nodes : \A c \in children[n] \cap Nodes : parent[c] = n
    BY DEF Consistent, Graph!Disagreements
  <1> DEFINE X == Graph!Roots \cup UNION {children[n] \cap Nodes : n \in Reachable}
  <1>2. X \subseteq Reachable
    BY ReachIs DEF Closed
  <1>3. Graph!Roots \subseteq X /\ Closed(X)
    BY <1>2 DEF Closed
  <1>4. Nodes \subseteq X
    <2>1. Nodes \subseteq Reachable
      BY DEF Consistent, Graph!Unreachable, Reachable
    <2> HIDE DEF X
    <2> QED BY <1>3, <2>1, ReachIs
  <1>5. ASSUME NEW n \in Nodes, NEW m \in Nodes, parent[m] = n PROVE m \in children[n]
    <2>1. m \notin Graph!Roots
      BY <1>5, GraphAssumption DEF Graph!Roots, GraphAssumption
    <2>2. PICK k \in Reachable : m \in children[k] \cap Nodes
      BY <1>4, <2>1
    <2>3. k = n
      BY <1>1, <1>5, <2>2, ReachIs
    <2> QED BY <2>2, <2>3
  <1> QED BY <1>1, <1>5 DEF Forest

(* The path leads from a root to n. *)
Leads(path, n) ==
  /\ path \in Seq(Nodes) /\ path # <<>>
  /\ parent[path[1]] = NoNode /\ path[Len(path)] = n

(* In a forest all of which the roots lead to, so does each selected path. *)
LEMMA PathLeads ==
  ASSUME MappingTypes, Consistent, Forest
  PROVE  \A n \in Nodes : Leads(Graph!SelectedPath(n), n)
  <1> DEFINE N == NodeCount
             r == Graph!ReachIn
             F == Graph!PathFrom
             Good(k) == \A n \in r[k], seen \in SUBSET (Nodes \ r[k]) : Leads(F[<<n, seen>>], n)
  <1>1. N \in Nat /\ r[N] = Nodes
    BY NodeCountType, ReachIs DEF Consistent, Graph!Unreachable, Reachable
  <1>2. r \in [0 .. N -> SUBSET Nodes] /\ r[0] = Graph!Roots
    BY ReachInDef
  <1>3. \A k \in 1 .. N : r[k] = r[k - 1] \cup UNION {children[n] \cap Nodes : n \in r[k - 1]}
    BY ReachInDef
  <1>4. \A walk \in Ends : F[walk] = Extended(F, walk)
    BY PathFromDef
  <1> HIDE DEF r, N, F
  <1>5. ASSUME NEW n \in Graph!Ids \cup {NoNode}, NEW seen \in SUBSET Nodes, n \in Nodes \ seen
        PROVE  F[<<n, seen>>] = Append(F[<<parent[n], seen \cup {n}>>], n)
    <2>1. <<n, seen>> \in Ends
      BY DEF Ends
    <2>2. F[<<n, seen>>] = Extended(F, <<n, seen>>)
      BY <1>4, <2>1
    <2> QED BY <1>5, <2>2 DEF Extended
  <1>6. ASSUME NEW seen \in SUBSET Nodes PROVE F[<<NoNode, seen>>] = <<>>
    <2>1. <<NoNode, seen>> \in Ends
      BY DEF Ends
    <2>2. F[<<NoNode, seen>>] = Extended(F, <<NoNode, seen>>)
      BY <1>4, <2>1
    <2> QED BY <2>2, GraphAssumption DEF Extended, GraphAssumption
  <1>7. Good(0)
    <2> SUFFICES ASSUME NEW n \in r[0], NEW seen \in SUBSET (Nodes \ r[0])
                 PROVE  Leads(F[<<n, seen>>], n)
      OBVIOUS
    <2>1. n \in Nodes \ seen /\ parent[n] = NoNode
      BY <1>2 DEF Graph!Roots
    <2>2. n \in Graph!Ids /\ seen \in SUBSET Nodes /\ seen \cup {n} \in SUBSET Nodes
      BY <2>1 DEF Graph!Ids
    <2>3. F[<<n, seen>>] = Append(F[<<NoNode, seen \cup {n}>>], n)
      BY <1>5, <2>1, <2>2
    <2>4. F[<<n, seen>>] = <<n>>
      <3>1. F[<<NoNode, seen \cup {n}>>] = <<>>
        BY <1>6, <2>2
      <3>2. Append(<<>>, n) = <<n>>
        OBVIOUS
      <3> QED BY <2>3, <3>1, <3>2
    <2> QED BY <2>1, <2>4 DEF Leads
  <1>8. ASSUME NEW k \in 1 .. N, Good(k - 1) PROVE Good(k)
    <2> SUFFICES ASSUME NEW n \in r[k], NEW seen \in SUBSET (Nodes \ r[k])
                 PROVE  Leads(F[<<n, seen>>], n)
      OBVIOUS
    <2>0. k - 1 \in 0 .. N /\ k \in 0 .. N
      BY <1>1
    <2>1. r[k - 1] \subseteq r[k] /\ r[k] \subseteq Nodes
      BY <1>2, <1>3, <2>0
    <2>2. CASE n \in r[k - 1]
      <3>1. seen \in SUBSET (Nodes \ r[k - 1])
        BY <2>1
      <3> QED BY <1>8, <2>2, <3>1
    <2>3. CASE n \notin r[k - 1]
      <3>1. PICK m \in r[k - 1] : n \in children[m] \cap Nodes
        BY <1>3, <2>3
      <3>2. m \in Nodes /\ n \in Nodes \ seen /\ parent[n] = m
        BY <2>1, <3>1 DEF Forest
      <3>3. n \in Graph!Ids /\ seen \in SUBSET Nodes
        BY <3>2 DEF Graph!Ids
      <3>4. F[<<n, seen>>] = Append(F[<<m, seen \cup {n}>>], n)
        BY <1>5, <3>2, <3>3
      <3>5. seen \cup {n} \in SUBSET (Nodes \ r[k - 1])
        BY <2>1, <2>3, <3>2
      <3>6. Leads(F[<<m, seen \cup {n}>>], m)
        BY <1>8, <3>5
      <3> DEFINE p == F[<<m, seen \cup {n}>>]
      <3>7. p \in Seq(Nodes) /\ p # <<>> /\ parent[p[1]] = NoNode
        BY <3>6 DEF Leads
      <3> HIDE DEF p
      <3>8. /\ Append(p, n) \in Seq(Nodes) /\ Append(p, n) # <<>>
            /\ Append(p, n)[1] = p[1] /\ Append(p, n)[Len(Append(p, n))] = n
        BY <3>2, <3>7
      <3>9. F[<<n, seen>>] = Append(p, n)
        BY <3>4 DEF p
      <3> QED BY <3>7, <3>8, <3>9 DEF Leads
    <2> QED BY <2>2, <2>3
  <1>9. Good(N)
    <2> DEFINE T == {k \in Nat : k <= N /\ ~Good(k)}
    <2> HIDE DEF Good
    <2> SUFFICES ASSUME T # {} PROVE FALSE
      BY <1>1
    <2>1. PICK k \in T : \A y \in T : k <= y
      BY LeastNumber
    <2>2. k # 0
      BY <1>7, <2>1
    <2>3. k \in 1 .. N /\ k - 1 \notin T /\ k - 1 \in Nat
      BY <1>1, <2>1, <2>2
    <2> QED BY <1>1, <1>8, <2>1, <2>3
  <1>10. \A n \in Nodes : Leads(F[<<n, {}>>], n)
    BY <1>1, <1>9
  <1> QED BY <1>10 DEF Graph!SelectedPath, F

LEMMA ForestWhenComplete == MappingTypes => Graph!CompleteMeansForest
  <1> SUFFICES ASSUME MappingTypes, Graph!Report
               PROVE  /\ \A n, m \in Nodes : m \in children[n] <=> parent[m] = n
                      /\ \A current \in Nodes :
                           LET path == Graph!SelectedPath(current)
                           IN parent[path[1]] = NoNode /\ path[Len(path)] = current
    BY DEF Graph!CompleteMeansForest
  <1>1. Consistent
    BY DEF Graph!Report, Consistent
  <1>2. Forest
    BY <1>1, ConsistentForest
  <1>3. \A n \in Nodes : Leads(Graph!SelectedPath(n), n)
    BY <1>1, <1>2, PathLeads
  <1> QED BY <1>2, <1>3 DEF Forest, Leads
-----------------------------------------------------------------------------
(* The search keeps its invariant whatever the other parts do. *)
LEMMA SearchHolds == MCSpec => [](part = "graph" => SearchInv)
  <1> DEFINE I == part = "graph" => SearchInv
  <1>1. MCInit => I
    BY SearchInit DEF MCInit
  <1>2. I /\ [MCNext]_all => I'
    <2> SUFFICES ASSUME I, [MCNext]_all, part' = "graph" PROVE SearchInv'
      OBVIOUS
    <2>1. part = "graph" /\ (Graph!Next \/ UNCHANGED graphVars)
      BY DEF MCNext, all
    <2> QED BY <2>1, SearchStep
  <1> QED BY <1>1, <1>2, PTL DEF MCSpec

(* verify_raw_mapping reports a cycle exactly where the lists of children  *)
(* have one, and each node it names lies on one.                           *)
THEOREM CyclesAlwaysFound == MCSpec => []CyclesFound
  <1>1. (part = "graph" => SearchInv) => CyclesFound
    BY SearchFinds DEF CyclesFound
  <1> QED BY <1>1, SearchHolds, PTL

(* A mapping that verify_raw_mapping reports complete is a forest, and the *)
(* selected path of each node leads to it from a root.                     *)
THEOREM CompleteReportsMeanForest == MCSpec => []CompleteMeansForest
  <1>1. (part = "graph" => SearchInv) => CompleteMeansForest
    BY ForestWhenComplete DEF CompleteMeansForest, SearchInv, SearchTypes
  <1> QED BY <1>1, SearchHolds, PTL

(* _compute_branch_index puts every message that a root leads to in one    *)
(* branch, once, and no other message in any, whatever the mapping.        *)
THEOREM BranchesAlwaysPartition == MCSpec => []BranchesPartition
  <1> DEFINE I == part = "graph" => BranchInv
  <1>1. MCInit => I
    BY BranchInit DEF MCInit
  <1>2. I /\ [MCNext]_all => I'
    <2> SUFFICES ASSUME I, [MCNext]_all, part' = "graph" PROVE BranchInv'
      OBVIOUS
    <2>1. part = "graph" /\ (Graph!Next \/ UNCHANGED graphVars)
      BY DEF MCNext, all
    <2> QED BY <2>1, BranchStep
  <1>3. I => BranchesPartition
    BY WalksPartition DEF BranchesPartition
  <1> QED BY <1>1, <1>2, <1>3, PTL DEF MCSpec
=============================================================================
