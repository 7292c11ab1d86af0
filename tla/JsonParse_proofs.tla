--------------------------- MODULE JsonParse_proofs ---------------------------
(***************************************************************************)
(* Proofs about JsonParse, for texts of every length and nesting, any      *)
(* nesting limit and any allocation that is refused: the tree that is      *)
(* built, taken down or left is one that cJSON_Delete frees, its lists are *)
(* linked both ways, and the offset never leaves the text.                 *)
(*                                                                         *)
(* Siblings and Visited are recursive functions.  All the proofs need of   *)
(* them is that they are the least sets closed under the pointers, which   *)
(* is shown first: pointers lead to items that were allocated later, so    *)
(* every item of such a set is reached in a number of steps.               *)
(***************************************************************************)
EXTENDS JsonParse, SequenceTheorems, FiniteSetTheorems, TLAPS

(* A set of natural numbers that is not empty has a least member.          *)
LEMMA Least ==
    ASSUME NEW S \in SUBSET Nat, S # {}
    PROVE  \E m \in S : \A k \in S : m <= k
<1> SUFFICES ASSUME \A m \in S : \E k \in S : k < m
             PROVE  FALSE
  OBVIOUS
<1>1. PICK n \in S : TRUE
  OBVIOUS
<1> DEFINE U == {m \in Nat : \A k \in S : m < k}
<1>2. 0 \in U
  OBVIOUS
<1>3. \A m \in U : m \in Nat /\ m + 1 \in U /\ m + 1 # 0
  OBVIOUS
<1>4. IsFiniteSet(U)
  BY <1>1, FS_BoundedSetOfNaturals
<1> DEFINE f == [m \in U |-> m + 1]
<1>5. f \in [U -> U \ {0}]
  BY <1>3
<1>6. \A x, y \in U : x # y => f[x] # f[y]
  BY <1>3
<1> HIDE DEF U, f
<1>7. /\ IsFiniteSet(U \ {0})
      /\ Cardinality(U \ {0}) = Cardinality(U) - 1
  BY <1>2, <1>4, FS_RemoveElement
<1>8. Cardinality(U) \in Nat
  BY <1>4, FS_CardinalityType
<1>9. Cardinality(U \ {0}) < Cardinality(U)
  BY <1>7, <1>8
<1> QED
  BY <1>4, <1>5, <1>6, <1>7, <1>9, FS_PigeonHole

(* Recursion over 0 .. n: the function that applies F again and again.     *)
Iterates(g, D, a, F, n) ==
    /\ g \in [0 .. n -> D]
    /\ \A k \in 0 .. n : g[k] = IF k = 0 THEN a ELSE F[g[k - 1]]

LEMMA IterationExists ==
    ASSUME NEW D, NEW a \in D, NEW F \in [D -> D], NEW n \in Nat
    PROVE  \E g : Iterates(g, D, a, F, n)
<1> DEFINE Good(b) == \E g : Iterates(g, D, a, F, b)
           Bad == {b \in Nat : ~ Good(b)}
<1>1. Good(0)
  <2> DEFINE g == [k \in 0 .. 0 |-> a]
  <2>1. g \in [0 .. 0 -> D]
    OBVIOUS
  <2>2. \A k \in 0 .. 0 : k = 0
    OBVIOUS
  <2>3. \A k \in 0 .. 0 : g[k] = IF k = 0 THEN a ELSE F[g[k - 1]]
    BY <2>2
  <2> QED
    BY <2>1, <2>3 DEF Iterates
<1>2. ASSUME NEW b \in Nat, Good(b)
      PROVE  Good(b + 1)
  <2>1. PICK g \in [0 .. b -> D] :
            \A k \in 0 .. b : g[k] = IF k = 0 THEN a ELSE F[g[k - 1]]
    BY <1>2 DEF Iterates
  <2> DEFINE h == [k \in 0 .. b + 1 |-> IF k = b + 1 THEN F[g[b]] ELSE g[k]]
  <2>2. \A k \in 0 .. b + 1 : k # b + 1 => k \in 0 .. b
    OBVIOUS
  <2>3. g[b] \in D
    OBVIOUS
  <2>4. h \in [0 .. b + 1 -> D]
    BY <2>2, <2>3
  <2>5. \A k \in 0 .. b + 1 : h[k] = IF k = 0 THEN a ELSE F[h[k - 1]]
    <3> TAKE k \in 0 .. b + 1
    <3>1. CASE k = b + 1
      <4>1. b \in 0 .. b + 1 /\ b # b + 1 /\ k - 1 = b /\ k # 0
        BY <3>1
      <4> QED
        BY <3>1, <4>1
    <3>2. CASE k # b + 1
      <4>1. k \in 0 .. b /\ h[k] = g[k]
        BY <2>2, <3>2
      <4>2. k # 0 => k - 1 \in 0 .. b + 1 /\ k - 1 # b + 1
        OBVIOUS
      <4>3. k # 0 => h[k - 1] = g[k - 1]
        BY <4>2
      <4>4. g[k] = IF k = 0 THEN a ELSE F[g[k - 1]]
        BY <2>1, <4>1
      <4> QED
        BY <4>1, <4>3, <4>4
    <3> QED
      BY <3>1, <3>2
  <2> HIDE DEF h
  <2> QED
    BY <2>4, <2>5 DEF Iterates
<1> HIDE DEF Good
<1>3. Bad = {}
  <2> SUFFICES ASSUME Bad # {} PROVE FALSE
    OBVIOUS
  <2>1. PICK m \in Bad : \A k \in Bad : m <= k
    BY Least
  <2>2. m # 0 /\ m \in Nat
    BY <1>1
  <2>3. m - 1 \in Nat /\ ~ (m <= m - 1) /\ (m - 1) + 1 = m
    BY <2>2
  <2>4. Good(m - 1)
    BY <2>1, <2>3
  <2>5. Good(m)
    BY <1>2, <2>3, <2>4
  <2> QED
    BY <2>5
<1> QED
  BY <1>3 DEF Good

(* What a recursion over sets collects, when each step adds what the       *)
(* members lead to and that is always above them: the least set that holds *)
(* the first ones and all that its members lead to.                        *)
Ascends(Succ, b) == \A m \in 1 .. b : \A p \in Succ[m] : p \in m + 1 .. b

Collects(v, A, Succ, b) ==
    /\ v[0] = A
    /\ \A k \in 1 .. b :
           v[k - 1] \subseteq 1 .. b =>
               \A x : x \in v[k] <=> \/ x \in v[k - 1]
                                   \/ \E m \in v[k - 1] : x \in Succ[m]

LeastClosed(T, A, Succ, b) ==
    /\ T \subseteq 1 .. b
    /\ A \subseteq T
    /\ \A m \in T : Succ[m] \subseteq T
    /\ \A S : A \subseteq S /\ (\A m \in S \cap (1 .. b) :
                                    Succ[m] \subseteq S)
                  => T \subseteq S

LEMMA Collected ==
    ASSUME NEW b \in Nat, NEW A \in SUBSET (1 .. b),
           NEW Succ, Ascends(Succ, b), NEW v, Collects(v, A, Succ, b)
    PROVE  LeastClosed(v[b], A, Succ, b)
<1> USE DEF Ascends, Collects, LeastClosed
<1> DEFINE Good(k) ==
               /\ v[k] \subseteq 1 .. b
               /\ A \subseteq v[k]
               /\ \A x \in v[k] : \A j \in 0 .. b : j >= x => x \in v[j]
               /\ \A S : A \subseteq S /\ (\A m \in S \cap (1 .. b) :
                                               Succ[m] \subseteq S)
                             => v[k] \subseteq S
           Rises == \A k, j \in 0 .. b : k <= j => v[k] \subseteq v[j]
           In(k) == v[k] \subseteq 1 .. b
<1>a. \A k \in 0 .. b : In(k)
  <2> DEFINE Bad == {k \in Nat : k <= b /\ ~ In(k)}
  <2>1. ASSUME NEW k \in Nat, k + 1 <= b, In(k)
        PROVE  In(k + 1)
    <3>1. k + 1 \in 1 .. b /\ (k + 1) - 1 = k
      BY <2>1
    <3>2. \A x : x \in v[k + 1] <=> \/ x \in v[k]
                                    \/ \E m \in v[k] : x \in Succ[m]
      BY <2>1, <3>1
    <3> SUFFICES ASSUME NEW x \in v[k + 1], x \notin v[k]
                 PROVE  x \in 1 .. b
      BY <2>1
    <3>3. PICK m \in v[k] : x \in Succ[m]
      BY <3>2
    <3>4. m \in 1 .. b /\ x \in m + 1 .. b
      BY <2>1, <3>3
    <3> QED
      BY <3>4
  <2>2. In(0)
    OBVIOUS
  <2> HIDE DEF In
  <2>3. Bad = {}
    <3> SUFFICES ASSUME Bad # {} PROVE FALSE
      OBVIOUS
    <3>1. PICK m \in Bad : \A j \in Bad : m <= j
      BY Least
    <3>2. m # 0 /\ m \in Nat /\ m <= b
      BY <2>2
    <3>3. /\ m - 1 \in Nat /\ m - 1 <= b /\ ~ (m <= m - 1)
          /\ (m - 1) + 1 = m /\ (m - 1) + 1 <= b
      BY <3>2
    <3>4. In(m - 1)
      BY <3>1, <3>3
    <3>5. In(m)
      BY <2>1, <3>3, <3>4
    <3> QED
      BY <3>5
  <2> QED
    BY <2>3
<1>b. \A k \in 1 .. b : \A x :
          x \in v[k] <=> \/ x \in v[k - 1]
                        \/ \E m \in v[k - 1] : x \in Succ[m]
  <2> SUFFICES ASSUME NEW k \in 1 .. b
               PROVE  \A x : x \in v[k] <=>
                          \/ x \in v[k - 1]
                          \/ \E m \in v[k - 1] : x \in Succ[m]
    OBVIOUS
  <2>1. k - 1 \in 0 .. b
    OBVIOUS
  <2> QED
    BY <1>a, <2>1
<1> HIDE DEF In, Collects
<1>1. Rises
  <2> SUFFICES ASSUME NEW k \in 0 .. b
               PROVE  \A j \in 0 .. b : k <= j => v[k] \subseteq v[j]
    OBVIOUS
  <2> DEFINE Bad == {j \in Nat : j <= b /\ k <= j /\ ~ (v[k] \subseteq v[j])}
  <2>1. Bad = {}
    <3> SUFFICES ASSUME Bad # {} PROVE FALSE
      OBVIOUS
    <3>1. PICK m \in Bad : \A j \in Bad : m <= j
      BY Least
    <3>2. m # k /\ m \in Nat /\ k \in Nat /\ k <= m /\ m <= b
      OBVIOUS
    <3>3. m - 1 \in Nat /\ k <= m - 1 /\ m - 1 <= b /\ ~ (m <= m - 1)
      BY <3>2
    <3>4. v[k] \subseteq v[m - 1]
      BY <3>1, <3>3
    <3>5. m \in 1 .. b
      BY <3>2, <3>3
    <3>6. v[m - 1] \subseteq v[m]
      BY <1>b, <3>5
    <3> QED
      BY <3>4, <3>6
  <2> QED
    BY <2>1
<1>2. Good(0)
  <2>1. 0 \in 0 .. b /\ v[0] = A
    BY DEF Collects
  <2> QED
    BY <1>1, <2>1
<1>3. ASSUME NEW k \in Nat, k + 1 <= b, Good(k)
      PROVE  Good(k + 1)
  <2>1. /\ k \in 0 .. b /\ k + 1 \in 1 .. b /\ k + 1 \in 0 .. b
        /\ (k + 1) - 1 = k
    BY <1>3
  <2>2. \A x : x \in v[k + 1] <=> \/ x \in v[k]
                                  \/ \E m \in v[k] : x \in Succ[m]
    BY <1>b, <2>1
  <2>3. ASSUME NEW x \in v[k + 1], x \notin v[k]
        PROVE  \E m \in v[k] : x \in Succ[m] /\ m \in 1 .. b
    BY <1>3, <2>2, <2>3
  <2>4. v[k + 1] \subseteq 1 .. b
    <3> SUFFICES ASSUME NEW x \in v[k + 1], x \notin v[k]
                 PROVE  x \in 1 .. b
      BY <1>3
    <3>1. PICK m \in v[k] : x \in Succ[m] /\ m \in 1 .. b
      BY <2>3
    <3>2. x \in m + 1 .. b
      BY <3>1
    <3> QED
      BY <3>1, <3>2
  <2>5. A \subseteq v[k + 1]
    BY <1>3, <2>2
  <2>6. ASSUME NEW x \in v[k + 1], NEW j \in 0 .. b, j >= x
        PROVE  x \in v[j]
    <3>1. CASE x \in v[k]
      BY <1>3, <2>6, <3>1
    <3>2. CASE x \notin v[k]
      <4>1. PICK m \in v[k] : x \in Succ[m] /\ m \in 1 .. b
        BY <2>3, <3>2
      <4>2. x \in m + 1 .. b
        BY <4>1
      <4>3. /\ m \in 0 .. b /\ m >= m /\ m + 1 \in 1 .. b
            /\ m + 1 \in 0 .. b /\ (m + 1) - 1 = m /\ m + 1 <= j
        BY <2>6, <4>1, <4>2
      <4>4. m \in v[m]
        BY <1>3, <4>1, <4>3
      <4>5. x \in v[m + 1]
        BY <1>b, <4>1, <4>3, <4>4
      <4>7. v[m + 1] \subseteq v[j]
        BY <1>1, <4>3
      <4> QED
        BY <4>5, <4>7
    <3> QED
      BY <3>1, <3>2
  <2>7. ASSUME NEW S, A \subseteq S,
               \A m \in S \cap (1 .. b) : Succ[m] \subseteq S
        PROVE  v[k + 1] \subseteq S
    <3>1. v[k] \subseteq S
      BY <1>3, <2>7
    <3> SUFFICES ASSUME NEW x \in v[k + 1], x \notin v[k]
                 PROVE  x \in S
      BY <3>1
    <3>2. PICK m \in v[k] : x \in Succ[m] /\ m \in 1 .. b
      BY <2>3
    <3> QED
      BY <2>7, <3>1, <3>2
  <2> QED
    BY <2>4, <2>5, <2>6, <2>7
<1> HIDE DEF Good, Rises
<1>4. Good(b)
  <2> DEFINE Bad == {k \in Nat : k <= b /\ ~ Good(k)}
  <2>1. Bad = {}
    <3> SUFFICES ASSUME Bad # {} PROVE FALSE
      OBVIOUS
    <3>1. PICK m \in Bad : \A j \in Bad : m <= j
      BY Least
    <3>2. m # 0 /\ m \in Nat /\ m <= b
      BY <1>2
    <3>3. /\ m - 1 \in Nat /\ m - 1 <= b /\ ~ (m <= m - 1)
          /\ (m - 1) + 1 = m /\ (m - 1) + 1 <= b
      BY <3>2
    <3>4. Good(m - 1)
      BY <3>1, <3>3
    <3>5. Good(m)
      BY <1>3, <3>3, <3>4
    <3> QED
      BY <3>5
  <2>2. b <= b
    OBVIOUS
  <2> QED
    BY <2>1, <2>2
<1>5. ASSUME NEW m \in v[b] PROVE Succ[m] \subseteq v[b]
  <2>1. m \in 1 .. b
    BY <1>4 DEF Good
  <2> SUFFICES ASSUME NEW p \in Succ[m] PROVE p \in v[b]
    OBVIOUS
  <2>2. p \in m + 1 .. b
    BY <2>1
  <2>3. /\ m \in 0 .. b /\ m >= m /\ m + 1 \in 1 .. b /\ b \in 0 .. b
        /\ m + 1 \in 0 .. b /\ (m + 1) - 1 = m /\ m + 1 <= b
    BY <2>1, <2>2
  <2>4. m \in v[m]
    BY <1>4, <2>3 DEF Good
  <2>6. p \in v[m + 1]
    BY <1>b, <2>3, <2>4
  <2>7. v[m + 1] \subseteq v[b]
    BY <1>1, <2>3 DEF Rises
  <2> QED
    BY <2>6, <2>7
<1> QED
  BY <1>4, <1>5 DEF Good
-----------------------------------------------------------------------------
(***************************************************************************)
(* The heap.  Items are numbered as they are allocated, and pointers lead  *)
(* upward: so what is reached from an item is finite, and the recursions   *)
(* of the model reach all of it.                                           *)
(***************************************************************************)
Items == [type : {"free", "Invalid", "NULL", "Number", "String"}
                     \cup Containers,
          next : Ids \cup {Null}, prev : Ids \cup {Null},
          child : Ids \cup {Null},
          string : Strings \cup {Absent},
          valuestring : Strings \cup {Absent}]

HeapOK ==
    /\ text \in Seq(Characters) /\ text # <<>>
    /\ heap \in [Ids -> Items]
    /\ born \in 0 .. Length + 1

(* A pointer leads to an item that was allocated later.                    *)
Upward ==
    \A m \in Ids : /\ heap[m].next \in {Null} \cup (m + 1 .. born)
                   /\ heap[m].child \in {Null} \cup (m + 1 .. born)

SiblingsClosed(S) ==
    \A m \in S \cap (1 .. born) : heap[m].next # Null => heap[m].next \in S

TreeClosed(S) ==
    \A m \in S \cap (1 .. born) :
        /\ heap[m].next # Null => heap[m].next \in S
        /\ heap[m].child # Null => heap[m].child \in S

LEMMA BornWithin ==
    ASSUME HeapOK
    PROVE  born \in Nat /\ Length \in Nat \ {0} /\ 1 .. born \subseteq Ids
BY DEF HeapOK, Length, Ids

LEMMA SiblingsAre ==
    ASSUME HeapOK, Upward, NEW n \in 1 .. born
    PROVE  /\ n \in Siblings(n) /\ Siblings(n) \subseteq 1 .. born
           /\ SiblingsClosed(Siblings(n))
           /\ \A S : n \in S /\ SiblingsClosed(S) => Siblings(n) \subseteq S
<1> DEFINE D == SUBSET (1 .. born)
           Succ == [m \in 1 .. born |-> {heap[m].next} \ {Null}]
           F == [S \in D |-> S \cup ({heap[m].next : m \in S} \ {Null})]
           eq(v) == v = [k \in 0 .. born |->
                             IF k = 0 THEN {n}
                             ELSE v[k - 1] \cup
                                 ({heap[m].next : m \in v[k - 1]} \ {Null})]
           v0 == CHOOSE v : eq(v)
<1>0. born \in Nat /\ 1 .. born \subseteq Ids
  BY BornWithin
<1>1. Ascends(Succ, born)
  BY <1>0 DEF Upward, Ascends
<1>2. F \in [D -> D]
  <2> SUFFICES ASSUME NEW S \in D
               PROVE  S \cup ({heap[m].next : m \in S} \ {Null}) \in D
    OBVIOUS
  <2>1. \A m \in S : heap[m].next # Null => heap[m].next \in m + 1 .. born
    BY <1>0 DEF Upward
  <2>2. \A m \in S : heap[m].next # Null => heap[m].next \in 1 .. born
    BY <1>0, <2>1
  <2> QED
    BY <2>2
<1>3. \E v : eq(v)
  <2> DEFINE A == {n}
  <2>1. A \in D
    OBVIOUS
  <2> HIDE DEF F, D, A, eq
  <2>a. \E g : Iterates(g, D, A, F, born)
    BY <1>0, <1>2, <2>1, IterationExists
  <2>2. PICK g \in [0 .. born -> D] :
            \A k \in 0 .. born : g[k] = IF k = 0 THEN A ELSE F[g[k - 1]]
    BY <2>a DEF Iterates
  <2>3. \A k \in 0 .. born : k # 0 =>
            F[g[k - 1]] = g[k - 1] \cup
                              ({heap[m].next : m \in g[k - 1]} \ {Null})
    <3> SUFFICES ASSUME NEW k \in 0 .. born, k # 0
                 PROVE  F[g[k - 1]] =
                            g[k - 1] \cup
                              ({heap[m].next : m \in g[k - 1]} \ {Null})
      OBVIOUS
    <3>1. k - 1 \in 0 .. born
      BY <1>0
    <3>2. g[k - 1] \in D
      BY <2>2, <3>1
    <3> QED
      BY <3>2 DEF F
  <2>4. \A k \in 0 .. born :
            g[k] = IF k = 0 THEN {n}
                   ELSE g[k - 1] \cup
                            ({heap[m].next : m \in g[k - 1]} \ {Null})
    BY <2>2, <2>3 DEF A
  <2>5. eq(g)
    BY <2>2, <2>4 DEF eq
  <2> QED
    BY <2>5
<1>4. eq(v0)
  BY <1>3
<1>5. Siblings(n) = v0[born]
  BY DEF Siblings
<1> HIDE DEF v0
<1>6. Collects(v0, {n}, Succ, born)
  <2>1. \A k \in 0 .. born :
             v0[k] = IF k = 0 THEN {n}
                     ELSE v0[k - 1] \cup
                              ({heap[m].next : m \in v0[k - 1]} \ {Null})
    BY <1>4
  <2>2. v0[0] = {n}
    <3>1. 0 \in 0 .. born
      BY <1>0
    <3> QED
      BY <2>1, <3>1, Zenon
  <2>3. ASSUME NEW k \in 1 .. born, v0[k - 1] \subseteq 1 .. born
        PROVE  \A x : x \in v0[k] <=>
                   \/ x \in v0[k - 1]
                   \/ \E m \in v0[k - 1] : x \in Succ[m]
    <3>1. k \in 0 .. born /\ k # 0
      BY <1>0
    <3>2. v0[k] = v0[k - 1] \cup ({heap[m].next : m \in v0[k - 1]} \ {Null})
      BY <2>1, <3>1
    <3>3. \A m \in v0[k - 1] : Succ[m] = {heap[m].next} \ {Null}
      BY <2>3
    <3> HIDE DEF Succ
    <3> QED
      BY <3>2, <3>3
  <2> HIDE DEF Succ
  <2> QED
    BY <2>2, <2>3 DEF Collects
<1>7. LeastClosed(v0[born], {n}, Succ, born)
  <2> DEFINE A == {n}
  <2>1. A \in SUBSET (1 .. born) /\ Collects(v0, A, Succ, born)
    BY <1>6
  <2> HIDE DEF Succ, A
  <2>2. LeastClosed(v0[born], A, Succ, born)
    BY <1>0, <1>1, <2>1, Collected
  <2> QED
    BY <2>2 DEF A
<1>8. SiblingsClosed(v0[born])
  BY <1>7 DEF SiblingsClosed, LeastClosed
<1>9. ASSUME NEW S, n \in S, SiblingsClosed(S)
      PROVE  v0[born] \subseteq S
  BY <1>7, <1>9 DEF SiblingsClosed, LeastClosed
<1> QED
  BY <1>5, <1>7, <1>8, <1>9 DEF LeastClosed

LEMMA VisitedAre ==
    ASSUME HeapOK, Upward, NEW n \in 0 .. born
    PROVE  /\ n # Null => n \in Visited(n)
           /\ Visited(n) \subseteq 1 .. born
           /\ TreeClosed(Visited(n))
           /\ \A S : {n} \ {Null} \subseteq S /\ TreeClosed(S)
                         => Visited(n) \subseteq S
<1> DEFINE D == SUBSET (1 .. born)
           Succ == [m \in 1 .. born |->
                          {heap[m].next, heap[m].child} \ {Null}]
           F == [S \in D |->
                     S \cup ((UNION {{heap[m].next, heap[m].child} : m \in S})
                                \ {Null})]
           eq(v) == v = [k \in 0 .. born |->
                             IF k = 0 THEN {n} \ {Null}
                             ELSE v[k - 1] \cup
                                 ((UNION {{heap[m].next, heap[m].child} :
                                             m \in v[k - 1]}) \ {Null})]
           v0 == CHOOSE v : eq(v)
<1>0. born \in Nat /\ 1 .. born \subseteq Ids
  BY BornWithin
<1>1. Ascends(Succ, born)
  BY <1>0 DEF Upward, Ascends
<1>2. F \in [D -> D]
  <2> SUFFICES ASSUME NEW S \in D
               PROVE  S \cup ((UNION {{heap[m].next, heap[m].child} : m \in S})
                                 \ {Null}) \in D
    OBVIOUS
  <2>1. \A m \in S : /\ heap[m].next \in {Null} \cup (m + 1 .. born)
                     /\ heap[m].child \in {Null} \cup (m + 1 .. born)
    BY <1>0, Zenon DEF Upward
  <2>2. \A m \in S : /\ heap[m].next \in {Null} \cup (1 .. born)
                     /\ heap[m].child \in {Null} \cup (1 .. born)
    <3> SUFFICES ASSUME NEW m \in S
                 PROVE  /\ heap[m].next \in {Null} \cup (1 .. born)
                        /\ heap[m].child \in {Null} \cup (1 .. born)
      OBVIOUS
    <3>1. m \in Nat /\ m + 1 .. born \subseteq 1 .. born
      BY <1>0
    <3> QED
      BY <2>1, <3>1
  <2>3. (UNION {{heap[m].next, heap[m].child} : m \in S}) \ {Null}
            \subseteq 1 .. born
    <3> SUFFICES ASSUME NEW m \in S,
                        NEW x \in {heap[m].next, heap[m].child} \ {Null}
                 PROVE  x \in 1 .. born
      BY Zenon
    <3>1. x # Null /\ (x = heap[m].next \/ x = heap[m].child)
      BY Zenon
    <3> QED
      BY <2>2, <3>1
  <2> QED
    BY <2>3
<1>3. \E v : eq(v)
  <2> DEFINE A == {n} \ {Null}
  <2>1. A \in D
    BY <1>0 DEF Null
  <2> HIDE DEF F, D, A, eq
  <2>a. \E g : Iterates(g, D, A, F, born)
    BY <1>0, <1>2, <2>1, IterationExists
  <2>2. PICK g \in [0 .. born -> D] :
            \A k \in 0 .. born : g[k] = IF k = 0 THEN A ELSE F[g[k - 1]]
    BY <2>a DEF Iterates
  <2>3. \A k \in 0 .. born : k # 0 =>
            F[g[k - 1]] = g[k - 1] \cup
                              ((UNION {{heap[m].next, heap[m].child} :
                                          m \in g[k - 1]}) \ {Null})
    <3> SUFFICES ASSUME NEW k \in 0 .. born, k # 0
                 PROVE  F[g[k - 1]] =
                            g[k - 1] \cup
                              ((UNION {{heap[m].next, heap[m].child} :
                                          m \in g[k - 1]}) \ {Null})
      OBVIOUS
    <3>1. k - 1 \in 0 .. born
      BY <1>0
    <3>2. g[k - 1] \in D
      BY <2>2, <3>1
    <3> QED
      BY <3>2 DEF F
  <2>4. \A k \in 0 .. born :
            g[k] = IF k = 0 THEN {n} \ {Null}
                   ELSE g[k - 1] \cup
                            ((UNION {{heap[m].next, heap[m].child} :
                                          m \in g[k - 1]}) \ {Null})
    BY <2>2, <2>3 DEF A
  <2>5. eq(g)
    BY <2>2, <2>4 DEF eq
  <2> QED
    BY <2>5
<1>4. eq(v0)
  BY <1>3
<1>5. Visited(n) = v0[born]
  BY DEF Visited
<1> HIDE DEF v0
<1>6. Collects(v0, {n} \ {Null}, Succ, born)
  <2>1. \A k \in 0 .. born :
             v0[k] = IF k = 0 THEN {n} \ {Null}
                     ELSE v0[k - 1] \cup
                              ((UNION {{heap[m].next, heap[m].child} :
                                          m \in v0[k - 1]}) \ {Null})
    BY <1>4
  <2>2. v0[0] = {n} \ {Null}
    <3>1. 0 \in 0 .. born
      BY <1>0
    <3> QED
      BY <2>1, <3>1, Zenon
  <2>3. ASSUME NEW k \in 1 .. born, v0[k - 1] \subseteq 1 .. born
        PROVE  \A x : x \in v0[k] <=>
                   \/ x \in v0[k - 1]
                   \/ \E m \in v0[k - 1] : x \in Succ[m]
    <3>1. k \in 0 .. born /\ k # 0
      BY <1>0
    <3>2. v0[k] = v0[k - 1] \cup
                    ((UNION {{heap[m].next, heap[m].child} : m \in v0[k - 1]})
                         \ {Null})
      BY <2>1, <3>1
    <3>3. \A m \in v0[k - 1] :
            Succ[m] = {heap[m].next, heap[m].child} \ {Null}
      BY <2>3
    <3>4. \A x : x \in (UNION {{heap[m].next, heap[m].child} :
                                   m \in v0[k - 1]}) <=>
                    \E m \in v0[k - 1] : x \in {heap[m].next, heap[m].child}
      BY Zenon
    <3> DEFINE U == (UNION {{heap[m].next, heap[m].child} : m \in v0[k - 1]})
    <3>5. \A x : x \in v0[k] <=>
                    x \in v0[k - 1] \/ (x \in U /\ x # Null)
      <4>1. v0[k] = v0[k - 1] \cup (U \ {Null})
        BY <3>2
      <4> HIDE DEF U
      <4> QED
        BY <4>1
    <3>6. \A x : x \in U /\ x # Null <=> \E m \in v0[k - 1] : x \in Succ[m]
      <4> HIDE DEF Succ
      <4> QED
        BY <3>3, <3>4, Zenon
    <3> HIDE DEF Succ, U
    <3> QED
      BY <3>5, <3>6, Zenon
  <2> HIDE DEF Succ
  <2> QED
    BY <2>2, <2>3 DEF Collects
<1>7. LeastClosed(v0[born], {n} \ {Null}, Succ, born)
  <2> DEFINE A == {n} \ {Null}
  <2>1. A \in SUBSET (1 .. born) /\ Collects(v0, A, Succ, born)
    BY <1>0, <1>6 DEF Null
  <2> HIDE DEF Succ, A
  <2>2. LeastClosed(v0[born], A, Succ, born)
    BY <1>0, <1>1, <2>1, Collected
  <2> QED
    BY <2>2 DEF A
<1>8. TreeClosed(v0[born])
  BY <1>7 DEF TreeClosed, LeastClosed
<1>9. ASSUME NEW S, {n} \ {Null} \subseteq S, TreeClosed(S)
      PROVE  v0[born] \subseteq S
  BY <1>7, <1>9 DEF TreeClosed, LeastClosed
<1> QED
  BY <1>5, <1>7, <1>8, <1>9 DEF LeastClosed

(* The closure of the siblings in the next state.                          *)
SiblingsFacts ==
    \A n \in 1 .. born :
        /\ n \in Siblings(n) /\ Siblings(n) \subseteq 1 .. born
        /\ SiblingsClosed(Siblings(n))
        /\ \A S : n \in S /\ SiblingsClosed(S) => Siblings(n) \subseteq S

LEMMA SiblingsHold == HeapOK /\ Upward => SiblingsFacts
BY SiblingsAre DEF SiblingsFacts

LEMMA SiblingsPrimed == (HeapOK /\ Upward => SiblingsFacts)'
BY SiblingsHold, PTL

(* A list only grows while no pointer to a sibling is overwritten.         *)
LEMMA SiblingsKept ==
    ASSUME HeapOK, Upward, HeapOK', Upward', born <= born',
           \A m \in 1 .. born :
               heap[m].next # Null => heap'[m].next = heap[m].next,
           NEW n \in 1 .. born
    PROVE  Siblings(n) \subseteq Siblings(n)'
<1>1. born \in Nat /\ born' \in Nat
  BY BornWithin DEF HeapOK
<1>2. n \in 1 .. born' /\ 1 .. born \subseteq 1 .. born'
  BY <1>1
<1>3. SiblingsFacts'
  BY SiblingsPrimed
<1> DEFINE T == Siblings(n)'
<1>4. n \in T
  BY <1>2, <1>3 DEF SiblingsFacts
<1>5. \A m \in T \cap (1 .. born') : heap'[m].next # Null => heap'[m].next \in T
  BY <1>2, <1>3 DEF SiblingsFacts, SiblingsClosed
<1> HIDE DEF T
<1>6. SiblingsClosed(T)
  BY <1>2, <1>5 DEF SiblingsClosed
<1>7. Siblings(n) \subseteq T
  BY <1>4, <1>6, SiblingsAre
<1> QED
  BY <1>7 DEF T
-----------------------------------------------------------------------------
(***************************************************************************)
(* The invariant.  What the properties say of the heap holds because the   *)
(* lists under construction are in order as well, each call's behind the   *)
(* ones of the calls that it was made from, and because the item that      *)
(* parse_value is to fill is empty.                                        *)
(***************************************************************************)
(* What is free is blank, and nothing beyond the last item was allocated.  *)
FreeIsBlank ==
    /\ \A n \in Ids : heap[n].type = "free" => heap[n] = Free
    /\ \A n \in Live : n <= born

(* Every live item has one owner, and nothing leads to what is free.       *)
OneOwner ==
    /\ \A n \in Live : \E o : Owners(n) = {o}
    /\ \A n \in Ids \ (Live \cup {Root}) : Owners(n) = {}

(* A call of parse_array or parse_object and the list that it builds.      *)
CallOK(f) ==
    /\ f.item \in Live /\ heap[f.item].child = Null
    /\ f.head = Null <=> f.current = Null
    /\ f.head # Null =>
           /\ f.item < f.head /\ f.head <= f.current
           /\ f.current \in Live /\ heap[f.current].next = Null
           /\ f.current \in Siblings(f.head)

CallsOK ==
    /\ \A j \in DOMAIN stack : CallOK(stack[j])
    /\ \A i, j \in DOMAIN stack :
           i < j => stack[i].head # Null /\ stack[i].current <= stack[j].item

(* The item that is to be filled is the last one, and empty.               *)
ItemOK ==
    at \in {"value", "name"} =>
        /\ item = born /\ item \in Live
        /\ heap[item].child = Null /\ heap[item].valuestring = Absent
        /\ at = "name" => heap[item].string = Absent
        /\ stack # <<>> => Top.current = item

(* How far the parser has come, and how much it has allocated.             *)
Progress ==
    /\ at \in {"value", "element", "true"} => born <= offset + 1
    /\ at = "name" => born <= offset + 2 /\ stack # <<>>
    /\ at \in {"element", "name"} => offset < Length /\ stack # <<>>
    /\ at = "true" /\ stack # <<>> => Top.head # Null
    /\ at = "start" => born = 0 /\ stack = <<>>
    /\ at \notin {"start", "rejected", "deleted"} => born >= 1
    /\ at \in {"accepted", "rejected", "deleted"} => stack = <<>>
    /\ at \in {"start", "rejected", "deleted"} => Live = {}

(* The lists of the items are linked both ways, and the first one's prev   *)
(* leads to the last; a call under way has not closed its list yet.        *)
ListEnd(first, last) ==
    /\ last \in Siblings(first) /\ heap[last].next = Null
    /\ \A j \in DOMAIN stack : stack[j].current # last

Linked ==
    /\ \A n \in Live : heap[n].next # Null => heap[heap[n].next].prev = n
    /\ \A n \in Live, first \in Ids, last \in Ids \cup {Null} :
           heap[n].child = first /\ heap[first].prev = last
               => ListEnd(first, last)

(* The strings allocated are those that the live items hold.               *)
StringsHeld == strings = Held(Live)

(* The inductive invariant.                                                *)
JsonInv ==
    /\ TypeOK /\ FreeIsBlank /\ Upward /\ OneOwner /\ CallsOK /\ ItemOK
    /\ Progress /\ Linked /\ StringsHeld

Frames == [type : Containers, item : Ids, head : Ids \cup {Null},
           current : Ids \cup {Null}]

LEMMA TypesAre ==
    ASSUME TypeOK
    PROVE  /\ HeapOK /\ stack \in Seq(Frames) /\ item \in Ids \cup {Null}
           /\ offset \in 0 .. Length /\ strings \in Nat
BY DEF TypeOK, HeapOK, Items, Frames

LEMMA TypesPrimed ==
    (TypeOK => /\ HeapOK /\ stack \in Seq(Frames) /\ item \in Ids \cup {Null}
               /\ offset \in 0 .. Length /\ strings \in Nat)'
<1>1. TypeOK => /\ HeapOK /\ stack \in Seq(Frames)
                /\ item \in Ids \cup {Null}
                /\ offset \in 0 .. Length /\ strings \in Nat
  BY TypesAre
<1> QED
  BY <1>1, PTL

(* Who the owners of an item are.                                          *)
OwnersFacts ==
    \A n, o : o \in Owners(n) <=>
        \/ \E m \in 1 .. n - 1 : heap[m].next = n /\ o = <<"sibling", m>>
        \/ \E m \in 1 .. n - 1 : heap[m].child = n /\ o = <<"parent", m>>
        \/ \E j \in DOMAIN stack : stack[j].head = n /\ o = <<"call", j>>
        \/ n = Root /\ o = <<"caller", 0>>

LEMMA OwnersAre == OwnersFacts
BY DEF OwnersFacts, Owners

LEMMA OwnersPrimed == OwnersFacts'
BY OwnersAre, PTL

(* No item is owned twice: what leads to an item says all of its owners.   *)
LEMMA SoleOwner ==
    ASSUME OneOwner, NEW n \in Live, NEW o \in Owners(n), NEW p \in Owners(n)
    PROVE  o = p
BY DEF OneOwner

LEMMA LiveIsWithin ==
    ASSUME HeapOK, FreeIsBlank
    PROVE  Live \subseteq 1 .. born /\ Live \subseteq Ids
<1>1. Live \subseteq Ids
  BY DEF Live
<1>2. \A n \in Live : n \in Nat /\ n >= 1 /\ n <= born
  BY <1>1, BornWithin DEF FreeIsBlank, Ids
<1> QED
  BY <1>1, <1>2, BornWithin

LEMMA PointersLive ==
    ASSUME HeapOK, Upward, OneOwner, NEW m \in Ids,
           NEW p \in {heap[m].next, heap[m].child}, p # Null
    PROVE  p \in Live /\ m < p /\ p \in m + 1 .. born
<1>1. born \in Nat /\ Length \in Nat \ {0} /\ 1 .. born \subseteq Ids
  BY BornWithin
<1>2. m \in Nat /\ m >= 1
  BY <1>1 DEF Ids
<1>3. p \in m + 1 .. born
  BY DEF Upward
<1>4. p \in Ids /\ m \in 1 .. p - 1 /\ p # Root
  BY <1>1, <1>2, <1>3 DEF Root
<1>5. Owners(p) # {}
  BY <1>4, OwnersAre DEF OwnersFacts
<1>6. p \in Live
  BY <1>4, <1>5 DEF OneOwner
<1> QED
  BY <1>2, <1>3, <1>6

(* The steps that leave the pointers, the calls and what is live alone.    *)
PointersKept ==
    /\ text' = text /\ born' = born /\ stack' = stack
    /\ \A n \in Ids :
           /\ heap'[n].next = heap[n].next /\ heap'[n].prev = heap[n].prev
           /\ heap'[n].child = heap[n].child
           /\ heap'[n].type = "free" <=> heap[n].type = "free"
           /\ heap'[n].type = "free" => heap'[n] = heap[n]

LEMMA ShapeKept ==
    ASSUME JsonInv, HeapOK', PointersKept
    PROVE  /\ FreeIsBlank' /\ Upward' /\ OneOwner' /\ CallsOK' /\ Linked'
           /\ Ids' = Ids /\ Live' = Live /\ Length' = Length
<1>1. /\ HeapOK /\ FreeIsBlank /\ Upward /\ OneOwner /\ CallsOK /\ Linked
      /\ stack \in Seq(Frames)
  BY TypesAre DEF JsonInv
<1>2. Ids' = Ids /\ Length' = Length /\ Live' = Live
  BY DEF PointersKept, Ids, Length, Live
<1>3. /\ born \in Nat /\ 1 .. born \subseteq Ids
      /\ Live \subseteq 1 .. born /\ Live \subseteq Ids
  BY <1>1, BornWithin, LiveIsWithin
<1>4. FreeIsBlank'
  BY <1>1, <1>2, <1>3 DEF FreeIsBlank, PointersKept, Free
<1>5. Upward'
  BY <1>1, <1>2 DEF Upward, PointersKept
<1>6. ASSUME NEW n \in 1 .. born PROVE Siblings(n) \subseteq Siblings(n)'
  <2>1. \A m \in 1 .. born :
            heap[m].next # Null => heap'[m].next = heap[m].next
    BY <1>3 DEF PointersKept
  <2>2. born <= born'
    BY <1>3 DEF PointersKept
  <2> QED
    BY <1>1, <1>5, <2>1, <2>2, SiblingsKept
<1>7. ASSUME NEW n \in Ids PROVE Owners(n)' = Owners(n)
  <2>1. 1 .. n - 1 \subseteq Ids
    BY <1>1, BornWithin DEF Ids
  <2>2. \A m \in 1 .. n - 1 : /\ heap'[m].next = heap[m].next
                              /\ heap'[m].child = heap[m].child
    BY <2>1 DEF PointersKept
  <2>3. \A o : o \in Owners(n)' <=> o \in Owners(n)
    BY <2>2, OwnersAre, OwnersPrimed DEF OwnersFacts, PointersKept
  <2> HIDE DEF Owners
  <2> QED
    BY <2>3
<1>8. OneOwner'
  <2>1. \A n \in Live : Owners(n)' = Owners(n)
    BY <1>3, <1>7
  <2> QED
    BY <1>1, <1>2, <1>7, <2>1 DEF OneOwner, Root
<1>9. ASSUME NEW f \in Frames, CallOK(f) PROVE CallOK(f)'
  <2>1. f.item \in Live' /\ heap'[f.item].child = Null
    BY <1>2, <1>3, <1>9 DEF CallOK, PointersKept
  <2>2. CASE f.head = Null
    BY <1>9, <2>1, <2>2 DEF CallOK
  <2>3. CASE f.head # Null
    <3>1. /\ f.item < f.head /\ f.head <= f.current
          /\ f.current \in Live /\ heap[f.current].next = Null
          /\ f.current \in Siblings(f.head) /\ f.item \in Live
          /\ f.current # Null
      BY <1>9, <2>3 DEF CallOK
    <3>2. f.head \in 1 .. born
      BY <1>3, <1>9, <3>1 DEF Frames, Ids, Null
    <3>3. f.current \in Siblings(f.head)'
      BY <1>6, <3>1, <3>2
    <3>4. f.current \in Live' /\ heap'[f.current].next = Null
      BY <1>2, <1>3, <3>1 DEF PointersKept
    <3> QED
      BY <2>1, <2>3, <3>1, <3>3, <3>4 DEF CallOK
  <2> QED
    BY <2>2, <2>3
<1>10. CallsOK'
  <2>1. \A j \in DOMAIN stack : stack[j] \in Frames
    BY <1>1
  <2>2. \A j \in DOMAIN stack : \A f : f = stack[j] => CallOK(f)'
    BY <1>1, <1>9, <2>1 DEF CallsOK
  <2>3. \A j \in DOMAIN stack' : CallOK(stack[j])'
    BY <2>2 DEF PointersKept
  <2> QED
    BY <1>1, <2>3 DEF CallsOK, PointersKept
<1>11. Linked'
  <2>1. ASSUME NEW n \in Live, heap'[n].next # Null
        PROVE  heap'[heap'[n].next].prev = n
    <3> DEFINE p == heap[n].next
    <3>1. heap'[n].next = p /\ p # Null
      BY <1>3, <2>1 DEF PointersKept
    <3>2. p \in Live
      BY <1>1, <1>3, <3>1, PointersLive
    <3>3. heap[p].prev = n
      BY <1>1, <3>1 DEF Linked
    <3> QED
      BY <1>3, <3>1, <3>2, <3>3 DEF PointersKept
  <2>2. ASSUME NEW n \in Live, NEW first \in Ids, NEW last \in Ids \cup {Null},
               heap'[n].child = first, heap'[first].prev = last
        PROVE  ListEnd(first, last)'
    <3>1. heap[n].child = first /\ heap[first].prev = last
      BY <1>3, <2>2 DEF PointersKept
    <3>2. ListEnd(first, last)
      BY <1>1, <3>1 DEF Linked
    <3>3. first # Null
      BY <1>1, BornWithin DEF Ids, Null
    <3>4. first \in Live
      BY <1>1, <1>3, <3>1, <3>3, PointersLive
    <3>5. first \in 1 .. born
      BY <1>3, <3>4
    <3>6. last \in Siblings(first)' /\ last \in 1 .. born
      BY <1>1, <1>6, <3>2, <3>5, SiblingsAre DEF ListEnd
    <3>7. heap'[last].next = Null
      BY <1>3, <3>2, <3>6 DEF PointersKept, ListEnd
    <3>8. \A j \in DOMAIN stack' : stack'[j].current # last
      BY <3>2 DEF ListEnd, PointersKept
    <3> QED
      BY <3>6, <3>7, <3>8 DEF ListEnd
  <2> QED
    BY <1>2, <2>1, <2>2 DEF Linked
<1> QED
  BY <1>2, <1>4, <1>5, <1>8, <1>10, <1>11
-----------------------------------------------------------------------------
(***************************************************************************)
(* The text.  Skipping blanks leads forward, and to the end only from      *)
(* there: what is read at an offset that it returns is not past the end.   *)
(***************************************************************************)
LEMMA SkipIs ==
    ASSUME text \in Seq(Characters), text # <<>>, NEW o \in 0 .. Length
    PROVE  /\ Skip(o) \in o .. Length
           /\ o < Length => Skip(o) \in o .. Length - 1
<1>1. Length \in Nat
  BY DEF Length
<1>2. CASE o >= Length
  BY <1>1, <1>2 DEF Skip
<1>3. CASE o < Length
  <2> DEFINE dark == {q \in o .. Length - 1 : Char(q) \notin Blanks}
  <2>1. CASE dark = {}
    BY <1>1, <1>3, <2>1 DEF Skip
  <2>2. CASE dark # {}
    <3>1. dark \in SUBSET Nat
      OBVIOUS
    <3>2. \E q \in dark : \A r \in dark : q <= r
      <4> HIDE DEF dark
      <4> QED
        BY <2>2, <3>1, Least
    <3>3. Skip(o) = CHOOSE q \in dark : \A r \in dark : q <= r
      BY <1>1, <1>3, <2>2 DEF Skip
    <3>4. Skip(o) \in dark
      <4> HIDE DEF dark
      <4> QED
        BY <3>2, <3>3
    <3> QED
      BY <1>1, <3>4
  <2> QED
    BY <2>1, <2>2
<1> QED
  BY <1>1, <1>2, <1>3

(* A character that is not the one outside is read inside.                 *)
LEMMA InsideText ==
    ASSUME text \in Seq(Characters), NEW o \in Nat, Char(o) # "outside"
    PROVE  o < Length /\ Char(o) \in Characters
<1>1. Length \in Nat
  BY DEF Length
<1>2. o < Length
  BY <1>1 DEF Char
<1> QED
  BY <1>1, <1>2 DEF Char, Length

LEMMA TypeKept ==
    ASSUME TypeOK, HeapOK', text' = text, depth' = depth, stack' = stack,
           require_null_terminated' = require_null_terminated,
           item' = item, category' = category,
           offset' \in 0 .. Length, strings' \in Nat,
           refused' \in BOOLEAN, at' \in Places,
           at \in {"fail", "false", "rejected", "deleted"} =>
               at' \in {"fail", "false", "rejected", "deleted"}
    PROVE  TypeOK'
<1>1. Length' = Length /\ Ids' = Ids
  BY DEF Length, Ids
<1>2. /\ text' \in Seq(Characters) /\ text' # <<>>
      /\ heap' \in [Ids' -> Items'] /\ born' \in 0 .. Length' + 1
  BY DEF HeapOK
<1>3. require_null_terminated' \in BOOLEAN
  BY DEF TypeOK
<1>4. /\ offset' \in 0 .. Length' /\ depth' \in 0 .. NestingLimit
      /\ Len(stack') <= depth'
      /\ at' \notin {"fail", "false", "rejected", "deleted"} =>
             depth' = Len(stack')
  BY <1>1 DEF TypeOK
<1>5. /\ stack' \in Seq(Frames') /\ item' \in Ids' \cup {Null}
      /\ category' \in {"none", "commit", "info"}
  BY <1>1 DEF TypeOK, Frames
<1> QED
  BY <1>2, <1>3, <1>4, <1>5 DEF TypeOK, Items, Frames

(* The steps of parse_value that fill the item at hand.                    *)
LEMMA FillKeeps ==
    ASSUME JsonInv, text' = text, born' = born, stack' = stack,
           item \in Live, NEW r \in Items, r.type # "free",
           r.next = heap[item].next, r.prev = heap[item].prev,
           r.child = heap[item].child, heap' = [heap EXCEPT ![item] = r]
    PROVE  HeapOK' /\ PointersKept
<1>1. HeapOK /\ item \in Ids /\ heap[item].type # "free"
  BY TypesAre DEF JsonInv, Live
<1>2. Length' = Length /\ Ids' = Ids
  BY DEF Length, Ids
<1>3. HeapOK'
  BY <1>1, <1>2 DEF HeapOK, Items
<1> QED
  BY <1>1, <1>3 DEF PointersKept, HeapOK

LEMMA SameKeeps ==
    ASSUME JsonInv, text' = text, born' = born, stack' = stack, heap' = heap
    PROVE  HeapOK' /\ PointersKept
<1>1. HeapOK
  BY TypesAre DEF JsonInv
<1> QED
  BY <1>1 DEF PointersKept, HeapOK, Items, Ids, Length

(***************************************************************************)
(* The strings that are held.                                              *)
(***************************************************************************)
Named(S) == {n \in S : heap[n].string # Absent}
Valued(S) == {n \in S : heap[n].valuestring # Absent}

LEMMA HeldIs == \A S : Held(S) = Cardinality(Named(S)) + Cardinality(Valued(S))
BY DEF Held, Named, Valued

LEMMA HeldPrimed ==
    (\A S : Held(S) = Cardinality(Named(S)) + Cardinality(Valued(S)))'
BY HeldIs, PTL

LEMMA LiveFinite ==
    ASSUME HeapOK
    PROVE  /\ IsFiniteSet(Live)
           /\ \A S \in SUBSET Live :
                  IsFiniteSet(S) /\ Cardinality(S) \in Nat
<1>1. Length + 1 \in Nat
  BY BornWithin
<1>2. IsFiniteSet(Ids)
  BY <1>1, FS_Interval DEF Ids
<1>3. Live \subseteq Ids
  BY DEF Live
<1> HIDE DEF Live, Ids
<1>4. \A S \in SUBSET Live : IsFiniteSet(S)
  BY <1>2, <1>3, FS_Subset
<1> QED
  BY <1>4, FS_CardinalityType

LEMMA HeldSame ==
    ASSUME StringsHeld, Live' = Live, strings' = strings,
           \A n \in Live : /\ heap'[n].string = heap[n].string
                           /\ heap'[n].valuestring = heap[n].valuestring
    PROVE  StringsHeld'
<1>1. Named(Live)' = Named(Live) /\ Valued(Live)' = Valued(Live)
  <2>1. /\ \A n : n \in Named(Live)' <=> n \in Named(Live)
        /\ \A n : n \in Valued(Live)' <=> n \in Valued(Live)
    BY DEF Named, Valued
  <2> DEFINE A == Named(Live)
             B == Valued(Live)
             C == Named(Live)'
             D == Valued(Live)'
  <2>2. (\A n : n \in C <=> n \in A) /\ (\A n : n \in D <=> n \in B)
    BY <2>1
  <2> HIDE DEF A, B, C, D
  <2>3. C = A /\ D = B
    BY <2>2
  <2> QED
    BY <2>3 DEF A, B, C, D
<1>2. Held(Live) = Cardinality(Named(Live)) + Cardinality(Valued(Live))
  BY HeldIs
<1>3. Held(Live)' = Cardinality(Named(Live)') + Cardinality(Valued(Live)')
  BY HeldPrimed
<1> QED
  BY <1>1, <1>2, <1>3 DEF StringsHeld

LEMMA HeldMore ==
    ASSUME HeapOK, StringsHeld, Live' = Live, strings' = strings + 1,
           NEW i \in Live,
           \A n \in Live \ {i} :
               /\ heap'[n].string = heap[n].string
               /\ heap'[n].valuestring = heap[n].valuestring,
           \/ /\ heap[i].string = Absent /\ heap'[i].string # Absent
              /\ heap'[i].valuestring = heap[i].valuestring
           \/ /\ heap[i].valuestring = Absent
              /\ heap'[i].valuestring # Absent
              /\ heap'[i].string = heap[i].string
    PROVE  StringsHeld'
<1> DEFINE A == Named(Live)
           B == Valued(Live)
<1>1. A \subseteq Live /\ B \subseteq Live
  BY DEF Named, Valued
<1>2. \/ Named(Live)' = A \cup {i} /\ i \notin A /\ Valued(Live)' = B
      \/ Named(Live)' = A /\ Valued(Live)' = B \cup {i} /\ i \notin B
  BY DEF Named, Valued
<1>3. strings = Cardinality(A) + Cardinality(B)
  BY HeldIs DEF StringsHeld
<1>4. Held(Live)' = Cardinality(Named(Live)') + Cardinality(Valued(Live)')
  BY HeldPrimed
<1> HIDE DEF A, B
<1>5. /\ IsFiniteSet(A) /\ Cardinality(A) \in Nat
      /\ IsFiniteSet(B) /\ Cardinality(B) \in Nat
  BY <1>1, LiveFinite
<1>6. /\ i \notin A => Cardinality(A \cup {i}) = Cardinality(A) + 1
      /\ i \notin B => Cardinality(B \cup {i}) = Cardinality(B) + 1
  BY <1>5, FS_AddElement
<1>7. Held(Live)' = strings + 1
  <2>1. CASE Named(Live)' = A \cup {i} /\ i \notin A /\ Valued(Live)' = B
    <3>1. Cardinality(Named(Live)') = Cardinality(A) + 1
      BY <1>6, <2>1
    <3>2. Cardinality(Valued(Live)') = Cardinality(B)
      BY <2>1
    <3> QED
      BY <1>3, <1>4, <1>5, <3>1, <3>2
  <2>2. CASE Named(Live)' = A /\ Valued(Live)' = B \cup {i} /\ i \notin B
    <3>1. Cardinality(Valued(Live)') = Cardinality(B) + 1
      BY <1>6, <2>2
    <3>2. Cardinality(Named(Live)') = Cardinality(A)
      BY <2>2
    <3> QED
      BY <1>3, <1>4, <1>5, <3>1, <3>2
  <2> QED
    BY <1>2, <2>1, <2>2
<1> QED
  BY <1>7 DEF StringsHeld
-----------------------------------------------------------------------------
(***************************************************************************)
(* The steps that leave the pointers alone.                                *)
(***************************************************************************)
LEMMA TopIs ==
    ASSUME NEW S, stack \in Seq(S), stack # <<>>
    PROVE  /\ Len(stack) \in Nat /\ Len(stack) >= 1
           /\ Len(stack) \in DOMAIN stack /\ Top \in S
           /\ DOMAIN stack = 1 .. Len(stack)
BY DEF Top

(* The call that the item at hand was made for has begun its list.         *)
LEMMA HeadIsThere ==
    ASSUME JsonInv, at \in {"value", "name"}, stack # <<>>
    PROVE  Top.head # Null /\ Top.current = item
<1>1. stack \in Seq(Frames)
  BY TypesAre DEF JsonInv
<1>2. CallOK(Top) /\ Top \in Frames
  BY <1>1, TopIs DEF JsonInv, CallsOK, Top
<1>3. Top.current = item /\ item \in Live
  BY DEF JsonInv, ItemOK
<1>4. item # Null
  BY <1>3 DEF Live, Ids, Null
<1> QED
  BY <1>2, <1>3, <1>4 DEF CallOK

LEMMA StillWithin ==
    ASSUME NEW b \in Int, NEW o \in Int, NEW p \in Int,
           b <= o + 1, o <= p
    PROVE  b <= p + 1
OBVIOUS

LEMMA CalmStep ==
    ASSUME JsonInv, HeapOK', PointersKept,
           depth' = depth, item' = item, category' = category,
           require_null_terminated' = require_null_terminated,
           refused' \in BOOLEAN,
           offset' \in 0 .. Length, strings' \in Nat, at' \in Places,
           at \in {"fail", "false", "rejected", "deleted"} =>
               at' \in {"fail", "false", "rejected", "deleted"},
           StringsHeld', ItemOK', Progress'
    PROVE  JsonInv'
<1>1. /\ FreeIsBlank' /\ Upward' /\ OneOwner' /\ CallsOK' /\ Linked'
  BY ShapeKept
<1>2. TypeOK'
  BY TypeKept DEF PointersKept, JsonInv
<1> QED
  BY <1>1, <1>2 DEF JsonInv

LEMMA FilledStep ==
    ASSUME JsonInv, at = "value", HeapOK', PointersKept,
           depth' = depth, item' = item, category' = category,
           require_null_terminated' = require_null_terminated,
           refused' \in BOOLEAN,
           offset' \in offset .. Length, strings' \in Nat,
           at' \in {"true", "false"}, StringsHeld'
    PROVE  JsonInv'
<1>1. /\ offset \in Nat /\ Length \in Nat /\ Progress
      /\ born \in Nat /\ born <= offset + 1 /\ born >= 1
  BY DEF JsonInv, TypeOK, Length, Progress
<1>2. offset' \in 0 .. Length /\ offset' \in Int /\ offset <= offset'
  BY <1>1
<1>3. born' <= offset' + 1
  <2>1. born \in Int /\ offset \in Int /\ born <= offset + 1
    BY <1>1
  <2>2. born <= offset' + 1
    BY <1>2, <2>1, StillWithin, Zenon
  <2> QED
    BY <2>2 DEF PointersKept
<1>4. at' = "true" /\ stack' # <<>> => Top'.head # Null
  BY HeadIsThere DEF PointersKept, Top
<1>5. Progress'
  BY <1>1, <1>3, <1>4 DEF Progress, PointersKept
<1>6. ItemOK' /\ at' \in Places
  BY DEF ItemOK, Places
<1> QED
  BY <1>2, <1>5, <1>6, CalmStep

LEMMA LiteralStep == ASSUME JsonInv, ParseLiteral PROVE JsonInv'
<1> DEFINE r == [heap[item] EXCEPT !.type = "NULL"]
<1>1. /\ HeapOK /\ text \in Seq(Characters) /\ offset \in Nat
      /\ StringsHeld /\ strings \in Nat /\ refused \in BOOLEAN
      /\ Length \in Nat
  BY TypesAre DEF JsonInv, TypeOK, HeapOK, Length
<1>2. item \in Live /\ item \in Ids
  BY DEF JsonInv, ItemOK, ParseLiteral, Live
<1>3. r \in Items
  BY <1>1, <1>2 DEF HeapOK, Items
<1>4. HeapOK' /\ PointersKept
  <2>1. r.type # "free"
    BY <1>1, <1>2 DEF HeapOK, Items
  <2>2. /\ r.next = heap[item].next /\ r.prev = heap[item].prev
        /\ r.child = heap[item].child
    BY <1>1, <1>2 DEF HeapOK, Items
  <2>3. heap' = [heap EXCEPT ![item] = r]
    BY <1>2 DEF ParseLiteral
  <2>4. text' = text /\ born' = born /\ stack' = stack
    BY DEF ParseLiteral, buffer_vars
  <2> HIDE DEF r
  <2> QED
    BY <1>2, <1>3, <2>1, <2>2, <2>3, <2>4, FillKeeps
<1>5. offset < Length
  BY <1>1, InsideText DEF ParseLiteral
<1>6. StringsHeld' /\ strings' = strings
  <2>1. Live' = Live
    BY <1>4, ShapeKept
  <2>2. \A n \in Live : /\ heap'[n].string = heap[n].string
                        /\ heap'[n].valuestring = heap[n].valuestring
    BY <1>1, <1>2 DEF ParseLiteral, HeapOK, Items, Live
  <2> QED
    BY <1>1, <2>1, <2>2, HeldSame DEF ParseLiteral
<1>7. offset' \in offset .. Length
  BY <1>1, <1>5 DEF ParseLiteral
<1> QED
  BY <1>1, <1>4, <1>6, <1>7, FilledStep
     DEF ParseLiteral, buffer_vars

LEMMA NumberStep == ASSUME JsonInv, ParseNumber PROVE JsonInv'
<1> DEFINE r == [heap[item] EXCEPT !.type = "Number"]
<1>1. /\ HeapOK /\ text \in Seq(Characters) /\ offset \in Nat
      /\ StringsHeld /\ strings \in Nat /\ refused \in BOOLEAN
      /\ Length \in Nat /\ offset \in 0 .. Length
  BY TypesAre DEF JsonInv, TypeOK, HeapOK, Length
<1>2. item \in Live /\ item \in Ids
  BY DEF JsonInv, ItemOK, ParseNumber, Live
<1>3. /\ text' = text /\ born' = born /\ stack' = stack /\ strings' = strings
      /\ depth' = depth /\ item' = item /\ category' = category
      /\ require_null_terminated' = require_null_terminated
      /\ at = "value"
  BY DEF ParseNumber, buffer_vars
<1>4. offset < Length
  BY <1>1, InsideText DEF ParseNumber
<1>5. CASE Refuse("false") /\ UNCHANGED <<heap, offset>>
  <2>1. HeapOK' /\ PointersKept
    BY <1>3, <1>5, SameKeeps
  <2>2. StringsHeld'
    BY <1>1, <1>3, <1>5, <2>1, HeldSame, ShapeKept
  <2>3. refused' \in BOOLEAN
    BY <1>5, Zenon DEF Refuse
  <2> QED
    BY <1>1, <1>3, <1>5, <2>1, <2>2, <2>3, FilledStep DEF Refuse
<1>6. CASE /\ heap' = [heap EXCEPT ![item].type = "Number"]
           /\ offset' = offset + 1 /\ at' = "true" /\ UNCHANGED refused
  <2>1. r \in Items
    BY <1>1, <1>2 DEF HeapOK, Items
  <2>2. /\ r.next = heap[item].next /\ r.prev = heap[item].prev
        /\ r.child = heap[item].child /\ r.type # "free"
    BY <1>1, <1>2 DEF HeapOK, Items
  <2>3. heap' = [heap EXCEPT ![item] = r]
    BY <1>6
  <2>4. \A n \in Live : /\ heap'[n].string = heap[n].string
                        /\ heap'[n].valuestring = heap[n].valuestring
    BY <1>1, <1>2, <1>6 DEF HeapOK, Items, Live
  <2> HIDE DEF r
  <2>5. HeapOK' /\ PointersKept
    BY <1>2, <1>3, <2>1, <2>2, <2>3, FillKeeps
  <2>6. StringsHeld'
    BY <1>1, <1>3, <2>4, <2>5, HeldSame, ShapeKept
  <2> QED
    BY <1>1, <1>3, <1>4, <1>6, <2>5, <2>6, FilledStep
<1> QED
  BY <1>5, <1>6 DEF ParseNumber

LEMMA StringStep == ASSUME JsonInv, ParseString PROVE JsonInv'
<1> DEFINE c == Char(offset)
           r == [heap[item] EXCEPT !.type = "String", !.valuestring = c]
<1>1. /\ HeapOK /\ text \in Seq(Characters) /\ offset \in Nat
      /\ StringsHeld /\ strings \in Nat /\ refused \in BOOLEAN
      /\ Length \in Nat
  BY TypesAre DEF JsonInv, TypeOK, HeapOK, Length
<1>2. item \in Live /\ item \in Ids /\ heap[item].valuestring = Absent
  BY DEF JsonInv, ItemOK, ParseString, Live
<1>3. /\ text' = text /\ born' = born /\ stack' = stack
      /\ depth' = depth /\ item' = item /\ category' = category
      /\ require_null_terminated' = require_null_terminated
      /\ at = "value" /\ offset' = offset + 1
      /\ c \in Strings
  BY DEF ParseString, buffer_vars
<1>4. offset < Length
  BY <1>1, <1>3, InsideText DEF Strings
<1>5. CASE Refuse("false") /\ UNCHANGED <<heap, strings>>
  <2>1. HeapOK' /\ PointersKept
    BY <1>3, <1>5, SameKeeps
  <2>2. StringsHeld'
    BY <1>1, <1>5, <2>1, HeldSame, ShapeKept
  <2>3. refused' \in BOOLEAN
    BY <1>5, Zenon DEF Refuse
  <2> QED
    BY <1>1, <1>3, <1>4, <1>5, <2>1, <2>2, <2>3, FilledStep DEF Refuse
<1>6. CASE /\ strings' = strings + 1
           /\ heap' = [heap EXCEPT ![item].type = "String",
                                   ![item].valuestring = c]
           /\ at' = "true" /\ UNCHANGED refused
  <2> HIDE DEF c
  <2>1. r \in Items
    BY <1>1, <1>2, <1>3 DEF HeapOK, Items
  <2>2. /\ r.next = heap[item].next /\ r.prev = heap[item].prev
        /\ r.child = heap[item].child /\ r.type # "free"
        /\ r.string = heap[item].string /\ r.valuestring = c
    BY <1>1, <1>2 DEF HeapOK, Items
  <2>3. heap' = [heap EXCEPT ![item] = r]
    BY <1>1, <1>2, <1>6 DEF HeapOK
  <2> HIDE DEF r
  <2>4. HeapOK' /\ PointersKept
    BY <1>2, <1>3, <2>1, <2>2, <2>3, FillKeeps
  <2>5. /\ \A n \in Live \ {item} :
               /\ heap'[n].string = heap[n].string
               /\ heap'[n].valuestring = heap[n].valuestring
        /\ heap'[item].valuestring # Absent
        /\ heap'[item].string = heap[item].string
    BY <1>1, <1>2, <1>3, <2>2, <2>3 DEF HeapOK, Live, Strings, Absent
  <2>6. StringsHeld'
    BY <1>1, <1>2, <1>6, <2>4, <2>5, HeldMore, ShapeKept
  <2> QED
    BY <1>1, <1>3, <1>4, <1>6, <2>4, <2>6, FilledStep
<1> QED
  BY <1>5, <1>6 DEF ParseString

LEMMA NoValueStep == ASSUME JsonInv, NoValue PROVE JsonInv'
<1>1. /\ text' = text /\ born' = born /\ stack' = stack /\ heap' = heap
      /\ depth' = depth /\ item' = item /\ category' = category
      /\ require_null_terminated' = require_null_terminated
      /\ refused' = refused /\ strings' = strings
      /\ offset' = offset /\ at = "value" /\ at' = "false"
  BY DEF NoValue, buffer_vars
<1>2. /\ offset \in 0 .. Length /\ Length \in Nat /\ refused \in BOOLEAN
      /\ strings \in Nat /\ StringsHeld
  BY DEF JsonInv, TypeOK, Length
<1>3. HeapOK' /\ PointersKept
  BY <1>1, SameKeeps
<1>4. StringsHeld'
  BY <1>1, <1>2, <1>3, HeldSame, ShapeKept
<1> QED
  BY <1>1, <1>2, <1>3, <1>4, FilledStep

LEMMA AfterElementStep == ASSUME JsonInv, AfterElement PROVE JsonInv'
<1>1. /\ text' = text /\ born' = born /\ stack' = stack /\ heap' = heap
      /\ depth' = depth /\ item' = item /\ category' = category
      /\ require_null_terminated' = require_null_terminated
      /\ refused' = refused /\ strings' = strings
      /\ at = "true" /\ stack # <<>> /\ offset' = Skip(offset)
      /\ at' \in {"element", "fail"}
      /\ at' = "element" => Char(offset') = ","
  BY DEF AfterElement, buffer_vars
<1>a. /\ TypeOK /\ Progress /\ StringsHeld
  BY DEF JsonInv
<1>b. born <= offset + 1 /\ born >= 1
  BY <1>1, <1>a DEF Progress
<1>c. Length \in Nat
  BY <1>a DEF TypeOK, Length
<1>2. /\ offset \in 0 .. Length /\ offset \in Nat /\ Length \in Nat
      /\ text \in Seq(Characters) /\ text # <<>>
      /\ refused \in BOOLEAN
      /\ strings \in Nat /\ StringsHeld
      /\ born \in Nat /\ born <= offset + 1 /\ born >= 1
  BY <1>a, <1>b, <1>c DEF TypeOK
<1>3. HeapOK' /\ PointersKept
  BY <1>1, SameKeeps
<1>4. StringsHeld'
  BY <1>1, <1>2, <1>3, HeldSame, ShapeKept
<1>5. offset' \in Nat /\ offset' \in 0 .. Length /\ offset <= offset'
  <2>1. Skip(offset) \in offset .. Length
    BY <1>2, SkipIs
  <2>2. Skip(offset) \in Nat /\ offset <= Skip(offset)
        /\ Skip(offset) \in 0 .. Length
    BY <1>2, <2>1
  <2> QED
    BY <1>1, <2>2
<1>6. at' = "element" => offset' < Length
  BY <1>1, <1>2, <1>5, InsideText
<1>7. born' <= offset' + 1
  <2>1. born \in Int /\ offset \in Int /\ offset' \in Int
    BY <1>2, <1>5
  <2>2. born <= offset' + 1
    BY <1>2, <1>5, <2>1, StillWithin, Zenon
  <2> QED
    BY <1>1, <2>2
<1>8. Progress'
  <2>1. Length' = Length
    BY <1>1 DEF Length
  <2> QED
    BY <1>1, <1>2, <1>6, <1>7, <2>1 DEF Progress
<1>9. ItemOK' /\ at' \in Places
  BY <1>1 DEF ItemOK, Places
<1> QED
  BY <1>1, <1>2, <1>3, <1>4, <1>5, <1>8, <1>9, CalmStep

LEMMA AcceptStep == ASSUME JsonInv, Accept PROVE JsonInv'
<1>1. /\ text' = text /\ born' = born /\ stack' = stack /\ heap' = heap
      /\ depth' = depth /\ item' = item /\ category' = category
      /\ require_null_terminated' = require_null_terminated
      /\ refused' = refused /\ strings' = strings
      /\ at = "true" /\ stack = <<>> /\ offset' \in {offset, Skip(offset)}
      /\ at' = "accepted"
  BY DEF Accept, buffer_vars
<1>2. /\ offset \in 0 .. Length /\ Length \in Nat
      /\ text \in Seq(Characters) /\ text # <<>>
      /\ refused \in BOOLEAN
      /\ strings \in Nat /\ StringsHeld /\ born >= 1
  BY <1>1 DEF JsonInv, TypeOK, Length, Progress
<1>3. HeapOK' /\ PointersKept
  BY <1>1, SameKeeps
<1>4. StringsHeld'
  BY <1>1, <1>2, <1>3, HeldSame, ShapeKept
<1>5. offset' \in 0 .. Length
  BY <1>1, <1>2, SkipIs
<1>6. Progress' /\ ItemOK' /\ at' \in Places
  BY <1>1, <1>2 DEF Progress, ItemOK, Places
<1> QED
  BY <1>1, <1>2, <1>3, <1>4, <1>5, <1>6, CalmStep

(* The name of a member.  Its offset is inside the text, and past it the   *)
(* parser has come far enough for the item that it has allocated.          *)
LEMMA NameWithin ==
    ASSUME JsonInv, at = "name", ~ NothingFollows
    PROVE  /\ offset \in Nat /\ Length \in Nat
           /\ Skip(offset + 1) \in offset + 1 .. Length - 1
           /\ Skip(offset + 1) + 1 \in 0 .. Length
           /\ Skip(Skip(offset + 1) + 1) \in Skip(offset + 1) + 1 .. Length
<1>1. /\ offset \in Nat /\ Length \in Nat /\ offset + 1 < Length
      /\ text \in Seq(Characters) /\ text # <<>>
  BY DEF JsonInv, TypeOK, Length, NothingFollows
<1> DEFINE name == Skip(offset + 1)
<1>2. name \in offset + 1 .. Length - 1
  BY <1>1, SkipIs
<1> HIDE DEF name
<1>3. name + 1 \in 0 .. Length
  BY <1>1, <1>2
<1>4. Skip(name + 1) \in name + 1 .. Length
  BY <1>1, <1>3, SkipIs
<1> QED
  BY <1>1, <1>2, <1>3, <1>4 DEF name

LEMMA NoNameStep == ASSUME JsonInv, NoName PROVE JsonInv'
<1>1. /\ text' = text /\ born' = born /\ stack' = stack /\ heap' = heap
      /\ depth' = depth /\ item' = item /\ category' = category
      /\ require_null_terminated' = require_null_terminated
      /\ refused' = refused /\ strings' = strings
      /\ at = "name" /\ at' = "fail"
  BY DEF NoName, buffer_vars
<1>2. /\ offset \in 0 .. Length /\ Length \in Nat
      /\ refused \in BOOLEAN
      /\ strings \in Nat /\ StringsHeld /\ born >= 1
  BY <1>1 DEF JsonInv, TypeOK, Length, Progress
<1>3. HeapOK' /\ PointersKept
  BY <1>1, SameKeeps
<1>4. StringsHeld'
  BY <1>1, <1>2, <1>3, HeldSame, ShapeKept
<1>5. offset' \in 0 .. Length
  <2>1. CASE NothingFollows /\ UNCHANGED offset
    BY <1>2, <2>1
  <2>2. CASE /\ ~ NothingFollows
             /\ offset' = Skip(offset + 1) + 1
    <3>1. Skip(offset + 1) + 1 \in 0 .. Length
      BY <1>1, <2>2, NameWithin
    <3> QED
      BY <2>2, <3>1
  <2> QED
    BY <2>1, <2>2 DEF NoName
<1>6. Progress' /\ ItemOK' /\ at' \in Places
  BY <1>1, <1>2 DEF Progress, ItemOK, Places
<1> QED
  BY <1>1, <1>2, <1>3, <1>4, <1>5, <1>6, CalmStep

LEMMA NameStep == ASSUME JsonInv, Name PROVE JsonInv'
<1> DEFINE name == Skip(offset + 1)
           colon == Skip(name + 1)
           c == Char(name)
           r == [heap[item] EXCEPT !.type = "String", !.string = c]
<1>1. /\ text' = text /\ born' = born /\ stack' = stack
      /\ depth' = depth /\ item' = item /\ category' = category
      /\ require_null_terminated' = require_null_terminated
      /\ at = "name" /\ ~ NothingFollows
      /\ c \in Strings
  BY DEF Name, buffer_vars
<1>2. /\ offset \in 0 .. Length /\ Length \in Nat /\ HeapOK
      /\ refused \in BOOLEAN
      /\ strings \in Nat /\ StringsHeld /\ text \in Seq(Characters)
      /\ text # <<>>
  BY TypesAre DEF JsonInv, TypeOK, Length
<1>a. born \in Nat /\ born >= 1 /\ born <= offset + 2 /\ stack # <<>>
  BY <1>1 DEF JsonInv, TypeOK, Progress
<1>3. /\ item \in Live /\ item \in Ids /\ heap[item].string = Absent
      /\ item = born /\ heap[item].child = Null
      /\ heap[item].valuestring = Absent /\ Top.current = item
  BY <1>1, <1>a DEF JsonInv, ItemOK, Live
<1>4. /\ offset \in Nat /\ name \in offset + 1 .. Length - 1
      /\ name + 1 \in 0 .. Length /\ colon \in name + 1 .. Length
  BY <1>1, NameWithin
<1>5. at' \in {"fail", "value"} /\ refused' \in BOOLEAN
  <2>1. refused' = TRUE \/ refused' = refused
    BY DEF Name, Refuse
  <2>2. refused' \in BOOLEAN
    BY <1>1, <1>2, <2>1, Zenon
  <2> QED
    BY <2>2 DEF Name, Refuse
<1>6. CASE Refuse("fail") /\ offset' = name + 1 /\ UNCHANGED <<heap, strings>>
  <2>1. HeapOK' /\ PointersKept
    BY <1>1, <1>6, SameKeeps
  <2>2. StringsHeld'
    BY <1>2, <1>6, <2>1, HeldSame, ShapeKept
  <2>3. at' = "fail" /\ offset' \in 0 .. Length /\ strings' \in Nat
    BY <1>2, <1>4, <1>6 DEF Refuse
  <2>4. Progress' /\ ItemOK' /\ at' \in Places
    BY <1>1, <1>a, <2>3 DEF Progress, ItemOK, Places
  <2> QED
    BY <1>1, <1>5, <2>1, <2>2, <2>3, <2>4, CalmStep
<1>7. CASE /\ strings' = strings + 1
           /\ heap' = [heap EXCEPT ![item].type = "String",
                                   ![item].string = c]
           /\ \/ at' = "fail" /\ offset' = colon
              \/ /\ Char(colon) = ":" /\ at' = "value"
                 /\ offset' = Skip(colon + 1)
  <2> HIDE DEF c
  <2>1. r \in Items
    <3>1. heap[item] \in Items
      BY <1>2, <1>3 DEF HeapOK
    <3> QED
      BY <1>1, <3>1 DEF Items
  <2>2. /\ r.next = heap[item].next /\ r.prev = heap[item].prev
        /\ r.child = heap[item].child /\ r.type # "free"
        /\ r.string = c /\ r.valuestring = heap[item].valuestring
    BY <1>2, <1>3 DEF HeapOK, Items
  <2>3. heap' = [heap EXCEPT ![item] = r]
    BY <1>2, <1>3, <1>7 DEF HeapOK
  <2>a. heap'[item] = r
    BY <1>2, <1>3, <2>3 DEF HeapOK
  <2> HIDE DEF r
  <2>4. HeapOK' /\ PointersKept
    BY <1>1, <1>3, <2>1, <2>2, <2>3, FillKeeps
  <2>5. /\ \A n \in Live \ {item} :
               /\ heap'[n].string = heap[n].string
               /\ heap'[n].valuestring = heap[n].valuestring
        /\ heap'[item].string # Absent
        /\ heap'[item].valuestring = heap[item].valuestring
    BY <1>1, <1>2, <1>3, <2>2, <2>3 DEF HeapOK, Live, Strings, Absent
  <2>6. Live' = Live /\ Length' = Length
    BY <2>4, ShapeKept
  <2>7. StringsHeld' /\ strings' \in Nat
    <3>1. strings' = strings + 1
      BY <1>7
    <3>2. StringsHeld'
      BY <1>2, <1>3, <2>5, <2>6, <3>1, HeldMore
    <3> QED
      BY <1>2, <3>1, <3>2
  <2> HIDE DEF name, colon
  <2>8. /\ offset' \in 0 .. Length
        /\ at' = "value" => offset' \in Int /\ offset + 1 <= offset'
    <3>1. CASE at' = "fail" /\ offset' = colon
      BY <1>2, <1>4, <3>1
    <3>2. CASE /\ Char(colon) = ":" /\ at' = "value"
               /\ offset' = Skip(colon + 1)
      <4>1. colon \in Nat /\ colon < Length
        BY <1>2, <1>4, <3>2, InsideText
      <4>2. colon + 1 \in 0 .. Length
        BY <1>2, <4>1
      <4>3. Skip(colon + 1) \in colon + 1 .. Length
        BY <1>2, <4>2, SkipIs
      <4>4. /\ Skip(colon + 1) \in 0 .. Length /\ Skip(colon + 1) \in Int
            /\ offset + 1 <= Skip(colon + 1)
        BY <1>2, <1>4, <4>1, <4>3
      <4> QED
        BY <3>2, <4>4
    <3> QED
      BY <1>7, <3>1, <3>2
  <2>9. at' = "value" => born' <= offset' + 1
    <3> SUFFICES ASSUME at' = "value" PROVE born <= offset' + 1
      BY <1>1
    <3>1. /\ born \in Int /\ offset + 1 \in Int
          /\ born <= (offset + 1) + 1
      BY <1>4, <1>a
    <3> QED
      BY <2>8, <3>1, StillWithin, Zenon
  <2>10. Progress'
    BY <1>1, <1>5, <1>a, <2>9 DEF Progress
  <2>11. ItemOK'
    BY <1>1, <1>3, <1>5, <2>2, <2>6, <2>a DEF ItemOK, Top
  <2>12. at' \in Places
    BY <1>5 DEF Places
  <2> QED
    BY <1>1, <1>5, <2>4, <2>7, <2>8, <2>10, <2>11, <2>12, CalmStep
<1> QED
  BY <1>6, <1>7 DEF Name
-----------------------------------------------------------------------------
(***************************************************************************)
(* The steps that allocate an item.                                        *)
(***************************************************************************)
LEMMA NothingHeld ==
    ASSUME NEW S, \A n \in S : /\ heap[n].string = Absent
                               /\ heap[n].valuestring = Absent
    PROVE  Held(S) = 0
<1>1. Named(S) = {} /\ Valued(S) = {}
  BY DEF Named, Valued
<1>2. Cardinality({}) = 0
  BY FS_EmptySet
<1> QED
  BY <1>1, <1>2, HeldIs

NothingHeldFact ==
    \A S : (\A n \in S : /\ heap[n].string = Absent
                         /\ heap[n].valuestring = Absent) => Held(S) = 0

LEMMA NothingHeldPrimed == NothingHeldFact'
<1>1. NothingHeldFact
  BY NothingHeld DEF NothingHeldFact
<1> QED
  BY <1>1, PTL

LEMMA StartStep == ASSUME JsonInv, Start PROVE JsonInv'
<1>1. /\ text' = text /\ stack' = stack
      /\ depth' = depth /\ category' = category
      /\ require_null_terminated' = require_null_terminated
      /\ strings' = strings
      /\ at = "start"
  BY DEF Start, buffer_vars
<1>2. /\ TypeOK /\ FreeIsBlank /\ StringsHeld /\ Progress
  BY DEF JsonInv
<1>3. /\ HeapOK /\ Length \in Nat \ {0} /\ text \in Seq(Characters)
      /\ text # <<>> /\ 1 \in Ids /\ Ids \subseteq Nat
  BY <1>2, TypesAre, BornWithin DEF HeapOK, Ids
<1>4. born = 0 /\ stack = <<>> /\ Live = {}
  BY <1>1, <1>2 DEF Progress
<1>5. Length' = Length /\ Ids' = Ids
  BY <1>1 DEF Length, Ids
<1>6. CASE Refuse("rejected") /\ UNCHANGED <<offset, heap, born, item>>
  <2>1. HeapOK' /\ PointersKept
    BY <1>1, <1>6, SameKeeps
  <2>2. Live' = Live
    BY <2>1, ShapeKept
  <2>3. StringsHeld'
    BY <1>1, <1>2, <1>6, <2>2, HeldSame
  <2>4. at' = "rejected" /\ refused' = TRUE
    BY <1>6 DEF Refuse
  <2>5. refused' \in BOOLEAN
    BY <1>1, <1>2, <2>4, Zenon DEF TypeOK
  <2>6. Progress' /\ ItemOK' /\ at' \in Places
    BY <1>1, <1>4, <2>2, <2>4 DEF Progress, ItemOK, Places
  <2>7. offset' \in 0 .. Length /\ strings' \in Nat
    BY <1>1, <1>2, <1>6 DEF TypeOK
  <2> QED
    BY <1>1, <1>6, <2>1, <2>3, <2>4, <2>5, <2>6, <2>7, CalmStep
<1>7. CASE /\ born' = Root /\ heap' = [heap EXCEPT ![Root] = Blank]
           /\ item' = Root /\ offset' = Skip(0) /\ at' = "value"
           /\ UNCHANGED refused
  <2>1. \A n \in Ids : heap[n] = Free
    BY <1>2, <1>4 DEF FreeIsBlank, Live
  <2>2. /\ Blank.next = Null /\ Blank.child = Null /\ Blank.prev = Null
        /\ Blank.string = Absent /\ Blank.valuestring = Absent
        /\ Blank.type = "Invalid" /\ Free.type = "free" /\ Free.next = Null
        /\ Free.child = Null /\ Blank \in Items
    BY DEF Blank, Free, Items
  <2>3. /\ heap' \in [Ids -> Items]
        /\ heap'[1] = Blank
        /\ \A n \in Ids : n # 1 => heap'[n] = Free
    BY <1>3, <1>7, <2>1, <2>2 DEF HeapOK, Root
  <2>4. HeapOK'
    BY <1>1, <1>3, <1>5, <1>7, <2>3 DEF HeapOK, Items, Root
  <2>5. \A n : n \in Live' <=> n = 1
    BY <1>3, <1>5, <2>2, <2>3 DEF Live
  <2>6. FreeIsBlank'
    BY <1>3, <1>5, <1>7, <2>2, <2>3, <2>5 DEF FreeIsBlank, Free, Root
  <2>7. \A n \in Ids : heap'[n].next = Null /\ heap'[n].child = Null
    BY <2>2, <2>3
  <2>8. Upward'
    BY <1>5, <2>7 DEF Upward
  <2>9. \A n \in Ids : \A o : o \in Owners(n)' <=>
                                  n = 1 /\ o = <<"caller", 0>>
    <3>1. \A n \in Ids : 1 .. n - 1 \subseteq Ids /\ n # Null
      BY <1>3 DEF Ids, Null
    <3>2. \A n \in Ids : \A m \in 1 .. n - 1 : /\ heap'[m].next # n
                                             /\ heap'[m].child # n
      BY <2>7, <3>1
    <3>3. DOMAIN stack' = {}
      BY <1>1, <1>4
    <3> QED
      BY <3>2, <3>3, OwnersPrimed DEF OwnersFacts, Root
  <2>10. OneOwner'
    <3>1. ASSUME NEW n \in Live' PROVE \E o : Owners(n)' = {o}
      <4>1. \A o : o \in Owners(n)' <=> o = <<"caller", 0>>
        BY <1>3, <2>5, <2>9
      <4> DEFINE W == Owners(n)'
      <4>2. \A o : o \in W <=> o = <<"caller", 0>>
        BY <4>1
      <4> HIDE DEF W
      <4>3. W = {<<"caller", 0>>}
        BY <4>2, Zenon
      <4> QED
        BY <4>3 DEF W
    <3>2. ASSUME NEW n \in Ids \ (Live' \cup {Root})
          PROVE  Owners(n)' = {}
      BY <2>9 DEF Root
    <3> QED
      BY <1>5, <3>1, <3>2 DEF OneOwner
  <2>11. CallsOK'
    BY <1>1, <1>4 DEF CallsOK
  <2>12. ItemOK'
    BY <1>1, <1>4, <1>7, <2>2, <2>3, <2>5 DEF ItemOK, Root
  <2>13. Skip(0) \in 0 .. Length /\ Skip(0) \in Nat
    BY <1>3, SkipIs
  <2>14. Progress'
    <3>1. born' <= offset' + 1 /\ born' >= 1 /\ stack' = <<>>
      BY <1>1, <1>4, <1>7, <2>13 DEF Root
    <3> QED
      BY <1>7, <3>1 DEF Progress
  <2>15. Linked'
    <3>1. \A n \in Live' : n \in Ids
      BY <1>3, <2>5
    <3>2. Null \notin Ids
      BY DEF Ids, Null
    <3> QED
      BY <1>5, <2>7, <3>1, <3>2 DEF Linked
  <2>16. StringsHeld'
    <3>1. strings' = 0
      BY <1>1, <1>2, <1>4, NothingHeld DEF StringsHeld
    <3>2. \A n \in Live' : /\ heap'[n].string = Absent
                           /\ heap'[n].valuestring = Absent
      BY <2>2, <2>3, <2>5
    <3>3. Held(Live)' = 0
      BY <3>2, NothingHeldPrimed DEF NothingHeldFact
    <3> QED
      BY <3>1, <3>3 DEF StringsHeld
  <2>17. TypeOK'
    <3>1. /\ offset' \in 0 .. Length' /\ depth' \in 0 .. NestingLimit
          /\ Len(stack') <= depth' /\ depth' = Len(stack')
      BY <1>1, <1>2, <1>5, <1>7, <2>13 DEF TypeOK
    <3>2. /\ item' \in Ids' \cup {Null} /\ at' \in Places
          /\ category' \in {"none", "commit", "info"} /\ strings' \in Nat
      BY <1>1, <1>2, <1>3, <1>5, <1>7 DEF TypeOK, Root, Places
    <3>5. stack' \in Seq(Frames')
      BY <1>1, <1>4
    <3>3. require_null_terminated' \in BOOLEAN
      BY <1>1, <1>2 DEF TypeOK
    <3>4. refused' \in BOOLEAN
      BY <1>1, <1>2, <1>7 DEF TypeOK
    <3> QED
      BY <2>4, <3>1, <3>2, <3>3, <3>4, <3>5
         DEF TypeOK, HeapOK, Items, Frames
  <2> QED
    BY <2>6, <2>8, <2>10, <2>11, <2>12, <2>14, <2>15, <2>16, <2>17
       DEF JsonInv
<1> QED
  BY <1>6, <1>7 DEF Start

LEMMA BracketsAre ==
    ASSUME NEW type \in Containers
    PROVE  Opening[type] \in {"[", "{"} /\ Closing[type] \in {"]", "}"}
<1>1. CASE type = "Array"
  BY <1>1 DEF Opening, Closing
<1>2. CASE type = "Object"
  BY <1>2 DEF Opening, Closing
<1> QED
  BY <1>1, <1>2 DEF Containers

(* An item that parse_value takes for a container lies before its end.     *)
LEMMA OpeningWithin ==
    ASSUME JsonInv, NEW type \in Containers, ParseContainer(type)
    PROVE  /\ offset \in Nat /\ Length \in Nat /\ offset < Length
           /\ Skip(offset + 1) \in offset + 1 .. Length
           /\ Skip(offset + 1) - 1 \in offset .. Length - 1
           /\ Char(Skip(offset + 1)) = Closing[type] =>
                  Skip(offset + 1) + 1 \in offset .. Length
<1>1. /\ offset \in Nat /\ Length \in Nat
      /\ text \in Seq(Characters) /\ text # <<>>
  BY DEF JsonInv, TypeOK, Length
<1>2. Char(offset) # "outside"
  BY BracketsAre DEF ParseContainer
<1>3. offset < Length
  BY <1>1, <1>2, InsideText
<1>4. offset + 1 \in 0 .. Length
  BY <1>1, <1>3
<1> DEFINE first == Skip(offset + 1)
<1>5. first \in offset + 1 .. Length
  BY <1>1, <1>4, SkipIs
<1>6. ASSUME Char(first) = Closing[type]
      PROVE  first < Length
  <2> HIDE DEF first
  <2>1. Char(first) # "outside"
    BY <1>6, BracketsAre
  <2>2. first \in Nat
    BY <1>1, <1>5
  <2> QED
    BY <1>1, <2>1, <2>2, InsideText
<1> HIDE DEF first
<1>7. first - 1 \in offset .. Length - 1
  BY <1>1, <1>5
<1>8. Char(first) = Closing[type] => first + 1 \in offset .. Length
  BY <1>1, <1>5, <1>6
<1> QED
  BY <1>1, <1>3, <1>5, <1>7, <1>8 DEF first

(* An array or object of no elements.                                      *)
LEMMA EmptyContainerStep ==
    ASSUME JsonInv, NEW type \in Containers, ParseContainer(type),
           \/ AtLimit /\ at' = "false" /\ UNCHANGED <<offset, heap>>
           \/ /\ Char(Skip(offset + 1)) = Closing[type]
              /\ heap' = [heap EXCEPT ![item].type = type,
                                      ![item].child = Null]
              /\ offset' = Skip(offset + 1) + 1
              /\ at' = "true",
           UNCHANGED <<depth, stack>>
    PROVE  JsonInv'
<1>1. /\ text' = text /\ born' = born /\ stack' = stack
      /\ depth' = depth /\ item' = item /\ category' = category
      /\ require_null_terminated' = require_null_terminated
      /\ refused' = refused /\ strings' = strings
      /\ at = "value" /\ at' \in {"true", "false"}
  BY DEF ParseContainer, buffer_vars
<1>2. /\ offset \in 0 .. Length /\ offset \in Nat /\ Length \in Nat
      /\ HeapOK /\ refused \in BOOLEAN /\ strings \in Nat /\ StringsHeld
  BY TypesAre DEF JsonInv, TypeOK, Length
<1>3. item \in Live /\ item \in Ids /\ heap[item].child = Null
  BY <1>1 DEF JsonInv, ItemOK, Live
<1>4. offset' \in offset .. Length
  BY <1>2, OpeningWithin
<1>5. CASE heap' = heap
  <2>1. HeapOK' /\ PointersKept
    BY <1>1, <1>5, SameKeeps
  <2>2. StringsHeld'
    BY <1>1, <1>2, <1>5, <2>1, HeldSame, ShapeKept
  <2> QED
    BY <1>1, <1>2, <1>4, <2>1, <2>2, FilledStep
<1>6. CASE heap' = [heap EXCEPT ![item].type = type, ![item].child = Null]
  <2> DEFINE r == [heap[item] EXCEPT !.type = type, !.child = Null]
  <2>a. heap[item] \in Items
    BY <1>2, <1>3 DEF HeapOK
  <2>1. r \in Items
    BY <2>a DEF Items
  <2>2. /\ r.next = heap[item].next /\ r.prev = heap[item].prev
        /\ r.child = heap[item].child /\ r.type # "free"
        /\ r.string = heap[item].string
        /\ r.valuestring = heap[item].valuestring
    BY <1>3, <2>a DEF Items, Containers
  <2>3. heap' = [heap EXCEPT ![item] = r]
    BY <1>2, <1>3, <1>6 DEF HeapOK
  <2> HIDE DEF r
  <2>4. \A n \in Live : /\ heap'[n].string = heap[n].string
                        /\ heap'[n].valuestring = heap[n].valuestring
    BY <1>2, <1>3, <2>2, <2>3 DEF HeapOK, Live
  <2>5. HeapOK' /\ PointersKept
    BY <1>1, <1>3, <2>1, <2>2, <2>3, FillKeeps
  <2>6. StringsHeld'
    BY <1>1, <1>2, <2>4, <2>5, HeldSame, ShapeKept
  <2> QED
    BY <1>1, <1>2, <1>4, <2>5, <2>6, FilledStep
<1> QED
  BY <1>5, <1>6

(* Nothing follows the bracket: the depth stays counted.                   *)
LEMMA CutContainerStep ==
    ASSUME JsonInv, NEW type \in Containers, ParseContainer(type),
           ~ AtLimit, depth' = depth + 1, offset' = Skip(offset + 1) - 1,
           at' = "false", UNCHANGED <<heap, stack>>
    PROVE  JsonInv'
<1>1. /\ text' = text /\ born' = born /\ stack' = stack /\ heap' = heap
      /\ item' = item /\ category' = category
      /\ require_null_terminated' = require_null_terminated
      /\ refused' = refused /\ strings' = strings
      /\ at = "value"
  BY DEF ParseContainer, buffer_vars
<1>2. /\ TypeOK /\ HeapOK /\ strings \in Nat /\ StringsHeld /\ born >= 1
  BY <1>1, TypesAre DEF JsonInv, TypeOK, Progress
<1>3. offset' \in 0 .. Length
  BY OpeningWithin
<1>4. HeapOK' /\ PointersKept
  BY <1>1, SameKeeps
<1>5. /\ FreeIsBlank' /\ Upward' /\ OneOwner' /\ CallsOK' /\ Linked'
      /\ Ids' = Ids /\ Live' = Live /\ Length' = Length
  BY <1>4, ShapeKept
<1>6. StringsHeld'
  BY <1>1, <1>2, <1>4, HeldSame, ShapeKept
<1>7. Progress' /\ ItemOK'
  BY <1>1, <1>2 DEF Progress, ItemOK
<1>8. TypeOK'
  <2>1. /\ offset' \in 0 .. Length' /\ at' \in Places
        /\ depth' \in 0 .. NestingLimit /\ Len(stack') <= depth'
    BY <1>1, <1>2, <1>3, <1>5, JsonParseAssumption
       DEF TypeOK, AtLimit, Places
  <2>2. /\ stack' \in Seq(Frames') /\ item' \in Ids' \cup {Null}
        /\ category' \in {"none", "commit", "info"} /\ strings' \in Nat
    BY <1>1, <1>2, <1>5, TypesAre DEF TypeOK, Frames
  <2>3. require_null_terminated' \in BOOLEAN
    BY <1>1, <1>2 DEF TypeOK
  <2>4. refused' \in BOOLEAN
    BY <1>1, <1>2 DEF TypeOK
  <2> QED
    BY <1>4, <2>1, <2>2, <2>3, <2>4 DEF TypeOK, HeapOK, Items, Frames
<1> QED
  BY <1>5, <1>6, <1>7, <1>8 DEF JsonInv

(* What keeps a call in order, in a step that does not concern it.         *)
LEMMA CallKept ==
    ASSUME NEW f, CallOK(f), f.item \in Live', heap'[f.item].child = Null,
           f.head # Null => /\ f.current \in Live'
                            /\ heap'[f.current].next = Null
                            /\ f.current \in Siblings(f.head)'
    PROVE  CallOK(f)'
BY DEF CallOK

(* The calls under way were made from one another: a call's list is        *)
(* followed by the item of the next call.                                  *)
LEMMA CallsAscend ==
    ASSUME JsonInv, stack # <<>>, NEW i \in DOMAIN stack, i # Len(stack)
    PROVE  /\ stack[i] \in Frames /\ CallOK(stack[i])
           /\ stack[i].head # Null /\ stack[i].current <= Top.item
           /\ stack[i].item < Top.item /\ stack[i].head <= Top.item
           /\ stack[i].item \in Nat /\ stack[i].head \in Nat
           /\ stack[i].current \in Nat /\ Top.item \in Nat
<1>1. stack \in Seq(Frames) /\ CallsOK /\ HeapOK
  BY TypesAre DEF JsonInv
<1>2. /\ Len(stack) \in DOMAIN stack /\ i < Len(stack)
      /\ stack[i] \in Frames /\ stack[Len(stack)] \in Frames
  BY <1>1, TopIs
<1>3. /\ CallOK(stack[i]) /\ stack[i].head # Null
      /\ stack[i].current <= stack[Len(stack)].item
  BY <1>1, <1>2 DEF CallsOK
<1>4. /\ stack[i].item \in Nat /\ stack[i].head \in Nat
      /\ stack[i].current \in Nat /\ stack[Len(stack)].item \in Nat
  BY <1>2 DEF Frames, Ids, Null
<1>5. stack[i].item < stack[i].head /\ stack[i].head <= stack[i].current
  BY <1>3 DEF CallOK
<1> QED
  BY <1>2, <1>3, <1>4, <1>5 DEF Top

(* A call begins, with no list as yet.                                     *)
LEMMA OpenStep ==
    ASSUME JsonInv, NEW type \in Containers, ParseContainer(type),
           ~ AtLimit, depth' = depth + 1, offset' = Skip(offset + 1) - 1,
           stack' = Append(stack, [type |-> type, item |-> item,
                                   head |-> Null, current |-> Null]),
           at' = "element", heap' = heap
    PROVE  JsonInv'
<1> DEFINE f == [type |-> type, item |-> item, head |-> Null,
                 current |-> Null]
<1>1. /\ text' = text /\ born' = born
      /\ item' = item /\ category' = category
      /\ require_null_terminated' = require_null_terminated
      /\ refused' = refused /\ strings' = strings
      /\ at = "value"
  BY DEF ParseContainer, buffer_vars
<1>2. /\ TypeOK /\ HeapOK /\ strings \in Nat /\ StringsHeld /\ born >= 1
      /\ stack \in Seq(Frames) /\ FreeIsBlank /\ Upward
      /\ OneOwner /\ CallsOK /\ Linked /\ born <= offset + 1
  BY <1>1, TypesAre DEF JsonInv, TypeOK, Progress
<1>3. /\ offset \in Nat /\ Length \in Nat /\ offset' \in offset .. Length - 1
  BY OpeningWithin
<1>4. /\ item \in Live /\ item \in Ids /\ heap[item].child = Null
      /\ stack # <<>> => Top.current = item /\ Top.head # Null
  BY <1>1, HeadIsThere DEF JsonInv, ItemOK, Live
<1>5. /\ Ids' = Ids /\ Length' = Length /\ Live' = Live
  BY <1>1 DEF Ids, Length, Live
<1>6. HeapOK' /\ FreeIsBlank' /\ Upward'
  <2>1. HeapOK'
    BY <1>1, <1>2, <1>5 DEF HeapOK, Items
  <2>2. FreeIsBlank'
    BY <1>1, <1>2, <1>5 DEF FreeIsBlank, Free
  <2>3. Upward'
    BY <1>1, <1>2, <1>5 DEF Upward
  <2> QED
    BY <2>1, <2>2, <2>3
<1>7. f \in Frames
  BY <1>4 DEF Frames
<1>8. /\ Len(stack) \in Nat /\ DOMAIN stack = 1 .. Len(stack)
      /\ stack' \in Seq(Frames) /\ DOMAIN stack' = 1 .. Len(stack) + 1
      /\ Len(stack') = Len(stack) + 1
      /\ stack'[Len(stack) + 1] = f
      /\ \A j \in 1 .. Len(stack) : stack'[j] = stack[j]
  <2> HIDE DEF f
  <2>1. stack' = Append(stack, f)
    BY DEF f
  <2> QED
    BY <1>2, <1>7, <2>1
<1>9. /\ born \in Nat /\ 1 .. born \subseteq Ids
      /\ Live \subseteq 1 .. born /\ Live \subseteq Ids
  BY <1>2, BornWithin, LiveIsWithin
<1>10. ASSUME NEW n \in 1 .. born PROVE Siblings(n) \subseteq Siblings(n)'
  <2>1. born <= born' /\ \A m \in 1 .. born : heap'[m].next = heap[m].next
    BY <1>1, <1>9
  <2> QED
    BY <1>2, <1>6, <2>1, SiblingsKept
<1>11. OneOwner'
  <2>1. ASSUME NEW n \in Ids PROVE Owners(n)' = Owners(n)
    <3>1. n # Null
      BY DEF Ids, Null
    <3>2. \A o : (\E j \in DOMAIN stack' : stack'[j].head = n
                                           /\ o = <<"call", j>>)
                 <=> (\E j \in DOMAIN stack : stack[j].head = n
                                              /\ o = <<"call", j>>)
      <4>1. f.head = Null
        OBVIOUS
      <4> HIDE DEF f
      <4>2. \A j \in DOMAIN stack' : stack'[j].head = n =>
                j \in DOMAIN stack /\ stack'[j] = stack[j]
        BY <1>8, <3>1, <4>1
      <4>3. \A j \in DOMAIN stack : j \in DOMAIN stack' /\ stack'[j] = stack[j]
        BY <1>8
      <4> QED
        BY <4>2, <4>3
    <3> DEFINE A == Owners(n)
               B == Owners(n)'
    <3>3. \A o : o \in B <=> o \in A
      BY <3>2, OwnersAre, OwnersPrimed DEF OwnersFacts
    <3> HIDE DEF A, B
    <3>4. B = A
      BY <3>3
    <3> QED
      BY <3>4 DEF A, B
  <2>2. \A n \in Live : Owners(n)' = Owners(n)
    BY <1>9, <2>1
  <2> QED
    BY <1>2, <1>5, <2>1, <2>2 DEF OneOwner, Root
<1>12. CallsOK'
  <2>1. ASSUME NEW g, g = f PROVE CallOK(g)'
    BY <1>1, <1>4, <1>5, <2>1 DEF CallOK
  <2>2. ASSUME NEW g \in Frames, CallOK(g) PROVE CallOK(g)'
    <3>1. g.item \in Live' /\ heap'[g.item].child = Null
      BY <1>5, <2>2 DEF CallOK
    <3>2. ASSUME g.head # Null
          PROVE  /\ g.current \in Live' /\ heap'[g.current].next = Null
                 /\ g.current \in Siblings(g.head)'
      <4>1. g.current \in Live /\ heap[g.current].next = Null
        BY <2>2, <3>2 DEF CallOK
      <4>2. g.current \in Siblings(g.head) /\ g.head <= g.current
        BY <2>2, <3>2 DEF CallOK
      <4>3. g.head \in 1 .. born
        BY <1>9, <3>2, <4>1, <4>2 DEF Frames, Ids, Null
      <4>4. g.current \in Siblings(g.head)'
        BY <1>10, <4>2, <4>3
      <4> QED
        BY <1>5, <4>1, <4>4
    <3> QED
      BY <2>2, <3>1, <3>2, CallKept
  <2>3. \A j \in DOMAIN stack' : CallOK(stack[j])'
    <3>1. \A j \in DOMAIN stack : \A g : g = stack[j] => CallOK(g)'
      BY <1>2, <2>2 DEF CallsOK
    <3> HIDE DEF f, CallOK
    <3>2. \A g : g = f => CallOK(g)'
      BY <2>1
    <3>3. ASSUME NEW j \in DOMAIN stack', NEW g, g = stack'[j]
          PROVE  CallOK(g)'
      <4>1. CASE j = Len(stack) + 1
        BY <1>8, <3>2, <3>3, <4>1
      <4>2. CASE j # Len(stack) + 1
        BY <1>8, <3>1, <3>3, <4>2
      <4> QED
        BY <4>1, <4>2
    <3> QED
      BY <3>3
  <2>4. ASSUME NEW i \in DOMAIN stack', NEW j \in DOMAIN stack', i < j
        PROVE  stack'[i].head # Null /\ stack'[i].current <= stack'[j].item
    <3>1. i \in DOMAIN stack /\ stack'[i] = stack[i]
      BY <1>8, <2>4
    <3>2. CASE j \in DOMAIN stack
      BY <1>2, <1>8, <2>4, <3>1, <3>2 DEF CallsOK
    <3>3. CASE j = Len(stack) + 1
      <4>1. stack # <<>> /\ stack'[j].item = item /\ item \in Nat
        BY <1>4, <1>8, <3>1, <3>3 DEF Ids
      <4>2. CASE i = Len(stack)
        BY <1>4, <3>1, <4>1, <4>2 DEF Top
      <4>3. CASE i # Len(stack)
        <5>1. /\ stack[i].head # Null /\ stack[i].current <= Top.item
              /\ stack[i].current \in Nat /\ Top.item \in Nat
          BY <3>1, <4>1, <4>3, CallsAscend
        <5>2. CallOK(Top) /\ Top \in Frames
          BY <1>2, <4>1, TopIs DEF CallsOK, Top
        <5>3. /\ Top.item < Top.head /\ Top.head <= Top.current
              /\ Top.head \in Nat
          BY <1>4, <4>1, <5>2 DEF CallOK, Frames, Ids, Null
        <5> QED
          BY <1>4, <3>1, <4>1, <5>1, <5>3
      <4> QED
        BY <4>2, <4>3
    <3> QED
      BY <1>8, <3>2, <3>3
  <2> QED
    BY <2>3, <2>4 DEF CallsOK
<1>13. Linked'
  <2>1. ASSUME NEW n \in Live, NEW first \in Ids, NEW last \in Ids \cup {Null},
               heap'[n].child = first, heap'[first].prev = last
        PROVE  ListEnd(first, last)'
    <3>1. heap[n].child = first /\ heap[first].prev = last
      BY <2>1
    <3>2. ListEnd(first, last)
      BY <1>2, <3>1 DEF Linked
    <3>3. first # Null
      BY DEF Ids, Null
    <3>4. first \in Live
      BY <1>2, <1>9, <3>1, <3>3, PointersLive
    <3>5. first \in 1 .. born
      BY <1>9, <3>4
    <3>6. last \in Siblings(first)' /\ last \in 1 .. born
      BY <1>2, <1>10, <3>2, <3>5, SiblingsAre DEF ListEnd
    <3>7. heap'[last].next = Null /\ last # Null
      BY <1>9, <3>2, <3>6 DEF ListEnd, Null
    <3>8. \A j \in DOMAIN stack' : stack'[j].current # last
      <4>1. f.current = Null
        OBVIOUS
      <4> HIDE DEF f
      <4> QED
        BY <1>8, <3>2, <3>7, <4>1 DEF ListEnd
    <3> QED
      BY <3>6, <3>7, <3>8 DEF ListEnd
  <2> QED
    BY <1>2, <1>5, <2>1 DEF Linked
<1>14. StringsHeld'
  BY <1>1, <1>2, <1>5, HeldSame
<1>15. Progress' /\ ItemOK'
  <2>1. /\ offset' \in Int /\ offset \in Int /\ offset <= offset'
        /\ born \in Int /\ born <= offset + 1
    BY <1>2, <1>3, <1>9
  <2>2. born <= offset' + 1
    BY <2>1, StillWithin, Zenon
  <2>3. born' <= offset' + 1 /\ offset' < Length' /\ stack' # <<>>
    BY <1>1, <1>3, <1>5, <1>8, <2>2
  <2> QED
    BY <1>1, <1>2, <2>3 DEF Progress, ItemOK
<1>16. TypeOK'
  <2>1. offset' \in 0 .. Length' /\ at' \in Places
    BY <1>3, <1>5 DEF Places
  <2>2. /\ depth' \in 0 .. NestingLimit /\ Len(stack') <= depth'
        /\ depth' = Len(stack')
    BY <1>1, <1>2, <1>8, JsonParseAssumption DEF TypeOK, AtLimit
  <2>3. stack' \in Seq(Frames')
    BY <1>5, <1>8 DEF Frames
  <2>4. /\ item' \in Ids' \cup {Null} /\ strings' \in Nat
        /\ category' \in {"none", "commit", "info"}
    BY <1>1, <1>2, <1>5 DEF TypeOK
  <2>5. require_null_terminated' \in BOOLEAN
    BY <1>1, <1>2 DEF TypeOK
  <2>6. refused' \in BOOLEAN
    BY <1>1, <1>2 DEF TypeOK
  <2> QED
    BY <1>6, <2>1, <2>2, <2>3, <2>4, <2>5, <2>6
       DEF TypeOK, HeapOK, Items, Frames
<1> QED
  BY <1>6, <1>11, <1>12, <1>13, <1>14, <1>15, <1>16 DEF JsonInv

LEMMA ContainerStep ==
    ASSUME JsonInv, NEW type \in Containers, ParseContainer(type)
    PROVE  JsonInv'
BY EmptyContainerStep, CutContainerStep, OpenStep DEF ParseContainer

LEMMA SetsEqual ==
    ASSUME NEW A, NEW B, \A x : x \in A <=> x \in B
    PROVE  A = B
OBVIOUS

LEMMA HeldKept ==
    ASSUME StringsHeld, strings' = strings,
           \A n : n \in Named(Live)' <=> n \in Named(Live),
           \A n : n \in Valued(Live)' <=> n \in Valued(Live)
    PROVE  StringsHeld'
<1> DEFINE A == Named(Live)
           B == Valued(Live)
           C == Named(Live)'
           D == Valued(Live)'
<1>1. (\A n : n \in C <=> n \in A) /\ (\A n : n \in D <=> n \in B)
  OBVIOUS
<1>2. Held(Live) = Cardinality(A) + Cardinality(B)
  BY HeldIs
<1>3. Held(Live)' = Cardinality(C) + Cardinality(D)
  BY HeldPrimed
<1> HIDE DEF A, B, C, D
<1>4. C = A /\ D = B
  BY <1>1
<1> QED
  BY <1>2, <1>3, <1>4 DEF StringsHeld

LEMMA NoElementStep ==
    ASSUME JsonInv, NewElement, Refuse("fail"),
           UNCHANGED <<offset, heap, born, stack, item>>
    PROVE  JsonInv'
<1>1. /\ text' = text /\ born' = born /\ stack' = stack /\ heap' = heap
      /\ depth' = depth /\ item' = item /\ category' = category
      /\ require_null_terminated' = require_null_terminated
      /\ strings' = strings /\ offset' = offset
      /\ at = "element" /\ at' = "fail" /\ refused' = TRUE
  BY DEF NewElement, buffer_vars, Refuse
<1>2. /\ offset' \in 0 .. Length /\ strings' \in Nat /\ StringsHeld
      /\ born >= 1
  BY <1>1 DEF JsonInv, TypeOK, Progress
<1>3. HeapOK' /\ PointersKept
  BY <1>1, SameKeeps
<1>4. StringsHeld'
  BY <1>1, <1>2, <1>3, HeldSame, ShapeKept
<1>5. refused' \in BOOLEAN
  BY <1>1, Zenon
<1>6. Progress' /\ ItemOK' /\ at' \in Places
  BY <1>1, <1>2 DEF Progress, ItemOK, Places
<1> QED
  BY <1>1, <1>2, <1>3, <1>4, <1>5, <1>6, CalmStep

(* What Attach does, item by item and call by call.                        *)
Attached(n, t) ==
    /\ n \in Ids /\ n \notin Live /\ n # Root /\ n = born + 1
    /\ Owners(n) = {} /\ heap[n].next = Null /\ heap[n].child = Null
    /\ Ids' = Ids /\ Length' = Length
    /\ \A m : m \in Live' <=> m \in Live \/ m = n
    /\ born' = n
    /\ heap' \in [Ids -> Items]
    /\ heap'[n] = [Blank EXCEPT !.prev = Top.current]
    /\ \A m \in Ids \ {n} :
           /\ heap'[m].type = heap[m].type
           /\ heap'[m].prev = heap[m].prev /\ heap'[m].child = heap[m].child
           /\ heap'[m].string = heap[m].string
           /\ heap'[m].valuestring = heap[m].valuestring
           /\ heap'[m].next = IF m = Top.current THEN n ELSE heap[m].next
           /\ m # Top.current => heap'[m] = heap[m]
    /\ t = Len(stack) /\ t \in DOMAIN stack /\ Top = stack[t]
    /\ DOMAIN stack' = DOMAIN stack /\ DOMAIN stack = 1 .. t
    /\ stack' \in Seq(Frames) /\ Len(stack') = t
    /\ \A j \in DOMAIN stack : j # t => stack'[j] = stack[j]
    /\ stack'[t].item = Top.item /\ stack'[t].current = n
    /\ stack'[t].head = IF Top.head = Null THEN n ELSE Top.head

LEMMA AttachDoes ==
    ASSUME JsonInv, at = "element", born' = born + 1, Attach(born + 1),
           text' = text
    PROVE  Attached(born + 1, Len(stack))
<1> DEFINE n == born + 1
           t == Len(stack)
           cur == Top.current
<1>1. /\ HeapOK /\ FreeIsBlank /\ OneOwner /\ Progress
      /\ offset \in 0 .. Length /\ stack \in Seq(Frames)
  BY TypesAre DEF JsonInv
<1>2. /\ born \in Nat /\ born >= 1 /\ born <= offset + 1
      /\ offset < Length /\ stack # <<>> /\ Length \in Nat
  BY <1>1, BornWithin DEF Progress
<1>3. n \in Ids /\ n # Root /\ n \in Nat
  BY <1>1, <1>2 DEF Ids, Root
<1>4. Ids' = Ids /\ Length' = Length
  BY DEF Ids, Length
<1>5. /\ t \in DOMAIN stack /\ Top = stack[t] /\ Top \in Frames
      /\ DOMAIN stack = 1 .. t /\ t \in Nat
  BY <1>1, <1>2, TopIs DEF Top
<1>6. n \notin Live /\ heap[n].type = "free"
  <2>1. ~ (n <= born)
    BY <1>2
  <2>2. n \notin Live
    BY <1>1, <2>1 DEF FreeIsBlank
  <2> QED
    BY <1>3, <2>2 DEF Live
<1>7. Owners(n) = {}
  BY <1>1, <1>3, <1>6 DEF OneOwner
<1>8. heap[n].next = Null /\ heap[n].child = Null
  BY <1>1, <1>3, <1>6 DEF FreeIsBlank, Free
<1>9. cur \in Ids \cup {Null}
  BY <1>5 DEF Frames
<1> DEFINE b == [Blank EXCEPT !.prev = cur]
<1>10. b \in Items /\ b.type = "Invalid"
  BY <1>9 DEF Items, Blank, Free
<1>11. heap' = [m \in Ids |-> IF m = n THEN b
                              ELSE IF m = cur THEN [heap[m] EXCEPT !.next = n]
                              ELSE heap[m]]
  BY DEF Attach
<1> HIDE DEF n, b, cur
<1>12. \A m \in Ids : heap[m] \in Items
  BY <1>1 DEF HeapOK
<1>13. \A m \in Ids :
          /\ [heap[m] EXCEPT !.next = n] \in Items
          /\ [heap[m] EXCEPT !.next = n].type = heap[m].type
          /\ [heap[m] EXCEPT !.next = n].prev = heap[m].prev
          /\ [heap[m] EXCEPT !.next = n].next = n
          /\ [heap[m] EXCEPT !.next = n].child = heap[m].child
          /\ [heap[m] EXCEPT !.next = n].string = heap[m].string
          /\ [heap[m] EXCEPT !.next = n].valuestring = heap[m].valuestring
  BY <1>3, <1>12 DEF Items
<1>14. heap' \in [Ids -> Items] /\ heap'[n] = b
  BY <1>3, <1>10, <1>11, <1>12, <1>13
<1>15. \A m \in Ids \ {n} :
           /\ heap'[m].type = heap[m].type
           /\ heap'[m].prev = heap[m].prev /\ heap'[m].child = heap[m].child
           /\ heap'[m].string = heap[m].string
           /\ heap'[m].valuestring = heap[m].valuestring
           /\ heap'[m].next = IF m = cur THEN n ELSE heap[m].next
           /\ m # cur => heap'[m] = heap[m]
  BY <1>11, <1>13
<1>16. \A m : m \in Live' <=> m \in Live \/ m = n
  BY <1>3, <1>4, <1>10, <1>14, <1>15 DEF Live
<1>17. /\ DOMAIN stack' = DOMAIN stack /\ stack' \in Seq(Frames)
       /\ Len(stack') = t
       /\ \A j \in DOMAIN stack : j # t => stack'[j] = stack[j]
       /\ stack'[t].item = Top.item /\ stack'[t].current = n
       /\ stack'[t].head = IF Top.head = Null THEN n ELSE Top.head
  <2> DEFINE g == [Top EXCEPT !.current = n,
                              !.head = IF @ = Null THEN n ELSE @]
  <2>1. stack' = [stack EXCEPT ![t] = g]
    BY <1>1, <1>5 DEF Attach, n, Frames
  <2>2. /\ g \in Frames /\ g.item = Top.item /\ g.current = n
        /\ g.head = IF Top.head = Null THEN n ELSE Top.head
    BY <1>3, <1>5 DEF Frames
  <2> HIDE DEF g
  <2>3. /\ stack' \in Seq(Frames) /\ Len(stack') = t
        /\ DOMAIN stack' = DOMAIN stack
    BY <1>1, <1>5, <2>1, <2>2
  <2>4. stack'[t] = g /\ \A j \in DOMAIN stack : j # t => stack'[j] = stack[j]
    BY <1>1, <1>5, <2>1
  <2> QED
    BY <2>2, <2>3, <2>4
<1> QED
  BY <1>3, <1>4, <1>5, <1>6, <1>7, <1>8, <1>14, <1>15, <1>16, <1>17
     DEF Attached, n, b, cur

(* The new item is found where it belongs: behind the last one of its list *)
(* or, when it is the first, by the call.                                  *)
LEMMA AttachOwners ==
    ASSUME JsonInv, NEW n, NEW t, Attached(n, t)
    PROVE  OneOwner'
<1>1. /\ HeapOK /\ FreeIsBlank /\ Upward /\ OneOwner /\ CallsOK
      /\ stack \in Seq(Frames)
  BY TypesAre DEF JsonInv
<1>2. /\ born \in Nat /\ 1 .. born \subseteq Ids /\ Ids \subseteq Nat
      /\ Live \subseteq 1 .. born /\ Live \subseteq Ids /\ Null \notin Ids
  BY <1>1, BornWithin, LiveIsWithin DEF Ids, Null
<1>3. CallOK(Top) /\ Top \in Frames
  BY <1>1 DEF CallsOK, Attached
<1>4. /\ Top.head = Null <=> Top.current = Null
      /\ Top.current # Null => /\ Top.current \in Live
                               /\ heap[Top.current].next = Null
  BY <1>3 DEF CallOK
<1>5. n \in Nat /\ n \in Ids /\ n \notin Live /\ n # Root
  BY <1>2 DEF Attached
<1>6. \A p \in Ids : 1 .. p - 1 \subseteq Ids
  BY <1>1, BornWithin DEF Ids
<1>7. ASSUME NEW p \in Ids \ {n}, NEW o
      PROVE  o \in Owners(p)' <=> o \in Owners(p)
  <2>1. \A m \in 1 .. p - 1 : /\ heap'[m].next = p <=> heap[m].next = p
                              /\ heap'[m].child = p <=> heap[m].child = p
    <3> TAKE m \in 1 .. p - 1
    <3>1. m \in Ids
      BY <1>6
    <3>2. CASE m = n
      <4>1. heap'[n].next = Null /\ heap'[n].child = Null
        BY DEF Attached, Blank, Free
      <4> QED
        BY <1>2, <3>2, <4>1 DEF Attached
    <3>3. CASE m # n
      BY <1>2, <1>4, <3>1, <3>3 DEF Attached
    <3> QED
      BY <3>2, <3>3
  <2>2. \A j \in DOMAIN stack : stack'[j].head = p <=> stack[j].head = p
    <3> TAKE j \in DOMAIN stack
    <3>1. CASE j = t
      BY <1>2, <3>1 DEF Attached
    <3>2. CASE j # t
      BY <3>2 DEF Attached
    <3> QED
      BY <3>1, <3>2
  <2>3. DOMAIN stack' = DOMAIN stack
    BY DEF Attached
  <2> QED
    BY <2>1, <2>2, <2>3, OwnersAre, OwnersPrimed DEF OwnersFacts
<1>8. \E a : \A o : o \in Owners(n)' <=> o = a
  <2>1. \A o : o \notin Owners(n)
    BY DEF Attached
  <2>2. \A m \in 1 .. n - 1 : /\ m \in Ids \ {n}
                              /\ heap[m].next # n /\ heap[m].child # n
    <3> TAKE m \in 1 .. n - 1
    <3>1. m \in Ids /\ m # n
      BY <1>5, <1>6
    <3>2. heap[m].next = n => <<"sibling", m>> \in Owners(n)
      BY OwnersAre DEF OwnersFacts
    <3>3. heap[m].child = n => <<"parent", m>> \in Owners(n)
      BY OwnersAre DEF OwnersFacts
    <3> QED
      BY <2>1, <3>1, <3>2, <3>3
  <2>3. \A m \in 1 .. n - 1 : /\ heap'[m].child # n
                              /\ heap'[m].next = n <=> m = Top.current
    BY <2>2 DEF Attached
  <2>4. \A j \in DOMAIN stack : stack[j].head # n
    BY <2>1, OwnersAre DEF OwnersFacts
  <2>5. \A j \in DOMAIN stack' :
            stack'[j].head = n <=> j = t /\ Top.head = Null
    <3> TAKE j \in DOMAIN stack'
    <3>1. j \in DOMAIN stack
      BY DEF Attached
    <3>2. CASE j = t
      BY <2>4, <3>1, <3>2 DEF Attached
    <3>3. CASE j # t
      BY <2>4, <3>1, <3>3 DEF Attached
    <3> QED
      BY <3>2, <3>3
  <2>6. t \in DOMAIN stack'
    BY DEF Attached
  <2>7. CASE Top.head = Null
    <3>1. \A o : o \in Owners(n)' <=> o = <<"call", t>>
      BY <1>2, <1>4, <1>5, <1>6, <2>3, <2>5, <2>6, <2>7, OwnersPrimed
         DEF OwnersFacts
    <3> DEFINE a == <<"call", t>>
    <3>2. \A o : o \in Owners(n)' <=> o = a
      BY <3>1
    <3> HIDE DEF a
    <3> QED
      BY <3>2
  <2>8. CASE Top.head # Null
    <3>1. Top.current \in 1 .. n - 1
      BY <1>2, <1>4, <1>5, <2>8 DEF Attached
    <3>2. \A o : o \in Owners(n)' <=> o = <<"sibling", Top.current>>
      BY <1>5, <2>3, <2>5, <2>8, <3>1, OwnersPrimed DEF OwnersFacts
    <3> DEFINE a == <<"sibling", Top.current>>
    <3>3. \A o : o \in Owners(n)' <=> o = a
      BY <3>2
    <3> HIDE DEF a
    <3> QED
      BY <3>3
  <2> QED
    BY <2>7, <2>8
<1>9. ASSUME NEW p \in Ids \ {n} PROVE Owners(p)' = Owners(p)
  <2> DEFINE A == Owners(p)
             B == Owners(p)'
  <2>1. \A o : o \in B <=> o \in A
    BY <1>7
  <2> HIDE DEF A, B
  <2>2. B = A
    BY <2>1
  <2> QED
    BY <2>2 DEF A, B
<1>10. \E a : Owners(n)' = {a}
  <2> DEFINE B == Owners(n)'
  <2>1. PICK a : \A o : o \in B <=> o = a
    BY <1>8
  <2> HIDE DEF B
  <2>2. B = {a}
    BY <2>1, Zenon
  <2> QED
    BY <2>2 DEF B
<1>11. \A p \in Live' : \E o : Owners(p)' = {o}
  <2> TAKE p \in Live'
  <2>1. CASE p = n
    BY <1>10, <2>1
  <2>2. CASE p # n
    <3>1. p \in Live /\ p \in Ids \ {n}
      BY <1>2, <2>2 DEF Attached
    <3>2. \E o : Owners(p) = {o}
      BY <1>1, <3>1 DEF OneOwner
    <3> QED
      BY <1>9, <3>1, <3>2
  <2> QED
    BY <2>1, <2>2
<1>12. \A p \in Ids' \ (Live' \cup {Root}) : Owners(p)' = {}
  <2> TAKE p \in Ids' \ (Live' \cup {Root})
  <2>1. p \in Ids \ {n} /\ p \in Ids \ (Live \cup {Root})
    BY DEF Attached
  <2> QED
    BY <1>1, <1>9, <2>1 DEF OneOwner
<1> QED
  BY <1>11, <1>12 DEF OneOwner, Root

(* The heap, the calls and the lists with the new item in place.           *)
LEMMA AttachShape ==
    ASSUME JsonInv, text' = text, NEW n, NEW t, Attached(n, t)
    PROVE  HeapOK' /\ FreeIsBlank' /\ Upward' /\ CallsOK' /\ Linked'
<1>1. /\ HeapOK /\ FreeIsBlank /\ Upward /\ OneOwner /\ CallsOK /\ Linked
      /\ stack \in Seq(Frames)
  BY TypesAre DEF JsonInv
<1>2. /\ born \in Nat /\ 1 .. born \subseteq Ids /\ Ids \subseteq Nat
      /\ Live \subseteq 1 .. born /\ Live \subseteq Ids /\ Null \notin Ids
      /\ Length \in Nat
  BY <1>1, BornWithin, LiveIsWithin DEF Ids, Null
<1>3. CallOK(Top) /\ Top \in Frames
  BY <1>1 DEF CallsOK, Attached
<1>4. /\ Top.head = Null <=> Top.current = Null
      /\ Top.current # Null => /\ Top.current \in Live
                               /\ heap[Top.current].next = Null
  BY <1>3 DEF CallOK
<1>5. /\ n \in Nat /\ n \in Ids /\ n \notin Live /\ n # Root /\ n = born + 1
      /\ Ids' = Ids /\ Length' = Length /\ born' = n
      /\ \A m : m \in Live' <=> m \in Live \/ m = n
  BY <1>2 DEF Attached
<1>6. /\ heap'[n].next = Null /\ heap'[n].child = Null
      /\ heap'[n].prev = Top.current /\ heap'[n].type = "Invalid"
  BY DEF Attached, Blank, Free
<1>7. HeapOK'
  <2>1. born' \in 0 .. Length + 1
    BY <1>5 DEF Ids
  <2>2. heap' \in [Ids' -> Items']
    BY <1>5 DEF Attached, Items
  <2> QED
    BY <1>1, <1>5, <2>1, <2>2 DEF HeapOK
<1>8. FreeIsBlank'
  <2>1. ASSUME NEW m \in Ids, heap'[m].type = "free" PROVE heap'[m] = Free
    <3>1. m # n /\ heap[m].type = "free"
      BY <1>6, <2>1 DEF Attached
    <3>2. m # Top.current
      BY <1>2, <1>4, <3>1 DEF Live
    <3> QED
      BY <1>1, <3>1, <3>2 DEF FreeIsBlank, Attached
  <2>2. \A m \in Live' : m <= born'
    <3>1. \A m \in Live : m <= n
      BY <1>2, <1>5
    <3> QED
      BY <1>5, <3>1
  <2> QED
    BY <1>5, <2>1, <2>2 DEF FreeIsBlank, Free
<1>9. ASSUME NEW m \in Ids
      PROVE  /\ heap'[m].next \in {Null} \cup (m + 1 .. born')
             /\ heap'[m].child \in {Null} \cup (m + 1 .. born')
  <2>1. /\ heap[m].next \in {Null} \cup (m + 1 .. born)
        /\ heap[m].child \in {Null} \cup (m + 1 .. born)
    BY <1>1 DEF Upward
  <2>2. m + 1 .. born \subseteq m + 1 .. born'
    BY <1>2, <1>5
  <2>3. CASE m = n
    BY <1>6, <2>3
  <2>4. CASE m # n /\ m = Top.current
    <3>1. m \in 1 .. born
      BY <1>2, <1>4, <2>4
    <3>2. n \in m + 1 .. born'
      BY <1>2, <1>5, <3>1
    <3>3. heap'[m].next = n /\ heap'[m].child = heap[m].child
      BY <2>4 DEF Attached
    <3> QED
      BY <2>1, <2>2, <3>2, <3>3
  <2>5. CASE m # n /\ m # Top.current
    <3>1. heap'[m].next = heap[m].next /\ heap'[m].child = heap[m].child
      BY <2>5 DEF Attached
    <3> QED
      BY <2>1, <2>2, <3>1
  <2> QED
    BY <2>3, <2>4, <2>5
<1>10. Upward'
  BY <1>5, <1>9 DEF Upward
<1>11. ASSUME NEW m \in 1 .. born PROVE Siblings(m) \subseteq Siblings(m)'
  <2>1. born <= born'
    BY <1>2, <1>5
  <2>2. ASSUME NEW k \in 1 .. born, heap[k].next # Null
        PROVE  heap'[k].next = heap[k].next
    <3>1. k \in Ids /\ k # n
      BY <1>2, <1>5
    <3>2. k # Top.current
      BY <1>2, <1>4, <2>2
    <3> QED
      BY <3>1, <3>2 DEF Attached
  <2> QED
    BY <1>1, <1>7, <1>10, <2>1, <2>2, SiblingsKept
<1>12. CallsOK'
  <2>1. ASSUME NEW j \in DOMAIN stack, NEW f, f = stack'[j]
        PROVE  CallOK(f)'
    <3>1. CASE j # t
      <4>1. /\ f = stack[j] /\ f \in Frames /\ CallOK(f) /\ f.head # Null
            /\ f.current <= Top.item /\ f.current \in Nat /\ Top.item \in Nat
        BY <2>1, <3>1, CallsAscend DEF Attached
      <4>2. f.item \in Live' /\ heap'[f.item].child = Null
        BY <1>2, <1>5, <4>1 DEF CallOK, Attached
      <4>3. /\ f.current \in Live /\ f.current \in Siblings(f.head)
            /\ heap[f.current].next = Null /\ f.head <= f.current
        BY <4>1 DEF CallOK
      <4>4. f.current # Top.current
        <5>1. CASE Top.head = Null
          BY <1>2, <1>4, <4>3, <5>1
        <5>2. CASE Top.head # Null
          <6>1. Top.item < Top.head /\ Top.head <= Top.current
            BY <1>3, <5>2 DEF CallOK
          <6>2. Top.head \in Nat /\ Top.current \in Nat
            BY <1>3 DEF Frames, Ids, Null
          <6> QED
            BY <4>1, <6>1, <6>2
        <5> QED
          BY <5>1, <5>2
      <4>5. f.current \in Live' /\ heap'[f.current].next = Null
        BY <1>2, <1>5, <4>3, <4>4 DEF Attached
      <4>6. f.head \in 1 .. born
        BY <1>2, <4>1, <4>3 DEF Frames, Ids, Null
      <4>7. f.current \in Siblings(f.head)'
        BY <1>11, <4>3, <4>6
      <4> QED
        BY <4>1, <4>2, <4>5, <4>7, CallKept
    <3>2. CASE j = t
      <4>1. /\ f.item = Top.item /\ f.current = n
            /\ f.head = IF Top.head = Null THEN n ELSE Top.head
        BY <2>1, <3>2 DEF Attached
      <4>2. Top.item \in Live /\ heap[Top.item].child = Null
        BY <1>3 DEF CallOK
      <4>3. f.item \in Live' /\ heap'[f.item].child = Null
        BY <1>2, <1>5, <4>1, <4>2 DEF Attached
      <4>4. f.head # Null /\ f.current # Null
        BY <1>2, <1>5, <4>1
      <4>5. f.item < f.head /\ f.head <= f.current
        <5>1. CASE Top.head = Null
          <6>1. Top.item \in 1 .. born
            BY <1>2, <4>2
          <6>2. f.head = n /\ f.current = n /\ f.item = Top.item
            BY <4>1, <5>1
          <6> QED
            BY <1>2, <1>5, <6>1, <6>2
        <5>2. CASE Top.head # Null
          <6>1. /\ Top.item < Top.head /\ Top.head <= Top.current
                /\ Top.current \in Live
            BY <1>3, <5>2 DEF CallOK
          <6>2. Top.head \in Nat /\ Top.current \in 1 .. born
            BY <1>2, <1>3, <6>1 DEF Frames, Ids, Null
          <6> QED
            BY <1>2, <1>5, <4>1, <5>2, <6>1, <6>2
        <5> QED
          BY <5>1, <5>2
      <4>6. f.current \in Live' /\ heap'[f.current].next = Null
        BY <1>5, <1>6, <4>1
      <4>7. f.current \in Siblings(f.head)'
        <5>1. SiblingsFacts'
          BY <1>7, <1>10, SiblingsPrimed
        <5>2. n \in 1 .. born'
          BY <1>2, <1>5
        <5>3. CASE Top.head = Null
          BY <4>1, <5>1, <5>2, <5>3 DEF SiblingsFacts
        <5>4. CASE Top.head # Null
          <6>1. /\ Top.current \in Siblings(Top.head)
                /\ Top.head <= Top.current /\ Top.current \in Live
            BY <1>3, <5>4 DEF CallOK
          <6>2. Top.head \in 1 .. born /\ Top.current \in 1 .. born
            BY <1>2, <1>3, <5>4, <6>1 DEF Frames, Ids, Null
          <6> DEFINE h == Top.head
                     c == Top.current
          <6>3. f.head = h /\ c \in Siblings(h) /\ h \in 1 .. born
            BY <4>1, <5>4, <6>1, <6>2
          <6>4. heap'[c].next = n /\ c \in 1 .. born' /\ n # Null
            BY <1>2, <1>4, <1>5, <5>4, <6>2 DEF Attached
          <6>5. h \in 1 .. born' /\ f.head \in 1 .. born'
            BY <1>2, <1>5, <6>2, <6>3
          <6>6. ASSUME NEW x \in 1 .. born, NEW y, x = h, y = c
                PROVE  n \in Siblings(x)'
            <7>1. y \in Siblings(x)'
              BY <1>11, <6>3, <6>6
            <7>2. SiblingsClosed(Siblings(x))'
              BY <5>1, <6>5, <6>6 DEF SiblingsFacts
            <7>3. y \in 1 .. born' /\ heap'[y].next = n
              BY <6>4, <6>6
            <7> QED
              BY <1>2, <1>5, <7>1, <7>2, <7>3 DEF SiblingsClosed
          <6>7. n \in Siblings(f.head)'
            BY <6>3, <6>6
          <6> QED
            BY <4>1, <6>7
        <5> QED
          BY <5>3, <5>4
      <4> QED
        BY <4>3, <4>4, <4>5, <4>6, <4>7 DEF CallOK
    <3> QED
      BY <3>1, <3>2
  <2>2. \A j \in DOMAIN stack' : CallOK(stack[j])'
    BY <2>1 DEF Attached
  <2>3. ASSUME NEW i \in DOMAIN stack, NEW j \in DOMAIN stack, i < j
        PROVE  stack'[i].head # Null /\ stack'[i].current <= stack'[j].item
    <3>1. i # t /\ stack'[i] = stack[i]
      BY <1>1, <2>3 DEF Attached
    <3>2. stack'[j].item = stack[j].item
      BY DEF Attached
    <3> QED
      BY <1>1, <2>3, <3>1, <3>2 DEF CallsOK
  <2> QED
    BY <2>2, <2>3 DEF CallsOK, Attached
<1>13. Linked'
  <2>1. ASSUME NEW m \in Live', heap'[m].next # Null
        PROVE  heap'[heap'[m].next].prev = m
    <3>1. m # n /\ m \in Live /\ m \in Ids
      BY <1>2, <1>5, <1>6, <2>1
    <3>2. CASE m = Top.current
      <4>1. heap'[m].next = n
        BY <3>1, <3>2 DEF Attached
      <4> QED
        BY <1>6, <3>2, <4>1
    <3>3. CASE m # Top.current
      <4> DEFINE p == heap[m].next
      <4>1. heap'[m].next = p /\ p # Null
        BY <2>1, <3>1, <3>3 DEF Attached
      <4>2. p \in Live /\ p \in Ids
        BY <1>1, <1>2, <3>1, <4>1, PointersLive
      <4>3. heap[p].prev = m
        BY <1>1, <3>1, <4>1 DEF Linked
      <4>4. heap'[p].prev = heap[p].prev
        BY <1>5, <4>2 DEF Attached
      <4> QED
        BY <4>1, <4>3, <4>4
    <3> QED
      BY <3>2, <3>3
  <2>2. ASSUME NEW m \in Live', NEW first \in Ids, NEW last \in Ids \cup {Null},
               heap'[m].child = first, heap'[first].prev = last
        PROVE  ListEnd(first, last)'
    <3>1. m # n /\ m \in Live /\ m \in Ids /\ first # Null
      BY <1>2, <1>5, <1>6, <2>2
    <3>2. heap[m].child = first
      BY <2>2, <3>1 DEF Attached
    <3>3. first \in Live /\ first \in 1 .. born
      BY <1>1, <1>2, <3>1, <3>2, PointersLive
    <3>4. heap[first].prev = last
      BY <1>2, <1>5, <2>2, <3>3 DEF Attached
    <3>5. ListEnd(first, last)
      BY <1>1, <3>1, <3>2, <3>4 DEF Linked
    <3>6. /\ last \in Siblings(first)' /\ last \in 1 .. born
      BY <1>1, <1>11, <3>3, <3>5, SiblingsAre DEF ListEnd
    <3>7. last # n /\ last # Top.current /\ last \in Ids
      BY <1>2, <1>5, <3>5, <3>6 DEF ListEnd, Attached
    <3>8. heap'[last].next = Null
      BY <3>5, <3>7 DEF Attached, ListEnd
    <3>9. \A j \in DOMAIN stack' : stack'[j].current # last
      <4> TAKE j \in DOMAIN stack'
      <4>1. CASE j = t
        BY <3>7, <4>1 DEF Attached
      <4>2. CASE j # t
        BY <3>5, <4>2 DEF Attached, ListEnd
      <4> QED
        BY <4>1, <4>2
    <3> QED
      BY <3>6, <3>8, <3>9 DEF ListEnd
  <2> QED
    BY <1>5, <2>1, <2>2 DEF Linked
<1> QED
  BY <1>7, <1>8, <1>10, <1>12, <1>13

LEMMA AttachedStep ==
    ASSUME JsonInv, NewElement, born' = born + 1, Attach(born + 1),
           IF Top.type = "Object" THEN at' = "name" /\ UNCHANGED offset
           ELSE at' = "value" /\ offset' = Skip(offset + 1),
           UNCHANGED refused
    PROVE  JsonInv'
<1> DEFINE n == born + 1
           t == Len(stack)
<1>1. /\ text' = text /\ depth' = depth /\ category' = category
      /\ require_null_terminated' = require_null_terminated
      /\ refused' = refused /\ strings' = strings
      /\ at = "element" /\ item' = n /\ born' = n
      /\ at' \in {"name", "value"}
  BY DEF NewElement, buffer_vars, Attach
<1>2. Attached(n, t)
  BY <1>1, AttachDoes
<1> HIDE DEF n, t
<1>3. /\ HeapOK' /\ FreeIsBlank' /\ Upward' /\ CallsOK' /\ Linked'
      /\ OneOwner'
  BY <1>1, <1>2, AttachShape, AttachOwners
<1>4. /\ TypeOK /\ StringsHeld /\ HeapOK /\ Progress
      /\ FreeIsBlank /\ offset \in 0 .. Length /\ Length \in Nat
      /\ text \in Seq(Characters) /\ text # <<>>
  BY TypesAre DEF JsonInv, TypeOK, Length
<1>5. /\ born \in Nat /\ born <= offset + 1 /\ offset < Length
      /\ offset \in Nat /\ n = born + 1 /\ n \in Nat
  BY <1>1, <1>4, BornWithin DEF Progress, n
<1>6. /\ Ids' = Ids /\ Length' = Length /\ n \in Ids
      /\ \A m : m \in Live' <=> m \in Live \/ m = n
      /\ heap'[n].string = Absent /\ heap'[n].valuestring = Absent
      /\ heap'[n].child = Null /\ n \notin Live
      /\ Live \subseteq Ids
  BY <1>2, <1>4, LiveIsWithin DEF Attached, Blank, Free
<1>7. StringsHeld'
  <2>1. \A m \in Live : /\ heap'[m].string = heap[m].string
                        /\ heap'[m].valuestring = heap[m].valuestring
    BY <1>2, <1>6 DEF Attached
  <2>2. \A m : m \in Named(Live)' <=> m \in Named(Live)
    BY <1>6, <2>1 DEF Named
  <2>3. \A m : m \in Valued(Live)' <=> m \in Valued(Live)
    BY <1>6, <2>1 DEF Valued
  <2> QED
    BY <1>1, <1>4, <2>2, <2>3, HeldKept
<1>8. /\ stack' \in Seq(Frames) /\ Len(stack') = Len(stack)
      /\ stack' # <<>> /\ Top'.current = n
  BY <1>2 DEF Attached, Top
<1>9. ItemOK'
  BY <1>1, <1>6, <1>8 DEF ItemOK
<1>10. /\ offset' \in 0 .. Length
       /\ at' = "value" => offset' \in offset + 1 .. Length
       /\ at' = "name" => offset' = offset
  <2>1. offset + 1 \in 0 .. Length
    BY <1>4, <1>5
  <2>2. Skip(offset + 1) \in offset + 1 .. Length
    BY <1>4, <2>1, SkipIs
  <2>3. Skip(offset + 1) \in 0 .. Length
    BY <1>4, <1>5, <2>2
  <2> QED
    BY <1>4, <2>2, <2>3
<1>11. Progress'
  <2>1. CASE at' = "name"
    <3>1. born' <= offset' + 2 /\ offset' < Length'
      BY <1>1, <1>5, <1>6, <1>10, <2>1
    <3>2. born' >= 1
      BY <1>1, <1>5
    <3> QED
      BY <1>8, <2>1, <3>1, <3>2 DEF Progress
  <2>2. CASE at' = "value"
    <3>1. /\ n \in Int /\ offset + 1 \in Int /\ n <= (offset + 1) + 1
      BY <1>5
    <3>2. offset' \in Int /\ offset + 1 <= offset'
      BY <1>4, <1>5, <1>10, <2>2
    <3>3. n <= offset' + 1
      BY <3>1, <3>2, StillWithin, Zenon
    <3>4. born' <= offset' + 1 /\ born' >= 1
      BY <1>1, <1>5, <3>3
    <3> QED
      BY <1>8, <2>2, <3>4 DEF Progress
  <2> QED
    BY <1>1, <2>1, <2>2
<1>12. TypeOK'
  <2>1. offset' \in 0 .. Length' /\ at' \in Places
    BY <1>1, <1>6, <1>10 DEF Places
  <2>2. /\ depth' \in 0 .. NestingLimit /\ Len(stack') <= depth'
        /\ depth' = Len(stack')
    BY <1>1, <1>4, <1>8 DEF TypeOK
  <2>3. stack' \in Seq(Frames')
    BY <1>6, <1>8 DEF Frames
  <2>4. /\ item' \in Ids' \cup {Null} /\ strings' \in Nat
        /\ category' \in {"none", "commit", "info"}
    BY <1>1, <1>4, <1>6 DEF TypeOK
  <2>5. require_null_terminated' \in BOOLEAN
    BY <1>1, <1>4 DEF TypeOK
  <2>6. refused' \in BOOLEAN
    BY <1>1, <1>4 DEF TypeOK
  <2> QED
    BY <1>3, <2>1, <2>2, <2>3, <2>4, <2>5, <2>6
       DEF TypeOK, HeapOK, Items, Frames
<1> QED
  BY <1>3, <1>7, <1>9, <1>11, <1>12 DEF JsonInv

LEMMA NewElementStep == ASSUME JsonInv, NewElement PROVE JsonInv'
BY NoElementStep, AttachedStep DEF NewElement
-----------------------------------------------------------------------------
(***************************************************************************)
(* The end of an array or object: its list passes from the call to the     *)
(* item.                                                                   *)
(***************************************************************************)
LEMMA PopIs ==
    ASSUME stack \in Seq(Frames), stack # <<>>, stack' = Pop
    PROVE  /\ stack' \in Seq(Frames) /\ Len(stack) \in Nat
           /\ Len(stack') = Len(stack) - 1
           /\ DOMAIN stack' = 1 .. Len(stack) - 1
           /\ \A j : j \in DOMAIN stack' <=> /\ j \in DOMAIN stack
                                             /\ j # Len(stack)
           /\ \A j \in DOMAIN stack' : stack'[j] = stack[j]
           /\ stack' # <<>> => /\ Len(stack) - 1 \in DOMAIN stack
                               /\ Len(stack) \in DOMAIN stack
                               /\ Top' = stack[Len(stack) - 1]
<1> DEFINE t == Len(stack)
<1>1. t \in Nat /\ t >= 1 /\ DOMAIN stack = 1 .. t
  BY TopIs
<1>2. /\ stack' \in Seq(Frames) /\ Len(stack') = t - 1
      /\ \A j \in 1 .. t - 1 : stack'[j] = stack[j]
  <2>1. 1 \in 1 .. t + 1 /\ t - 1 \in 0 .. t
    BY <1>1
  <2>2. stack' = SubSeq(stack, 1, t - 1)
    BY DEF Pop
  <2>3. \A j \in 1 .. t : stack[j] \in Frames
    BY <1>1
  <2>4. stack' = [j \in 1 .. t - 1 |-> stack[j]]
    BY <1>1, <2>2
  <2> QED
    BY <1>1, <2>3, <2>4
<1>3. DOMAIN stack' = 1 .. t - 1
  BY <1>2
<1>4. \A j : j \in DOMAIN stack' <=> j \in DOMAIN stack /\ j # t
  BY <1>1, <1>3
<1>5. stack' # <<>> => t - 1 >= 1
  BY <1>1, <1>2
<1> HIDE DEF t
<1>6. stack' # <<>> => /\ t - 1 \in DOMAIN stack /\ t \in DOMAIN stack
                       /\ Top' = stack[t - 1]
  BY <1>1, <1>2, <1>5 DEF Top
<1> QED
  BY <1>1, <1>2, <1>3, <1>4, <1>6 DEF t

(* What Close does, item by item.                                          *)
Closed(h, c, i, t) ==
    /\ h = Top.head /\ c = Top.current /\ i = Top.item /\ t = Len(stack)
    /\ h \in Live /\ i \in Live /\ c \in Live /\ h # Root
    /\ h \in Nat /\ i \in Nat /\ c \in Nat /\ i < h /\ h <= c
    /\ heap[i].child = Null /\ heap[c].next = Null /\ c \in Siblings(h)
    /\ <<"call", t>> \in Owners(h)
    /\ Ids' = Ids /\ Length' = Length /\ born' = born /\ Live' = Live
    /\ heap' \in [Ids -> Items]
    /\ \A m \in Ids :
           /\ heap'[m].next = heap[m].next
           /\ heap'[m].prev = IF m = h THEN c ELSE heap[m].prev
           /\ heap'[m].child = IF m = i THEN h ELSE heap[m].child
           /\ heap'[m].string = heap[m].string
           /\ heap'[m].valuestring = heap[m].valuestring
           /\ m \notin {h, i} => heap'[m] = heap[m]

LEMMA CloseDoes ==
    ASSUME JsonInv, Close
    PROVE  Closed(Top.head, Top.current, Top.item, Len(stack))
<1> DEFINE h == Top.head
           c == Top.current
           i == Top.item
           t == Len(stack)
<1>1. /\ HeapOK /\ FreeIsBlank /\ OneOwner /\ Progress /\ CallsOK
      /\ stack \in Seq(Frames)
  BY TypesAre DEF JsonInv
<1>2. /\ text' = text /\ born' = born /\ at = "true" /\ stack # <<>>
      /\ heap' = [heap EXCEPT ![Top.head].prev = Top.current,
                              ![Top.item].type = Top.type,
                              ![Top.item].child = Top.head]
  BY DEF Close, buffer_vars
<1>3. /\ t \in DOMAIN stack /\ Top = stack[t] /\ Top \in Frames
  BY <1>1, <1>2, TopIs DEF Top
<1>4. CallOK(Top)
  BY <1>1, <1>3 DEF CallsOK
<1>5. h # Null
  BY <1>1, <1>2 DEF Progress
<1>6. /\ i \in Live /\ heap[i].child = Null /\ i < h /\ h <= c
      /\ c \in Live /\ heap[c].next = Null /\ c \in Siblings(h)
  BY <1>4, <1>5 DEF CallOK
<1>7. /\ h \in Ids /\ i \in Ids /\ c \in Ids /\ Ids \subseteq Nat \ {0}
  BY <1>3, <1>5, <1>6 DEF Frames, Live, Ids, Null
<1>8. h # Root /\ h \in Nat /\ i \in Nat /\ c \in Nat
  <2>1. i < h /\ i \in Nat \ {0} /\ h \in Nat \ {0} /\ c \in Nat
    BY <1>6, <1>7
  <2> HIDE DEF h, i, c
  <2> QED
    BY <2>1 DEF Root
<1>9. <<"call", t>> \in Owners(h)
  BY <1>3, OwnersAre DEF OwnersFacts
<1>10. h \in Live
  BY <1>1, <1>7, <1>8, <1>9 DEF OneOwner
<1>11. Ids' = Ids /\ Length' = Length
  BY <1>2 DEF Ids, Length
<1> DEFINE k == Top.type
           a == [heap[h] EXCEPT !.prev = c]
           b == [heap[i] EXCEPT !.type = k, !.child = h]
<1>12. heap[h] \in Items /\ heap[i] \in Items /\ k \in Containers
  BY <1>1, <1>3, <1>7 DEF HeapOK, Frames
<1>13. /\ a \in Items /\ b \in Items
       /\ a.next = heap[h].next /\ a.prev = c /\ a.child = heap[h].child
       /\ a.string = heap[h].string /\ a.valuestring = heap[h].valuestring
       /\ a.type = heap[h].type
       /\ b.next = heap[i].next /\ b.prev = heap[i].prev /\ b.child = h
       /\ b.string = heap[i].string /\ b.valuestring = heap[i].valuestring
       /\ b.type # "free"
  <2> HIDE DEF h, i, c, k
  <2> QED
    BY <1>7, <1>12 DEF Items, Containers
<1>14. h # i
  <2> HIDE DEF h, i, c, k, a, b
  <2> QED
    BY <1>6, <1>8
<1>15. heap' = [heap EXCEPT ![h] = a, ![i] = b]
  <2>1. heap' = [heap EXCEPT ![h].prev = c, ![i].type = k, ![i].child = h]
    BY <1>2
  <2> HIDE DEF h, i, c, k
  <2> QED
    BY <1>1, <1>7, <1>14, <2>1 DEF HeapOK
<1> HIDE DEF h, i, c, t, k, a, b
<1>16. /\ heap' \in [Ids -> Items]
       /\ \A m \in Ids : heap'[m] = IF m = i THEN b ELSE IF m = h THEN a
                                    ELSE heap[m]
  BY <1>1, <1>7, <1>13, <1>14, <1>15 DEF HeapOK
<1>17. \A m \in Ids :
           /\ heap'[m].next = heap[m].next
           /\ heap'[m].prev = IF m = h THEN c ELSE heap[m].prev
           /\ heap'[m].child = IF m = i THEN h ELSE heap[m].child
           /\ heap'[m].string = heap[m].string
           /\ heap'[m].valuestring = heap[m].valuestring
           /\ m \notin {h, i} => heap'[m] = heap[m]
           /\ heap'[m].type = "free" <=> heap[m].type = "free"
  BY <1>6, <1>10, <1>13, <1>14, <1>16 DEF Live
<1>18. Live' = Live
  BY <1>11, <1>17 DEF Live
<1> QED
  BY <1>2, <1>6, <1>8, <1>9, <1>10, <1>11, <1>16, <1>17, <1>18
     DEF Closed, h, i, c, t

LEMMA CloseOwners ==
    ASSUME JsonInv, stack # <<>>, stack' = Pop,
           NEW h, NEW c, NEW i, NEW t, Closed(h, c, i, t)
    PROVE  OneOwner'
<1>1. /\ HeapOK /\ FreeIsBlank /\ OneOwner /\ stack \in Seq(Frames)
  BY TypesAre DEF JsonInv
<1>2. Live \subseteq Ids /\ Null \notin Ids /\ Ids \subseteq Nat
  BY <1>1, LiveIsWithin DEF Ids, Null
<1>3. \A p \in Ids : 1 .. p - 1 \subseteq Ids
  BY <1>1, BornWithin DEF Ids
<1>4. /\ Len(stack) = t /\ t \in DOMAIN stack /\ stack[t].head = h
      /\ \A j : j \in DOMAIN stack' <=> j \in DOMAIN stack /\ j # t
      /\ \A j \in DOMAIN stack' : stack'[j] = stack[j]
  BY <1>1, PopIs, TopIs DEF Closed, Top
<1>5. ASSUME NEW p \in Ids \ {h}, NEW o
      PROVE  o \in Owners(p)' <=> o \in Owners(p)
  <2>1. \A m \in 1 .. p - 1 : /\ heap'[m].next = p <=> heap[m].next = p
                              /\ heap'[m].child = p <=> heap[m].child = p
    BY <1>2, <1>3 DEF Closed
  <2>2. \A j : j \in DOMAIN stack' /\ stack'[j].head = p
                   <=> j \in DOMAIN stack /\ stack[j].head = p
    BY <1>4
  <2> QED
    BY <2>1, <2>2, OwnersAre, OwnersPrimed DEF OwnersFacts
<1>6. \A o : o \in Owners(h)' <=> o = <<"parent", i>>
  <2>1. \A o \in Owners(h) : o = <<"call", t>>
    BY <1>1, SoleOwner DEF Closed
  <2>2. h \in Ids /\ i \in 1 .. h - 1 /\ h # Root
    BY <1>2 DEF Closed, Ids
  <2>3. \A m \in 1 .. h - 1 : heap[m].next # h /\ heap[m].child # h
    <3> TAKE m \in 1 .. h - 1
    <3>1. heap[m].next = h => <<"sibling", m>> \in Owners(h)
      BY OwnersAre DEF OwnersFacts
    <3>2. heap[m].child = h => <<"parent", m>> \in Owners(h)
      BY OwnersAre DEF OwnersFacts
    <3>3. <<"sibling", m>> # <<"call", t>> /\ <<"parent", m>> # <<"call", t>>
      OBVIOUS
    <3> QED
      BY <2>1, <3>1, <3>2, <3>3
  <2>4. \A j \in DOMAIN stack' : stack'[j].head # h
    <3> TAKE j \in DOMAIN stack'
    <3>1. stack[j].head = h => <<"call", j>> \in Owners(h)
      BY <1>4, OwnersAre DEF OwnersFacts
    <3>2. <<"call", j>> # <<"call", t>>
      BY <1>4
    <3> QED
      BY <1>4, <2>1, <3>1, <3>2
  <2>5. \A m \in 1 .. h - 1 : /\ heap'[m].next # h
                              /\ heap'[m].child = h <=> m = i
    BY <1>3, <2>2, <2>3 DEF Closed
  <2> QED
    BY <2>2, <2>4, <2>5, OwnersPrimed DEF OwnersFacts
<1>7. ASSUME NEW p \in Ids \ {h} PROVE Owners(p)' = Owners(p)
  <2> DEFINE A == Owners(p)
             B == Owners(p)'
  <2>1. \A o : o \in B <=> o \in A
    BY <1>5
  <2> HIDE DEF A, B
  <2>2. B = A
    BY <2>1
  <2> QED
    BY <2>2 DEF A, B
<1>8. \E a : Owners(h)' = {a}
  <2> DEFINE B == Owners(h)'
             a == <<"parent", i>>
  <2>1. \A o : o \in B <=> o = a
    BY <1>6
  <2> HIDE DEF B, a
  <2>2. B = {a}
    BY <2>1, Zenon
  <2> QED
    BY <2>2 DEF B
<1>9. \A p \in Live' : \E o : Owners(p)' = {o}
  <2> TAKE p \in Live'
  <2>1. CASE p = h
    BY <1>8, <2>1
  <2>2. CASE p # h
    <3>1. p \in Live /\ p \in Ids \ {h}
      BY <1>2, <2>2 DEF Closed
    <3>2. \E o : Owners(p) = {o}
      BY <1>1, <3>1 DEF OneOwner
    <3> QED
      BY <1>7, <3>1, <3>2
  <2> QED
    BY <2>1, <2>2
<1>10. \A p \in Ids' \ (Live' \cup {Root}) : Owners(p)' = {}
  <2> TAKE p \in Ids' \ (Live' \cup {Root})
  <2>1. p \in Ids \ {h} /\ p \in Ids \ (Live \cup {Root})
    BY DEF Closed
  <2> QED
    BY <1>1, <1>7, <2>1 DEF OneOwner
<1> QED
  BY <1>9, <1>10 DEF OneOwner, Root

LEMMA CloseShape ==
    ASSUME JsonInv, text' = text, stack # <<>>, stack' = Pop,
           NEW h, NEW c, NEW i, NEW t, Closed(h, c, i, t)
    PROVE  HeapOK' /\ FreeIsBlank' /\ Upward' /\ CallsOK' /\ Linked'
<1>1. /\ HeapOK /\ FreeIsBlank /\ Upward /\ OneOwner /\ CallsOK /\ Linked
      /\ stack \in Seq(Frames)
  BY TypesAre DEF JsonInv
<1>2. /\ born \in Nat /\ 1 .. born \subseteq Ids /\ Ids \subseteq Nat
      /\ Live \subseteq 1 .. born /\ Live \subseteq Ids /\ Null \notin Ids
  BY <1>1, BornWithin, LiveIsWithin DEF Ids, Null
<1>3. /\ Len(stack) = t /\ t \in DOMAIN stack
      /\ \A j : j \in DOMAIN stack' <=> j \in DOMAIN stack /\ j # t
      /\ \A j \in DOMAIN stack' : stack'[j] = stack[j]
  BY <1>1, PopIs, TopIs DEF Closed
<1>4. /\ Ids' = Ids /\ Length' = Length /\ born' = born /\ Live' = Live
      /\ h \in Live /\ i \in Live /\ c \in Live
  BY DEF Closed
<1>5. HeapOK'
  <2>1. heap' \in [Ids' -> Items']
    BY <1>4 DEF Closed, Items
  <2> QED
    BY <1>1, <1>4, <2>1 DEF HeapOK
<1>6. FreeIsBlank'
  <2>1. ASSUME NEW m \in Ids, heap'[m].type = "free" PROVE heap'[m] = Free
    <3>1. m \notin Live
      BY <1>4, <2>1 DEF Live
    <3>2. heap'[m] = heap[m]
      BY <1>4, <3>1 DEF Closed
    <3> QED
      BY <1>1, <2>1, <3>2 DEF FreeIsBlank
  <2> QED
    BY <1>1, <1>4, <2>1 DEF FreeIsBlank, Free
<1>7. Upward'
  <2>1. h \in i + 1 .. born
    BY <1>2, <1>4 DEF Closed
  <2>2. \A m \in Ids : /\ heap'[m].next \in {Null} \cup (m + 1 .. born)
                       /\ heap'[m].child \in {Null} \cup (m + 1 .. born)
    BY <1>1, <2>1 DEF Upward, Closed
  <2> QED
    BY <1>4, <2>2 DEF Upward
<1>8. ASSUME NEW m \in 1 .. born PROVE Siblings(m) \subseteq Siblings(m)'
  <2>1. /\ born <= born'
        /\ \A k \in 1 .. born : heap'[k].next = heap[k].next
    BY <1>2, <1>4 DEF Closed
  <2> QED
    BY <1>1, <1>5, <1>7, <2>1, SiblingsKept
<1>9. ASSUME NEW j \in DOMAIN stack'
      PROVE  /\ stack[j] \in Frames /\ CallOK(stack[j])
             /\ stack[j].item < i /\ stack[j].current < h
             /\ stack[j].current \in Nat /\ stack[j].item \in Nat
             /\ stack[j].head # Null
  <2>1. j \in DOMAIN stack /\ j # Len(stack)
    BY <1>3
  <2>2. /\ stack[j] \in Frames /\ CallOK(stack[j])
        /\ stack[j].head # Null /\ stack[j].current <= Top.item
        /\ stack[j].item < Top.item /\ stack[j].item \in Nat
        /\ stack[j].current \in Nat /\ Top.item \in Nat
    BY <2>1, CallsAscend
  <2> QED
    BY <2>2 DEF Closed
<1>10. CallsOK'
  <2>1. ASSUME NEW j \in DOMAIN stack', NEW f, f = stack[j]
        PROVE  CallOK(f)'
    <3>1. /\ f \in Frames /\ CallOK(f) /\ f.item < i /\ f.item \in Nat
          /\ f.head # Null
      BY <1>9, <2>1
    <3>2. f.item \in Live' /\ heap'[f.item].child = Null
      BY <1>2, <1>4, <3>1 DEF CallOK, Closed
    <3>3. /\ f.current \in Live /\ f.current \in Siblings(f.head)
          /\ heap[f.current].next = Null /\ f.head <= f.current
      BY <3>1 DEF CallOK
    <3>4. f.head \in 1 .. born
      BY <1>2, <3>1, <3>3 DEF Frames, Ids, Null
    <3>5. f.current \in Siblings(f.head)'
      BY <1>8, <3>3, <3>4
    <3>6. f.current \in Live' /\ heap'[f.current].next = Null
      BY <1>2, <1>4, <3>3 DEF Closed
    <3> QED
      BY <3>1, <3>2, <3>5, <3>6, CallKept
  <2>2. ASSUME NEW j \in DOMAIN stack', NEW f, f = stack'[j]
        PROVE  CallOK(f)'
    BY <1>3, <2>1, <2>2
  <2>3. \A j \in DOMAIN stack' : CallOK(stack[j])'
    BY <2>2
  <2>4. \A k, j \in DOMAIN stack' :
            k < j => /\ stack'[k].head # Null
                     /\ stack'[k].current <= stack'[j].item
    BY <1>1, <1>3 DEF CallsOK
  <2> QED
    BY <2>3, <2>4 DEF CallsOK
<1>11. ASSUME NEW p \in Live, p \in Ids, NEW m \in Ids,
              p = heap[m].next \/ p = heap[m].child
       PROVE  p # h
  <2>1. p # Null /\ p \in {heap[m].next, heap[m].child}
    BY <1>2, <1>11
  <2>2. m < p /\ m \in Nat /\ p \in Nat /\ m \in 1 .. p - 1
    <3>1. m < p
      BY <1>1, <2>1, PointersLive
    <3>2. m \in Nat /\ p \in Nat /\ m >= 1
      BY <1>2, <1>11 DEF Null, Ids
    <3> QED
      BY <3>1, <3>2
  <2>3. <<"sibling", m>> \in Owners(p) \/ <<"parent", m>> \in Owners(p)
    BY <1>11, <2>2, OwnersAre DEF OwnersFacts
  <2>4. <<"sibling", m>> # <<"call", t>> /\ <<"parent", m>> # <<"call", t>>
    OBVIOUS
  <2>5. \A o \in Owners(h) : o = <<"call", t>>
    BY <1>1, SoleOwner DEF Closed
  <2> QED
    BY <2>3, <2>4, <2>5
<1>12. Linked'
  <2>1. ASSUME NEW m \in Live, heap'[m].next # Null
        PROVE  heap'[heap'[m].next].prev = m
    <3> DEFINE p == heap[m].next
    <3>1. heap'[m].next = p /\ p # Null /\ m \in Ids
      BY <1>2, <2>1 DEF Closed
    <3>2. p \in Live /\ p \in Ids
      BY <1>1, <1>2, <3>1, PointersLive
    <3>3. heap[p].prev = m /\ p # h
      BY <1>1, <1>11, <3>1, <3>2 DEF Linked
    <3> QED
      BY <3>1, <3>2, <3>3 DEF Closed
  <2>2. ASSUME NEW m \in Live, NEW first \in Ids, NEW last \in Ids \cup {Null},
               heap'[m].child = first, heap'[first].prev = last
        PROVE  ListEnd(first, last)'
    <3>1. CASE m = i
      <4>1. first = h /\ last = c
        BY <1>2, <1>4, <2>2, <3>1 DEF Closed
      <4>2. h \in 1 .. born /\ c \in Siblings(h)
        BY <1>2, <1>4 DEF Closed
      <4>3. c \in Siblings(h)' /\ heap'[c].next = Null
        BY <1>2, <1>4, <1>8, <4>2 DEF Closed
      <4>4. \A j \in DOMAIN stack' : stack'[j].current # c
        BY <1>3, <1>9 DEF Closed
      <4> QED
        BY <4>1, <4>3, <4>4 DEF ListEnd
    <3>2. CASE m # i
      <4>1. heap[m].child = first /\ m \in Ids /\ first # Null
        BY <1>2, <2>2, <3>2 DEF Closed
      <4>2. first \in Live /\ first \in 1 .. born
        BY <1>1, <1>2, <4>1, PointersLive
      <4>3. first # h
        BY <1>2, <1>11, <4>1, <4>2
      <4>4. heap[first].prev = last
        BY <2>2, <4>3 DEF Closed
      <4>5. ListEnd(first, last)
        BY <1>1, <4>1, <4>4 DEF Linked
      <4>6. last \in Siblings(first)' /\ last \in 1 .. born
        BY <1>1, <1>8, <4>2, <4>5, SiblingsAre DEF ListEnd
      <4>7. heap'[last].next = Null
        BY <1>2, <4>5, <4>6 DEF ListEnd, Closed
      <4>8. \A j \in DOMAIN stack' : stack'[j].current # last
        BY <1>3, <4>5 DEF ListEnd
      <4> QED
        BY <4>6, <4>7, <4>8 DEF ListEnd
    <3> QED
      BY <3>1, <3>2
  <2> QED
    BY <1>4, <2>1, <2>2 DEF Linked
<1> QED
  BY <1>5, <1>6, <1>7, <1>10, <1>12

LEMMA CloseStep == ASSUME JsonInv, Close PROVE JsonInv'
<1> DEFINE h == Top.head
           c == Top.current
           i == Top.item
           t == Len(stack)
<1>1. /\ text' = text /\ born' = born /\ stack' = Pop /\ stack # <<>>
      /\ depth' = depth - 1 /\ item' = item /\ category' = category
      /\ require_null_terminated' = require_null_terminated
      /\ refused' = refused /\ strings' = strings
      /\ at = "true" /\ at' = at /\ offset' = Skip(offset) + 1
      /\ Char(Skip(offset)) = Closing[Top.type]
  BY DEF Close, buffer_vars
<1>2. Closed(h, c, i, t)
  BY CloseDoes
<1> HIDE DEF h, c, i, t
<1>3. /\ HeapOK' /\ FreeIsBlank' /\ Upward' /\ CallsOK' /\ Linked'
      /\ OneOwner'
  BY <1>1, <1>2, CloseShape, CloseOwners
<1>4. /\ TypeOK /\ StringsHeld /\ HeapOK /\ Progress
      /\ offset \in 0 .. Length /\ Length \in Nat /\ stack \in Seq(Frames)
      /\ text \in Seq(Characters) /\ text # <<>> /\ CallsOK
      /\ born \in Nat /\ born <= offset + 1 /\ born >= 1
  BY <1>1, TypesAre DEF JsonInv, TypeOK, Length, Progress
<1>5. Ids' = Ids /\ Length' = Length /\ Live' = Live /\ Live \subseteq Ids
  BY <1>2 DEF Closed, Live
<1>6. StringsHeld'
  <2>1. \A m \in Live : /\ heap'[m].string = heap[m].string
                        /\ heap'[m].valuestring = heap[m].valuestring
    BY <1>2, <1>5 DEF Closed
  <2> QED
    BY <1>1, <1>4, <1>5, <2>1, HeldSame
<1>7. /\ stack' \in Seq(Frames) /\ Len(stack) \in Nat
      /\ Len(stack') = Len(stack) - 1
      /\ stack' # <<>> => /\ Len(stack) - 1 \in DOMAIN stack
                          /\ Len(stack) \in DOMAIN stack
                          /\ Top' = stack[Len(stack) - 1]
  BY <1>1, <1>4, PopIs
<1>8. /\ Skip(offset) \in offset .. Length - 1 /\ Skip(offset) \in Nat
  <2>1. Skip(offset) \in offset .. Length
    BY <1>4, SkipIs
  <2>2. Skip(offset) \in Nat
    BY <1>4, <2>1
  <2>3. Top.type \in Containers
    <3>1. Top \in Frames
      BY <1>1, <1>4, TopIs
    <3> QED
      BY <3>1 DEF Frames
  <2>4. Char(Skip(offset)) # "outside"
    BY <1>1, <2>3, BracketsAre
  <2>5. Skip(offset) < Length
    BY <1>4, <2>2, <2>4, InsideText
  <2> QED
    BY <1>4, <2>1, <2>2, <2>5
<1>9. offset' \in 0 .. Length /\ offset' \in Int /\ offset <= offset'
  BY <1>1, <1>4, <1>8
<1>10. Progress' /\ ItemOK'
  <2>1. born \in Int /\ offset \in Int
    BY <1>4
  <2>2. born <= offset' + 1
    BY <1>4, <1>9, <2>1, StillWithin, Zenon
  <2>3. stack' # <<>> => Top'.head # Null
    BY <1>4, <1>7 DEF CallsOK
  <2> QED
    BY <1>1, <1>4, <2>2, <2>3 DEF Progress, ItemOK
<1>11. TypeOK'
  <2>1. offset' \in 0 .. Length' /\ at' \in Places
    BY <1>1, <1>5, <1>9 DEF Places
  <2>2. /\ depth' \in 0 .. NestingLimit /\ Len(stack') <= depth'
        /\ depth' = Len(stack')
    <3>1. depth = Len(stack) /\ Len(stack) >= 1 /\ depth \in 0 .. NestingLimit
      BY <1>1, <1>4, TopIs DEF TypeOK
    <3> QED
      BY <1>1, <1>7, <3>1, JsonParseAssumption
  <2>3. stack' \in Seq(Frames')
    BY <1>5, <1>7 DEF Frames
  <2>4. /\ item' \in Ids' \cup {Null} /\ strings' \in Nat
        /\ category' \in {"none", "commit", "info"}
    BY <1>1, <1>4, <1>5 DEF TypeOK
  <2>5. require_null_terminated' \in BOOLEAN
    BY <1>1, <1>4 DEF TypeOK
  <2>6. refused' \in BOOLEAN
    BY <1>1, <1>4 DEF TypeOK
  <2> QED
    BY <1>3, <2>1, <2>2, <2>3, <2>4, <2>5, <2>6
       DEF TypeOK, HeapOK, Items, Frames
<1> QED
  BY <1>3, <1>6, <1>10, <1>11 DEF JsonInv
-----------------------------------------------------------------------------
(***************************************************************************)
(* cJSON_Delete.  It frees what it visits: that is live, and every item of *)
(* it but the first is owned by another one.                               *)
(***************************************************************************)
Reached(V, h) ==
    /\ V \subseteq Live /\ TreeClosed(V)
    /\ IF h = Null THEN V = {} ELSE h \in V
    /\ \A p \in V :
           /\ h <= p
           /\ p # h => \E m \in V : /\ m \in 1 .. p - 1
                                    /\ heap[m].next = p \/ heap[m].child = p

LEMMA ReachedAre ==
    ASSUME HeapOK, FreeIsBlank, Upward, OneOwner, NEW h \in {Null} \cup Live
    PROVE  Reached(Visited(h), h)
<1> DEFINE V == Visited(h)
           Leads(m, p) == heap[m].next = p \/ heap[m].child = p
           S == {p \in V : p # h =>
                     \E m \in V : m \in 1 .. p - 1 /\ Leads(m, p)}
           T == {p \in 1 .. born : h <= p}
<1>1. /\ born \in Nat /\ 1 .. born \subseteq Ids /\ Ids \subseteq Nat
      /\ Live \subseteq 1 .. born /\ Live \subseteq Ids /\ Null \notin Ids
  BY BornWithin, LiveIsWithin DEF Ids, Null
<1>2. h \in 0 .. born /\ h \in Nat
  BY <1>1 DEF Null
<1>3. /\ h # Null => h \in V
      /\ V \subseteq 1 .. born /\ TreeClosed(V)
      /\ \A U : {h} \ {Null} \subseteq U /\ TreeClosed(U) => V \subseteq U
  BY <1>2, VisitedAre
<1> HIDE DEF V
<1>4. V \subseteq Live
  <2>1. TreeClosed(Live)
    BY <1>1, PointersLive DEF TreeClosed
  <2>2. {h} \ {Null} \subseteq Live
    OBVIOUS
  <2> QED
    BY <1>3, <2>1, <2>2
<1>5. V \subseteq S
  <2>1. ASSUME NEW m \in S, m \in 1 .. born, NEW p, p # Null, Leads(m, p)
        PROVE  p \in S
    <3>1. m \in V /\ p \in V
      BY <1>3, <2>1 DEF TreeClosed
    <3>2. m < p /\ p \in Nat
      BY <1>1, <2>1, PointersLive
    <3>3. m \in 1 .. p - 1
      BY <1>1, <2>1, <3>2
    <3> QED
      BY <2>1, <3>1, <3>3
  <2>2. {h} \ {Null} \subseteq S
    BY <1>3
  <2>a. \A m \in S : m \in 1 .. born =>
            \A p : p # Null /\ Leads(m, p) => p \in S
    BY <2>1
  <2> HIDE DEF S
  <2>3. TreeClosed(S)
    BY <2>a DEF TreeClosed
  <2> QED
    BY <1>3, <2>2, <2>3
<1>6. V \subseteq T
  <2>1. ASSUME NEW m \in T, NEW p, p # Null, Leads(m, p)
        PROVE  p \in T
    <3>1. m < p /\ p \in m + 1 .. born
      BY <1>1, <2>1, PointersLive
    <3> QED
      BY <1>1, <1>2, <2>1, <3>1
  <2>2. {h} \ {Null} \subseteq T
    BY <1>1, <1>2 DEF Null
  <2>a. \A m \in T : \A p : p # Null /\ Leads(m, p) => p \in T
    BY <2>1
  <2> HIDE DEF T
  <2>3. TreeClosed(T)
    BY <2>a DEF TreeClosed
  <2> QED
    BY <1>3, <2>2, <2>3
<1>a. h = Null => V = {}
  <2>1. TreeClosed({})
    BY DEF TreeClosed
  <2>2. h = Null => {h} \ {Null} \subseteq {}
    OBVIOUS
  <2> QED
    BY <1>3, <2>1, <2>2
<1>7. Reached(V, h)
  BY <1>3, <1>4, <1>5, <1>6, <1>a DEF Reached
<1> QED
  BY <1>7 DEF V

(* Nothing outside of what is deleted leads to it: what led to the first   *)
(* item is its call, and that returns.                                     *)
LEMMA NoEntry ==
    ASSUME HeapOK, Upward, OneOwner, NEW V, NEW h, NEW t, Reached(V, h),
           h # Null => <<"call", t>> \in Owners(h),
           NEW p \in V, NEW o \in Owners(p)
    PROVE  \/ p = h /\ o = <<"call", t>>
           \/ p # h /\ \E m \in V : /\ heap[m].next = p \/ heap[m].child = p
                                    /\ o = <<"sibling", m>>
                                         \/ o = <<"parent", m>>
<1>1. p \in Live
  BY DEF Reached
<1>2. CASE p = h
  <2>1. h # Null
    BY <1>1, <1>2 DEF Live, Ids, Null
  <2>2. <<"call", t>> \in Owners(p)
    BY <1>2, <2>1
  <2> QED
    BY <1>1, <1>2, <2>2, SoleOwner
<1>3. CASE p # h
  <2>1. PICK m \in V : /\ m \in 1 .. p - 1
                       /\ heap[m].next = p \/ heap[m].child = p
    BY <1>3 DEF Reached
  <2>2. CASE heap[m].next = p
    <3>1. <<"sibling", m>> \in Owners(p)
      BY <2>1, <2>2, OwnersAre DEF OwnersFacts
    <3>2. o = <<"sibling", m>>
      BY <1>1, <3>1, SoleOwner
    <3> QED
      BY <1>3, <2>2, <3>2
  <2>3. CASE heap[m].child = p
    <3>1. <<"parent", m>> \in Owners(p)
      BY <2>1, <2>3, OwnersAre DEF OwnersFacts
    <3>2. o = <<"parent", m>>
      BY <1>1, <3>1, SoleOwner
    <3> QED
      BY <1>3, <2>3, <3>2
  <2> QED
    BY <2>1, <2>2, <2>3
<1> QED
  BY <1>2, <1>3

(* What Delete does, item by item.                                         *)
Deleted(V) ==
    /\ Ids' = Ids /\ Length' = Length /\ born' = born
    /\ heap' \in [Ids -> Items]
    /\ \A m \in Ids : heap'[m] = IF m \in V THEN Free ELSE heap[m]
    /\ \A m : m \in Live' <=> m \in Live /\ m \notin V

LEMMA DeleteDoes ==
    ASSUME HeapOK, text' = text, born' = born, NEW h, Delete(h)
    PROVE  Deleted(Visited(h))
<1> DEFINE V == Visited(h)
<1>1. Ids' = Ids /\ Length' = Length
  BY DEF Ids, Length
<1>2. heap' = [m \in Ids |-> IF m \in V THEN Free ELSE heap[m]]
  BY DEF Delete
<1> HIDE DEF V
<1>3. Free \in Items /\ Free.type = "free"
  BY DEF Free, Items
<1>4. heap' \in [Ids -> Items]
  BY <1>2, <1>3 DEF HeapOK
<1>5. \A m \in Ids : heap'[m] = IF m \in V THEN Free ELSE heap[m]
  BY <1>2
<1>6. \A m : m \in Live' <=> m \in Live /\ m \notin V
  BY <1>1, <1>3, <1>5 DEF Live
<1>7. Deleted(V)
  BY <1>1, <1>4, <1>5, <1>6 DEF Deleted
<1> QED
  BY <1>7 DEF V

LEMMA DeletedShape ==
    ASSUME HeapOK, FreeIsBlank, Upward, text' = text, NEW V, Deleted(V)
    PROVE  HeapOK' /\ FreeIsBlank' /\ Upward'
<1>1. HeapOK'
  <2>1. heap' \in [Ids' -> Items']
    BY DEF Deleted, Items
  <2> QED
    BY <2>1 DEF HeapOK, Deleted
<1>2. FreeIsBlank'
  <2>1. \A m \in Ids : heap'[m].type = "free" => heap'[m] = Free
    BY DEF FreeIsBlank, Deleted
  <2>2. \A m \in Live' : m <= born'
    BY DEF FreeIsBlank, Deleted
  <2> QED
    BY <2>1, <2>2 DEF FreeIsBlank, Deleted, Free
<1>3. Upward'
  <2>1. Free.next = Null /\ Free.child = Null
    BY DEF Free
  <2> QED
    BY <2>1 DEF Upward, Deleted
<1> QED
  BY <1>1, <1>2, <1>3

(* The strings that the deleted items held are free as well.               *)
LEMMA DeletedStrings ==
    ASSUME HeapOK, StringsHeld, NEW V, V \subseteq Live, Deleted(V),
           strings' = strings - Held(V)
    PROVE  StringsHeld' /\ strings' \in Nat
<1> DEFINE A == Named(Live)
           B == Valued(Live)
           C == Named(V)
           D == Valued(V)
           E == Named(Live)'
           F == Valued(Live)'
<1>1. A \in SUBSET Live /\ B \in SUBSET Live /\ C \subseteq A /\ D \subseteq B
  BY DEF Named, Valued
<1>2. \A n : n \in E <=> n \in A /\ n \notin C
  BY DEF Named, Deleted, Live
<1>3. \A n : n \in F <=> n \in B /\ n \notin D
  BY DEF Valued, Deleted, Live
<1>4. /\ Held(Live) = Cardinality(A) + Cardinality(B)
      /\ Held(V) = Cardinality(C) + Cardinality(D)
  BY HeldIs
<1>5. Held(Live)' = Cardinality(E) + Cardinality(F)
  BY HeldPrimed
<1> HIDE DEF A, B, C, D, E, F
<1>6. /\ IsFiniteSet(A) /\ IsFiniteSet(B)
      /\ Cardinality(A) \in Nat /\ Cardinality(B) \in Nat
  BY <1>1, LiveFinite
<1>7. E = A \ C /\ F = B \ D /\ A \cap C = C /\ B \cap D = D
  BY <1>1, <1>2, <1>3
<1>8. /\ IsFiniteSet(E) /\ Cardinality(E) = Cardinality(A) - Cardinality(C)
  BY <1>6, <1>7, FS_Difference
<1>9. /\ IsFiniteSet(F) /\ Cardinality(F) = Cardinality(B) - Cardinality(D)
  BY <1>6, <1>7, FS_Difference
<1>10. IsFiniteSet(C) /\ IsFiniteSet(D)
  BY <1>1, <1>6, FS_Subset
<1>11. /\ Cardinality(C) \in Nat /\ Cardinality(D) \in Nat
       /\ Cardinality(E) \in Nat /\ Cardinality(F) \in Nat
  BY <1>8, <1>9, <1>10, FS_CardinalityType
<1>12. /\ strings = Cardinality(A) + Cardinality(B)
       /\ strings' = strings - (Cardinality(C) + Cardinality(D))
  BY <1>4 DEF StringsHeld
<1>13. strings' = Cardinality(E) + Cardinality(F)
  BY <1>6, <1>8, <1>9, <1>11, <1>12
<1> QED
  BY <1>5, <1>11, <1>13 DEF StringsHeld

(* The call that fails returns, and its list is deleted.                   *)
LEMMA FailOwners ==
    ASSUME HeapOK, FreeIsBlank, Upward, OneOwner, stack \in Seq(Frames),
           stack # <<>>, stack' = Pop, NEW V, NEW h, NEW t,
           h = Top.head, t = Len(stack), Reached(V, h), Deleted(V)
    PROVE  OneOwner'
<1>1. /\ Live \subseteq Ids /\ Null \notin Ids /\ Ids \subseteq Nat
      /\ V \subseteq Live
  BY LiveIsWithin DEF Ids, Null, Reached
<1>2. \A p \in Ids : 1 .. p - 1 \subseteq Ids
  BY BornWithin DEF Ids
<1>3. /\ t \in DOMAIN stack /\ stack[t].head = h
      /\ \A j : j \in DOMAIN stack' <=> j \in DOMAIN stack /\ j # t
      /\ \A j \in DOMAIN stack' : stack'[j] = stack[j]
  BY PopIs, TopIs DEF Top
<1>4. <<"call", t>> \in Owners(h)
  BY <1>3, OwnersAre DEF OwnersFacts
<1>5. Free.next = Null /\ Free.child = Null
  BY DEF Free
<1>6. \A m \in Ids : heap'[m] = IF m \in V THEN Free ELSE heap[m]
  BY DEF Deleted
<1>7. ASSUME NEW p \in Ids, NEW o \in Owners(p)' PROVE o \in Owners(p)
  <2>1. \A m \in 1 .. p - 1 : /\ heap'[m].next = p => heap[m].next = p
                              /\ heap'[m].child = p => heap[m].child = p
    BY <1>1, <1>2, <1>5, <1>6
  <2> QED
    BY <1>3, <2>1, OwnersAre, OwnersPrimed DEF OwnersFacts
<1>8. ASSUME NEW p \in Ids, p \notin V, NEW o \in Owners(p)
      PROVE  o \in Owners(p)'
  <2>1. \A m \in 1 .. p - 1 :
            /\ heap[m].next = p \/ heap[m].child = p => m \notin V
            /\ heap[m].next = p => heap'[m].next = p
            /\ heap[m].child = p => heap'[m].child = p
    <3> TAKE m \in 1 .. p - 1
    <3>1. m \in Ids /\ p # Null
      BY <1>1, <1>2
    <3>2. heap[m].next = p \/ heap[m].child = p => m \notin V
      <4>1. V \subseteq 1 .. born
        BY LiveIsWithin DEF Reached
      <4> QED
        BY <1>8, <3>1, <4>1 DEF Reached, TreeClosed
    <3> QED
      BY <1>6, <3>1, <3>2
  <2>2. p # h
    BY <1>1, <1>8 DEF Reached
  <2>3. \A j \in DOMAIN stack : stack[j].head = p =>
            j \in DOMAIN stack' /\ stack'[j].head = p
    BY <1>3, <2>2
  <2> QED
    BY <2>1, <2>3, OwnersAre, OwnersPrimed DEF OwnersFacts
<1>9. ASSUME NEW p \in V, p # Root, NEW o \in Owners(p)' PROVE FALSE
  <2>1. p \in Ids /\ p # Null /\ o \in Owners(p)
    BY <1>1, <1>7
  <2>2. \/ p = h /\ o = <<"call", t>>
        \/ p # h /\ \E m \in V : /\ heap[m].next = p \/ heap[m].child = p
                                 /\ o = <<"sibling", m>>
                                      \/ o = <<"parent", m>>
    BY <1>4, <2>1, NoEntry
  <2>3. CASE o = <<"call", t>>
    <3>1. \A m : <<"sibling", m>> # o /\ <<"parent", m>> # o
      BY <2>3
    <3>2. \A j \in DOMAIN stack' : <<"call", j>> # o
      BY <1>3, <2>3
    <3> QED
      BY <1>9, <3>1, <3>2, OwnersPrimed DEF OwnersFacts
  <2>4. ASSUME NEW m \in V, o = <<"sibling", m>> PROVE FALSE
    <3>1. heap'[m].next # p
      BY <1>1, <1>5, <1>6, <2>1
    <3>2. \A k : <<"parent", k>> # o /\ <<"call", k>> # o
      BY <2>4
    <3>3. \A k : <<"sibling", k>> = o => k = m
      BY <2>4
    <3> QED
      BY <1>9, <3>1, <3>2, <3>3, OwnersPrimed DEF OwnersFacts
  <2>5. ASSUME NEW m \in V, o = <<"parent", m>> PROVE FALSE
    <3>1. heap'[m].child # p
      BY <1>1, <1>5, <1>6, <2>1
    <3>2. \A k : <<"sibling", k>> # o /\ <<"call", k>> # o
      BY <2>5
    <3>3. \A k : <<"parent", k>> = o => k = m
      BY <2>5
    <3> QED
      BY <1>9, <3>1, <3>2, <3>3, OwnersPrimed DEF OwnersFacts
  <2> QED
    BY <2>2, <2>3, <2>4, <2>5
<1>10. ASSUME NEW p \in Live' PROVE \E o : Owners(p)' = {o}
  <2>1. p \in Live /\ p \notin V /\ p \in Ids
    BY <1>1 DEF Deleted
  <2>2. PICK a : Owners(p) = {a}
    BY <2>1 DEF OneOwner
  <2> DEFINE B == Owners(p)'
  <2>3. \A o : o \in B <=> o = a
    BY <1>7, <1>8, <2>1, <2>2
  <2> HIDE DEF B
  <2>4. B = {a}
    BY <2>3, Zenon
  <2> QED
    BY <2>4 DEF B
<1>11. ASSUME NEW p \in Ids' \ (Live' \cup {Root}) PROVE Owners(p)' = {}
  <2>1. p \in Ids /\ p # Root /\ (p \in V \/ p \notin Live)
    BY DEF Deleted
  <2>2. CASE p \in V
    <3> DEFINE B == Owners(p)'
    <3>1. \A o \in B : FALSE
      BY <1>9, <2>1, <2>2
    <3> HIDE DEF B
    <3>2. B = {}
      BY <3>1
    <3> QED
      BY <3>2 DEF B
  <2>3. CASE p \notin Live
    <3>1. Owners(p) = {}
      BY <2>1, <2>3 DEF OneOwner
    <3> DEFINE B == Owners(p)'
    <3>2. \A o \in B : FALSE
      BY <1>7, <2>1, <3>1
    <3> HIDE DEF B
    <3>3. B = {}
      BY <3>2
    <3> QED
      BY <3>3 DEF B
  <2> QED
    BY <2>1, <2>2, <2>3
<1> QED
  BY <1>10, <1>11 DEF OneOwner, Root

LEMMA FailShape ==
    ASSUME JsonInv, text' = text, stack # <<>>, stack' = Pop,
           NEW V, NEW h, NEW t,
           h = Top.head, t = Len(stack), Reached(V, h), Deleted(V)
    PROVE  CallsOK' /\ Linked'
<1>1. /\ HeapOK /\ FreeIsBlank /\ Upward /\ OneOwner /\ CallsOK /\ Linked
      /\ stack \in Seq(Frames)
  BY TypesAre DEF JsonInv
<1>2. /\ born \in Nat /\ 1 .. born \subseteq Ids /\ Ids \subseteq Nat
      /\ Live \subseteq 1 .. born /\ Live \subseteq Ids /\ Null \notin Ids
      /\ V \subseteq Live /\ V \subseteq 1 .. born
  BY <1>1, BornWithin, LiveIsWithin DEF Ids, Null, Reached
<1>3. /\ t \in DOMAIN stack /\ stack[t].head = h
      /\ \A j : j \in DOMAIN stack' <=> j \in DOMAIN stack /\ j # t
      /\ \A j \in DOMAIN stack' : stack'[j] = stack[j]
      /\ CallOK(Top) /\ Top \in Frames
  BY <1>1, PopIs, TopIs DEF Top, CallsOK
<1>4. /\ Ids' = Ids /\ Length' = Length /\ born' = born
      /\ \A m \in Ids : heap'[m] = IF m \in V THEN Free ELSE heap[m]
      /\ \A m : m \in Live' <=> m \in Live /\ m \notin V
  BY DEF Deleted
<1>5. HeapOK' /\ Upward'
  BY <1>1, DeletedShape
<1>6. <<"call", t>> \in Owners(h)
  BY <1>3, OwnersAre DEF OwnersFacts
<1>7. ASSUME NEW m \in Ids, m \notin V, NEW p, p # Null,
             p = heap[m].next \/ p = heap[m].child
      PROVE  p \notin V
  <2> SUFFICES ASSUME p \in V PROVE FALSE
    OBVIOUS
  <2>1. p \in {heap[m].next, heap[m].child}
    BY <1>7
  <2>2. m \in 1 .. p - 1
    <3>1. m < p /\ p \in Live
      BY <1>1, <1>7, <2>1, PointersLive
    <3>2. m \in Nat /\ p \in Nat /\ m >= 1
      BY <1>2, <3>1 DEF Ids
    <3> QED
      BY <3>1, <3>2
  <2>3. ASSUME NEW o \in Owners(p),
               o = <<"sibling", m>> \/ o = <<"parent", m>>
        PROVE  FALSE
    <3>1. \/ p = h /\ o = <<"call", t>>
          \/ p # h /\ \E k \in V : /\ heap[k].next = p \/ heap[k].child = p
                                   /\ o = <<"sibling", k>>
                                        \/ o = <<"parent", k>>
      BY <1>1, <1>6, NoEntry
    <3>2. o # <<"call", t>>
      BY <2>3
    <3>3. \A k \in V : o # <<"sibling", k>> /\ o # <<"parent", k>>
      BY <1>7, <2>3
    <3> QED
      BY <3>1, <3>2, <3>3
  <2>4. CASE p = heap[m].next
    <3>1. <<"sibling", m>> \in Owners(p)
      BY <2>2, <2>4, OwnersAre DEF OwnersFacts
    <3> QED
      BY <2>3, <3>1
  <2>5. CASE p = heap[m].child
    <3>1. <<"parent", m>> \in Owners(p)
      BY <2>2, <2>5, OwnersAre DEF OwnersFacts
    <3> QED
      BY <2>3, <3>1
  <2> QED
    BY <1>7, <2>4, <2>5
<1>8. ASSUME NEW f \in 1 .. born
      PROVE  Siblings(f) \subseteq V \cup Siblings(f)'
  <2>1. SiblingsFacts'
    BY <1>5, SiblingsPrimed
  <2> DEFINE T == V \cup Siblings(f)'
  <2>2. f \in T
    BY <1>4, <2>1 DEF SiblingsFacts
  <2>3. ASSUME NEW m \in T, m \in 1 .. born, heap[m].next # Null
        PROVE  heap[m].next \in T
    <3>1. CASE m \in V
      BY <2>3, <3>1 DEF Reached, TreeClosed
    <3>2. CASE m \notin V
      <4>1. m \in Siblings(f)' /\ heap'[m].next = heap[m].next
        BY <1>2, <1>4, <2>3, <3>2
      <4>2. SiblingsClosed(Siblings(f))' /\ m \in 1 .. born'
        BY <1>4, <2>1, <2>3 DEF SiblingsFacts
      <4> QED
        BY <2>3, <4>1, <4>2 DEF SiblingsClosed
    <3> QED
      BY <3>1, <3>2
  <2> HIDE DEF T
  <2>4. SiblingsClosed(T)
    BY <2>3 DEF SiblingsClosed
  <2>5. Siblings(f) \subseteq T
    BY <1>1, <2>2, <2>4, SiblingsAre
  <2> QED
    BY <2>5 DEF T
<1>9. ASSUME NEW j \in DOMAIN stack'
      PROVE  /\ stack[j] \in Frames /\ CallOK(stack[j])
             /\ stack[j].item \notin V /\ stack[j].current \notin V
             /\ stack[j].head # Null
  <2>1. j \in DOMAIN stack /\ j # Len(stack)
    BY <1>3
  <2>2. /\ stack[j] \in Frames /\ CallOK(stack[j])
        /\ stack[j].head # Null /\ stack[j].current <= Top.item
        /\ stack[j].item < Top.item /\ stack[j].item \in Nat
        /\ stack[j].current \in Nat /\ Top.item \in Nat
    BY <2>1, CallsAscend
  <2>3. ASSUME NEW p \in V PROVE Top.item < p
    <3>1. h # Null /\ p \in Nat
      BY <1>2 DEF Reached
    <3>2. Top.item < h /\ h <= p /\ h \in Nat
      BY <1>3, <3>1 DEF CallOK, Frames, Ids, Null, Reached
    <3> QED
      BY <2>2, <3>1, <3>2
  <2> QED
    BY <2>2, <2>3
<1>10. CallsOK'
  <2>1. ASSUME NEW j \in DOMAIN stack', NEW f, f = stack[j]
        PROVE  CallOK(f)'
    <3>1. /\ f \in Frames /\ CallOK(f) /\ f.head # Null
          /\ f.item \notin V /\ f.current \notin V
      BY <1>9, <2>1
    <3>2. f.item \in Live' /\ heap'[f.item].child = Null
      BY <1>2, <1>4, <3>1 DEF CallOK
    <3>3. /\ f.current \in Live /\ f.current \in Siblings(f.head)
          /\ heap[f.current].next = Null /\ f.head <= f.current
      BY <3>1 DEF CallOK
    <3>4. f.head \in 1 .. born
      BY <1>2, <3>1, <3>3 DEF Frames, Ids, Null
    <3>5. f.current \in Siblings(f.head)'
      BY <1>8, <3>1, <3>3, <3>4
    <3>6. f.current \in Live' /\ heap'[f.current].next = Null
      BY <1>2, <1>4, <3>1, <3>3
    <3> QED
      BY <3>1, <3>2, <3>5, <3>6, CallKept
  <2>2. ASSUME NEW j \in DOMAIN stack', NEW f, f = stack'[j]
        PROVE  CallOK(f)'
    BY <1>3, <2>1, <2>2
  <2>3. \A j \in DOMAIN stack' : CallOK(stack[j])'
    BY <2>2
  <2>4. \A k, j \in DOMAIN stack' :
            k < j => /\ stack'[k].head # Null
                     /\ stack'[k].current <= stack'[j].item
    BY <1>1, <1>3 DEF CallsOK
  <2> QED
    BY <2>3, <2>4 DEF CallsOK
<1>11. Linked'
  <2>1. ASSUME NEW m \in Live', heap'[m].next # Null
        PROVE  heap'[heap'[m].next].prev = m
    <3> DEFINE p == heap[m].next
    <3>1. m \in Live /\ m \in Ids /\ m \notin V /\ heap'[m].next = p
      BY <1>2, <1>4
    <3>2. p # Null /\ p \in Ids /\ p \notin V
      <4>1. p # Null
        BY <2>1, <3>1
      <4>2. p \in Live
        BY <1>1, <3>1, <4>1, PointersLive
      <4> QED
        BY <1>2, <1>7, <3>1, <4>1, <4>2
    <3>3. heap[p].prev = m
      BY <1>1, <3>1, <3>2 DEF Linked
    <3> HIDE DEF p
    <3> QED
      BY <1>4, <3>1, <3>2, <3>3
  <2>2. ASSUME NEW m \in Live', NEW first \in Ids, NEW last \in Ids \cup {Null},
               heap'[m].child = first, heap'[first].prev = last
        PROVE  ListEnd(first, last)'
    <3>1. /\ m \in Live /\ m \in Ids /\ m \notin V /\ first # Null
          /\ heap[m].child = first
      BY <1>2, <1>4, <2>2
    <3>2. first \in Live /\ first \in 1 .. born /\ first \notin V
      BY <1>1, <1>2, <1>7, <3>1, PointersLive
    <3>3. heap[first].prev = last
      BY <1>4, <2>2, <3>2
    <3>4. ListEnd(first, last)
      BY <1>1, <3>1, <3>3 DEF Linked
    <3>5. last \in Siblings(first) /\ Siblings(first) \subseteq 1 .. born
      BY <1>1, <3>2, <3>4, SiblingsAre DEF ListEnd
    <3>6. last \notin V
      <4> DEFINE S == Siblings(first) \ V
      <4>1. first \in S
        BY <1>1, <3>2, SiblingsAre
      <4>2. ASSUME NEW n \in S, n \in 1 .. born, heap[n].next # Null
            PROVE  heap[n].next \in S
        <5>1. heap[n].next \in Siblings(first)
          BY <1>1, <3>2, <4>2, SiblingsAre DEF SiblingsClosed
        <5>2. heap[n].next \notin V
          BY <1>2, <1>7, <4>2
        <5> QED
          BY <5>1, <5>2
      <4> HIDE DEF S
      <4>3. SiblingsClosed(S)
        BY <4>2 DEF SiblingsClosed
      <4>4. Siblings(first) \subseteq S
        BY <1>1, <3>2, <4>1, <4>3, SiblingsAre
      <4> QED
        BY <3>5, <4>4 DEF S
    <3>7. last \in Siblings(first)'
      BY <1>8, <3>2, <3>5, <3>6
    <3>8. heap'[last].next = Null
      BY <1>2, <1>4, <3>4, <3>5, <3>6 DEF ListEnd
    <3>9. \A j \in DOMAIN stack' : stack'[j].current # last
      BY <1>3, <3>4 DEF ListEnd
    <3> QED
      BY <3>7, <3>8, <3>9 DEF ListEnd
  <2> QED
    BY <1>4, <2>1, <2>2 DEF Linked
<1> QED
  BY <1>10, <1>11

LEMMA FailStep == ASSUME JsonInv, Fail PROVE JsonInv'
<1> DEFINE h == Top.head
           t == Len(stack)
           V == Visited(h)
<1>1. /\ text' = text /\ born' = born /\ stack' = Pop /\ stack # <<>>
      /\ depth' = depth /\ item' = item /\ category' = category
      /\ require_null_terminated' = require_null_terminated
      /\ refused' = refused /\ offset' = offset
      /\ at \in {"fail", "false"} /\ at' = "false"
      /\ Delete(h) /\ strings' = strings - Held(V)
  BY DEF Fail, buffer_vars, Delete
<1>2. /\ TypeOK /\ StringsHeld /\ HeapOK /\ Progress
      /\ FreeIsBlank /\ Upward /\ OneOwner /\ stack \in Seq(Frames)
      /\ born >= 1 /\ CallsOK
  BY <1>1, TypesAre DEF JsonInv, Progress
<1>3. h \in {Null} \cup Live
  <2>1. /\ t \in DOMAIN stack /\ stack[t].head = h /\ Top \in Frames
    BY <1>1, <1>2, TopIs DEF Top
  <2>2. <<"call", t>> \in Owners(h)
    BY <2>1, OwnersAre DEF OwnersFacts
  <2>3. CASE h # Null
    <3>1. h \in Ids
      BY <2>1, <2>3 DEF Frames
    <3>2. h # Root
      <4>1. CallOK(Top)
        BY <1>2, <2>1 DEF CallsOK, Top
      <4>2. Top.item < h /\ Top.item \in Nat /\ Top.item >= 1
        BY <2>1, <2>3, <4>1 DEF CallOK, Frames, Ids
      <4> HIDE DEF h
      <4> QED
        BY <3>1, <4>2 DEF Root, Ids
    <3> QED
      BY <1>2, <2>2, <3>1, <3>2 DEF OneOwner
  <2> QED
    BY <2>3
<1>4. Reached(V, h)
  BY <1>2, <1>3, ReachedAre
<1>5. Deleted(V)
  BY <1>1, <1>2, DeleteDoes
<1> HIDE DEF V
<1>6. HeapOK' /\ FreeIsBlank' /\ Upward'
  BY <1>1, <1>2, <1>5, DeletedShape
<1>7. OneOwner'
  <2> DEFINE k == Len(stack)
  <2>1. h = Top.head /\ k = Len(stack)
    OBVIOUS
  <2> HIDE DEF h, k
  <2> QED
    BY <1>1, <1>2, <1>4, <1>5, <2>1, FailOwners
<1>8. CallsOK' /\ Linked'
  <2> DEFINE k == Len(stack)
  <2>1. h = Top.head /\ k = Len(stack)
    OBVIOUS
  <2> HIDE DEF h, k
  <2> QED
    BY <1>1, <1>2, <1>4, <1>5, <2>1, FailShape
<1>9. StringsHeld' /\ strings' \in Nat
  BY <1>1, <1>2, <1>4, <1>5, DeletedStrings DEF Reached
<1>10. Progress' /\ ItemOK'
  BY <1>1, <1>2 DEF Progress, ItemOK
<1>11. TypeOK'
  <2>1. /\ stack' \in Seq(Frames) /\ Len(stack) \in Nat
        /\ Len(stack') = Len(stack) - 1
    BY <1>1, <1>2, PopIs
  <2>2. /\ offset' \in 0 .. Length' /\ at' \in Places
        /\ depth' \in 0 .. NestingLimit /\ Len(stack') <= depth'
    <3>1. Len(stack) <= depth /\ depth \in Int /\ Length' = Length
      BY <1>2, <1>5, JsonParseAssumption DEF TypeOK, Deleted
    <3>2. Len(stack') <= depth'
      BY <1>1, <2>1, <3>1
    <3>3. offset' \in 0 .. Length' /\ depth' \in 0 .. NestingLimit
      BY <1>1, <1>2, <3>1 DEF TypeOK
    <3> QED
      BY <1>1, <3>2, <3>3 DEF Places
  <2>3. Ids' = Ids
    BY <1>5 DEF Deleted
  <2>4. stack' \in Seq(Frames')
    BY <2>1, <2>3 DEF Frames
  <2>5. /\ item' \in Ids' \cup {Null}
        /\ category' \in {"none", "commit", "info"}
    BY <1>1, <1>2, <2>3 DEF TypeOK
  <2>6. require_null_terminated' \in BOOLEAN
    BY <1>1, <1>2 DEF TypeOK
  <2>7. refused' \in BOOLEAN
    BY <1>1, <1>2 DEF TypeOK
  <2> QED
    BY <1>1, <1>6, <1>9, <2>2, <2>4, <2>5, <2>6, <2>7
       DEF TypeOK, HeapOK, Items, Frames
<1> QED
  BY <1>6, <1>7, <1>8, <1>9, <1>10, <1>11 DEF JsonInv

(* When no call is under way everything that is live hangs from the root:  *)
(* the first item that did not would be owned by one before it.            *)
LEMMA AllVisited ==
    ASSUME HeapOK, FreeIsBlank, Upward, OneOwner, stack = <<>>, born >= 1
    PROVE  Live \subseteq Visited(Root)
<1> DEFINE V == Visited(Root)
           Bad == Live \ V
<1>1. /\ born \in Nat /\ 1 .. born \subseteq Ids /\ Ids \subseteq Nat
      /\ Live \subseteq 1 .. born /\ Live \subseteq Ids /\ Null \notin Ids
  BY BornWithin, LiveIsWithin DEF Ids, Null
<1>2. Root \in V /\ TreeClosed(V) /\ V \subseteq 1 .. born
  <2>1. Root \in 0 .. born /\ Root # Null
    BY <1>1 DEF Root, Null
  <2> QED
    BY <2>1, VisitedAre
<1> HIDE DEF V
<1>3. SUFFICES ASSUME Bad # {} PROVE FALSE
  BY DEF V
<1>4. PICK p \in Bad : \A k \in Bad : p <= k
  <2>1. Bad \in SUBSET Nat
    BY <1>1
  <2> HIDE DEF Bad
  <2> QED
    BY <1>3, <2>1, Least
<1>5. p \in Live /\ p \in Ids /\ p \in Nat /\ p # Root /\ p \notin V
  BY <1>1, <1>2
<1>6. ASSUME NEW m \in 1 .. p - 1, heap[m].next = p \/ heap[m].child = p
      PROVE  FALSE
  <2>1. m \in Ids /\ m < p /\ m \in Nat
    BY <1>1, <1>5 DEF Ids
  <2>2. m \in Live
    <3>1. p # Null
      BY <1>1, <1>5
    <3>2. heap[m] # Free
      BY <1>6, <3>1 DEF Free
    <3> QED
      BY <2>1, <3>2 DEF FreeIsBlank, Live
  <2>3. m \in V
    BY <1>4, <2>1, <2>2
  <2>4. p \in V
    BY <1>1, <1>2, <1>5, <1>6, <2>3 DEF TreeClosed
  <2> QED
    BY <1>5, <2>4
<1>7. Owners(p) # {}
  BY <1>5 DEF OneOwner
<1> QED
  BY <1>5, <1>6, <1>7, OwnersAre DEF OwnersFacts

LEMMA RootDeleted ==
    ASSUME JsonInv, stack = <<>>, born >= 1, text' = text, born' = born,
           stack' = stack, Delete(Root)
    PROVE  /\ HeapOK' /\ FreeIsBlank' /\ Upward' /\ OneOwner' /\ CallsOK'
           /\ Linked' /\ StringsHeld' /\ strings' = 0
           /\ Live' = {} /\ Ids' = Ids /\ Length' = Length
<1> DEFINE V == Visited(Root)
<1>1. /\ HeapOK /\ FreeIsBlank /\ Upward /\ OneOwner /\ StringsHeld
  BY TypesAre DEF JsonInv
<1>2. Live \subseteq V
  BY <1>1, AllVisited
<1>3. strings' = strings - Held(V)
  BY DEF Delete
<1>4. Deleted(V)
  BY <1>1, DeleteDoes
<1> HIDE DEF V
<1>5. HeapOK' /\ FreeIsBlank' /\ Upward'
  BY <1>1, <1>4, DeletedShape
<1>6. Live' = {} /\ Ids' = Ids /\ Length' = Length
  BY <1>2, <1>4 DEF Deleted
<1>7. \A n \in Ids : heap'[n] = Free
  BY <1>5, <1>6 DEF FreeIsBlank, Live
<1>8. Held(V) = Held(Live)
  <2>1. V \subseteq Ids
    <3>1. Root \in 0 .. born
      BY <1>1, BornWithin DEF Root
    <3> QED
      BY <1>1, <3>1, VisitedAre, BornWithin DEF V
  <2>2. \A n \in V : n \in Live \/ heap[n] = Free
    BY <1>1, <2>1 DEF FreeIsBlank, Live
  <2>3. Free.string = Absent /\ Free.valuestring = Absent
    BY DEF Free
  <2>4. /\ \A n : n \in Named(V) <=> n \in Named(Live)
        /\ \A n : n \in Valued(V) <=> n \in Valued(Live)
    BY <1>2, <2>2, <2>3 DEF Named, Valued
  <2> DEFINE A == Named(Live)
             B == Valued(Live)
             C == Named(V)
             D == Valued(V)
  <2>5. /\ Held(Live) = Cardinality(A) + Cardinality(B)
        /\ Held(V) = Cardinality(C) + Cardinality(D)
    BY HeldIs
  <2>6. (\A n : n \in C <=> n \in A) /\ (\A n : n \in D <=> n \in B)
    BY <2>4
  <2> HIDE DEF A, B, C, D
  <2>7. C = A /\ D = B
    BY <2>6
  <2> QED
    BY <2>5, <2>7
<1>9. strings' = 0
  <2>1. strings \in Nat /\ strings = Held(Live)
    BY <1>1 DEF JsonInv, TypeOK, StringsHeld
  <2> QED
    BY <1>3, <1>8, <2>1
<1>10. StringsHeld'
  <2>1. Held(Live)' = 0
    <3>1. \A n \in Live' : FALSE
      BY <1>6
    <3> QED
      BY <3>1, NothingHeldPrimed DEF NothingHeldFact
  <2> QED
    BY <1>9, <2>1 DEF StringsHeld
<1>11. OneOwner'
  <2>1. ASSUME NEW n \in Ids, n # Root PROVE Owners(n)' = {}
    <3>1. 1 .. n - 1 \subseteq Ids /\ n # Null
      BY <1>1, BornWithin DEF Ids, Null
    <3>2. \A m \in 1 .. n - 1 : heap'[m].next # n /\ heap'[m].child # n
      BY <1>7, <3>1 DEF Free
    <3>3. DOMAIN stack' = {}
      OBVIOUS
    <3> DEFINE B == Owners(n)'
    <3>4. \A o : o \notin B
      BY <2>1, <3>2, <3>3, OwnersPrimed DEF OwnersFacts
    <3> HIDE DEF B
    <3>5. B = {}
      BY <3>4
    <3> QED
      BY <3>5 DEF B
  <2> QED
    BY <1>6, <2>1 DEF OneOwner, Root
<1>12. CallsOK' /\ Linked'
  BY <1>6 DEF CallsOK, Linked
<1> QED
  BY <1>5, <1>6, <1>9, <1>10, <1>11, <1>12

LEMMA RejectStep == ASSUME JsonInv, Reject PROVE JsonInv'
<1>1. /\ text' = text /\ born' = born /\ stack' = stack /\ stack = <<>>
      /\ depth' = depth /\ item' = item /\ category' = category
      /\ require_null_terminated' = require_null_terminated
      /\ refused' = refused
      /\ at \in {"true", "false"} /\ at' = "rejected" /\ Delete(Root)
      /\ offset' \in {offset, Skip(offset)}
  BY DEF Reject, buffer_vars
<1>2. /\ TypeOK /\ born >= 1 /\ offset \in 0 .. Length
      /\ text \in Seq(Characters) /\ text # <<>> /\ Length \in Nat
  BY <1>1 DEF JsonInv, Progress, TypeOK, Length
<1>3. /\ HeapOK' /\ FreeIsBlank' /\ Upward' /\ OneOwner' /\ CallsOK'
      /\ Linked' /\ StringsHeld' /\ strings' = 0
      /\ Live' = {} /\ Ids' = Ids /\ Length' = Length
  BY <1>1, <1>2, RootDeleted
<1>4. Progress' /\ ItemOK'
  BY <1>1, <1>3 DEF Progress, ItemOK
<1>5. TypeOK'
  <2>1. /\ offset' \in 0 .. Length' /\ at' \in Places
        /\ depth' \in 0 .. NestingLimit /\ Len(stack') <= depth'
    <3>1. Skip(offset) \in 0 .. Length
      <4>1. Skip(offset) \in offset .. Length
        BY <1>2, SkipIs
      <4> QED
        BY <1>2, <4>1
    <3>2. offset' \in 0 .. Length'
      BY <1>1, <1>2, <1>3, <3>1
    <3>3. depth' \in 0 .. NestingLimit /\ Len(stack') <= depth'
      BY <1>1, <1>2 DEF TypeOK
    <3> QED
      BY <1>1, <3>2, <3>3 DEF Places
  <2>2. stack' \in Seq(Frames')
    BY <1>1
  <2>3. /\ item' \in Ids' \cup {Null} /\ strings' \in Nat
        /\ category' \in {"none", "commit", "info"}
    BY <1>1, <1>2, <1>3 DEF TypeOK
  <2>4. require_null_terminated' \in BOOLEAN
    BY <1>1, <1>2 DEF TypeOK
  <2>5. refused' \in BOOLEAN
    BY <1>1, <1>2 DEF TypeOK
  <2> QED
    BY <1>1, <1>3, <2>1, <2>2, <2>3, <2>4, <2>5
       DEF TypeOK, HeapOK, Items, Frames
<1> QED
  BY <1>3, <1>4, <1>5 DEF JsonInv

LEMMA CategorizeStep == ASSUME JsonInv, Categorize PROVE JsonInv'
<1>1. /\ text' = text /\ born' = born /\ stack' = stack
      /\ depth' = depth /\ item' = item /\ category' \in {"commit", "info"}
      /\ require_null_terminated' = require_null_terminated
      /\ refused' = refused
      /\ at = "accepted" /\ at' = "deleted" /\ Delete(Root)
      /\ offset' = offset
  BY DEF Categorize, buffer_vars
<1>2. /\ TypeOK /\ born >= 1 /\ stack = <<>>
  BY <1>1 DEF JsonInv, Progress
<1>3. /\ HeapOK' /\ FreeIsBlank' /\ Upward' /\ OneOwner' /\ CallsOK'
      /\ Linked' /\ StringsHeld' /\ strings' = 0
      /\ Live' = {} /\ Ids' = Ids /\ Length' = Length
  BY <1>1, <1>2, RootDeleted
<1>4. Progress' /\ ItemOK'
  BY <1>1, <1>2, <1>3 DEF Progress, ItemOK
<1>5. TypeOK'
  <2>1. /\ offset' \in 0 .. Length' /\ at' \in Places
        /\ depth' \in 0 .. NestingLimit /\ Len(stack') <= depth'
    BY <1>1, <1>2, <1>3 DEF TypeOK, Places
  <2>2. stack' \in Seq(Frames')
    BY <1>1, <1>2
  <2>3. /\ item' \in Ids' \cup {Null} /\ strings' \in Nat
        /\ category' \in {"none", "commit", "info"}
    BY <1>1, <1>2, <1>3 DEF TypeOK
  <2>4. require_null_terminated' \in BOOLEAN
    BY <1>1, <1>2 DEF TypeOK
  <2>5. refused' \in BOOLEAN
    BY <1>1, <1>2 DEF TypeOK
  <2> QED
    BY <1>1, <1>3, <2>1, <2>2, <2>3, <2>4, <2>5
       DEF TypeOK, HeapOK, Items, Frames
<1> QED
  BY <1>3, <1>4, <1>5 DEF JsonInv

LEMMA CategorizeFailureStep ==
    ASSUME JsonInv, CategorizeFailure PROVE JsonInv'
<1>1. /\ text' = text /\ born' = born /\ stack' = stack /\ heap' = heap
      /\ depth' = depth /\ item' = item /\ category' = "info"
      /\ require_null_terminated' = require_null_terminated
      /\ refused' = refused /\ strings' = strings
      /\ at = "rejected" /\ at' = "deleted" /\ offset' = offset
  BY DEF CategorizeFailure, buffer_vars
<1>2. /\ TypeOK /\ stack = <<>> /\ StringsHeld /\ Live = {}
  BY <1>1 DEF JsonInv, Progress
<1>3. HeapOK' /\ PointersKept
  BY <1>1, SameKeeps
<1>4. /\ FreeIsBlank' /\ Upward' /\ OneOwner' /\ CallsOK' /\ Linked'
      /\ Ids' = Ids /\ Live' = Live /\ Length' = Length
  BY <1>3, ShapeKept
<1>5. StringsHeld'
  BY <1>1, <1>2, <1>4, HeldSame
<1>6. Progress' /\ ItemOK'
  BY <1>1, <1>2, <1>4 DEF Progress, ItemOK
<1>7. TypeOK'
  <2>1. /\ offset' \in 0 .. Length' /\ at' \in Places
        /\ depth' \in 0 .. NestingLimit /\ Len(stack') <= depth'
    BY <1>1, <1>2, <1>4 DEF TypeOK, Places
  <2>2. stack' \in Seq(Frames')
    BY <1>1, <1>2
  <2>3. /\ item' \in Ids' \cup {Null} /\ strings' \in Nat
        /\ category' \in {"none", "commit", "info"}
    BY <1>1, <1>2, <1>4 DEF TypeOK
  <2>4. require_null_terminated' \in BOOLEAN
    BY <1>1, <1>2 DEF TypeOK
  <2>5. refused' \in BOOLEAN
    BY <1>1, <1>2 DEF TypeOK
  <2> QED
    BY <1>1, <1>3, <2>1, <2>2, <2>3, <2>4, <2>5
       DEF TypeOK, HeapOK, Items, Frames
<1> QED
  BY <1>4, <1>5, <1>6, <1>7 DEF JsonInv
-----------------------------------------------------------------------------
(***************************************************************************)
(* The theorems.                                                           *)
(***************************************************************************)
LEMMA JsonInvInit == ASSUME Init PROVE JsonInv
<1>1. /\ text \in Seq(Characters) /\ text # <<>>
      /\ require_null_terminated \in BOOLEAN
      /\ offset = 0 /\ depth = 0 /\ heap = [n \in Ids |-> Free] /\ born = 0
      /\ strings = 0 /\ stack = <<>> /\ item = Null
      /\ at = "start" /\ category = "none"
      /\ refused = FALSE
  BY JsonParseAssumption DEF Init
<1>2. /\ Length \in Nat /\ Ids \subseteq Nat /\ Null \notin Ids
      /\ Free \in Items /\ Free.type = "free" /\ Free.next = Null
      /\ Free.child = Null
  BY <1>1 DEF Length, Ids, Null, Free, Items
<1>3. /\ heap \in [Ids -> Items] /\ Live = {}
      /\ \A n \in Ids : heap[n] = Free
  BY <1>1, <1>2 DEF Live
<1>4. TypeOK
  <2>1. /\ offset \in 0 .. Length /\ depth \in 0 .. NestingLimit
        /\ born \in 0 .. Length + 1 /\ Len(stack) <= depth
        /\ depth = Len(stack) /\ strings \in Nat
    BY <1>1, <1>2, JsonParseAssumption
  <2>2. stack \in Seq(Frames)
    BY <1>1
  <2>3. refused \in BOOLEAN
    BY <1>1
  <2> QED
    BY <1>1, <1>3, <2>1, <2>2, <2>3 DEF TypeOK, Items, Frames, Places
<1>5. FreeIsBlank /\ Upward
  BY <1>2, <1>3 DEF FreeIsBlank, Upward
<1>6. OneOwner
  <2>1. ASSUME NEW n \in Ids, n # Root PROVE Owners(n) = {}
    <3>1. 1 .. n - 1 \subseteq Ids
      BY <1>2 DEF Ids
    <3>2. \A m \in 1 .. n - 1 : heap[m].next # n /\ heap[m].child # n
      BY <1>2, <1>3, <3>1
    <3>3. \A o : o \notin Owners(n)
      BY <1>1, <2>1, <3>2, OwnersAre DEF OwnersFacts
    <3> QED
      BY <3>3
  <2> QED
    BY <1>3, <2>1 DEF OneOwner
<1>7. CallsOK /\ ItemOK /\ Progress /\ Linked
  BY <1>1, <1>3 DEF CallsOK, ItemOK, Progress, Linked
<1>8. StringsHeld
  BY <1>1, <1>3, NothingHeld DEF StringsHeld
<1> QED
  BY <1>1, <1>4, <1>5, <1>6, <1>7, <1>8 DEF JsonInv

LEMMA JsonInvStutter == ASSUME JsonInv, UNCHANGED vars PROVE JsonInv'
<1>1. /\ text' = text /\ born' = born /\ stack' = stack /\ heap' = heap
      /\ depth' = depth /\ item' = item /\ category' = category
      /\ require_null_terminated' = require_null_terminated
      /\ refused' = refused /\ strings' = strings
      /\ at' = at /\ offset' = offset
  BY DEF vars, buffer_vars
<1>2. /\ TypeOK /\ StringsHeld /\ Progress /\ ItemOK
  BY DEF JsonInv
<1>3. HeapOK' /\ PointersKept
  BY <1>1, SameKeeps
<1>4. Live' = Live /\ Length' = Length
  BY <1>3, ShapeKept
<1>5. StringsHeld'
  BY <1>1, <1>2, <1>4, HeldSame
<1>6. Progress'
  BY <1>1, <1>2, <1>4 DEF Progress, Top
<1>7. ItemOK'
  BY <1>1, <1>2, <1>4 DEF ItemOK, Top
<1>8. /\ offset' \in 0 .. Length /\ strings' \in Nat /\ at' \in Places
  BY <1>1, <1>2 DEF TypeOK
<1>9. refused' \in BOOLEAN
  BY <1>1, <1>2 DEF TypeOK
<1> QED
  BY <1>1, <1>3, <1>5, <1>6, <1>7, <1>8, <1>9, CalmStep

LEMMA JsonInvNext == ASSUME JsonInv, [Next]_vars PROVE JsonInv'
<1>1. CASE UNCHANGED vars
  BY <1>1, JsonInvStutter
<1>2. CASE Next
  BY <1>1, <1>2, StartStep, LiteralStep, NumberStep, StringStep, NoValueStep,
     ContainerStep, NewElementStep, NoNameStep, NameStep, CloseStep,
     AfterElementStep, FailStep, AcceptStep, RejectStep, CategorizeStep,
     CategorizeFailureStep DEF Next, Ended
<1> QED
  BY <1>1, <1>2

(* Every step of the parser and of the consumer around it, whatever the    *)
(* text and whichever allocation fails, keeps the heap, the calls under    *)
(* way and the offset in the order that JsonInv describes.                 *)
THEOREM JsonInvariant == Spec => []JsonInv
<1>1. Init => JsonInv
  BY JsonInvInit
<1>2. JsonInv /\ [Next]_vars => JsonInv'
  BY JsonInvNext
<1> QED
  BY <1>1, <1>2, PTL DEF Spec

(* The parser's variables keep their types, whatever the text: the offset  *)
(* never leaves it, the items are never more than its characters and one,  *)
(* and the calls under way never more than the nesting limit.              *)
THEOREM JsonTypeCorrect == Spec => []TypeOK
<1>1. JsonInv => TypeOK
  BY DEF JsonInv
<1> QED
  BY <1>1, JsonInvariant, PTL

(* Every item has one owner and every string is held by an item at each    *)
(* moment of any parse: whichever allocation fails and however deep,       *)
(* cJSON_Delete frees all of what was built and nothing twice, and nothing *)
(* is left when the consumer has done with the text.                       *)
THEOREM JsonItemsOwned == Spec => []EveryItemOwned
<1>1. ASSUME JsonInv PROVE EveryItemOwned
  <2>1. \A n \in Live : Cardinality(Owners(n)) = 1
    <3> TAKE n \in Live
    <3>1. PICK o : Owners(n) = {o}
      BY <1>1 DEF JsonInv, OneOwner
    <3>2. Cardinality({o}) = 1
      BY FS_Singleton
    <3> QED
      BY <3>1, <3>2
  <2>2. \A n \in Ids \ (Live \cup {Root}) : Owners(n) = {}
    BY <1>1 DEF JsonInv, OneOwner
  <2>3. strings = Held(Live) /\ (at = "deleted" => Live = {})
    BY <1>1 DEF JsonInv, StringsHeld, Progress
  <2> QED
    BY <2>1, <2>2, <2>3 DEF EveryItemOwned
<1>2. JsonInv => EveryItemOwned
  BY <1>1
<1> QED
  BY <1>2, JsonInvariant, PTL

(* The lists of the tree are linked both ways, and the head of each leads  *)
(* to its last item, which has no next one, also while the tree is being   *)
(* built and taken down: cJSON_AddItemToArray relies on it.                *)
THEOREM JsonListsLinked == Spec => []ListsLinked
<1>1. ASSUME JsonInv PROVE ListsLinked
  <2>1. HeapOK /\ Upward /\ OneOwner /\ Linked
    BY <1>1, TypesAre DEF JsonInv
  <2>2. Live \subseteq Ids
    BY DEF Live
  <2>3. ASSUME NEW n \in Live, heap[n].child # Null
        PROVE  LET last == heap[heap[n].child].prev
               IN  /\ last \in Siblings(heap[n].child)
                   /\ heap[last].next = Null
    <3> DEFINE first == heap[n].child
               last == heap[first].prev
    <3>1. first \in Live /\ first \in Ids
      BY <2>1, <2>2, <2>3, PointersLive
    <3>2. last \in Ids \cup {Null}
      BY <2>1, <3>1 DEF HeapOK, Items
    <3>3. ListEnd(first, last)
      BY <2>1, <3>1, <3>2 DEF Linked
    <3> QED
      BY <3>3 DEF ListEnd
  <2> QED
    BY <2>1, <2>3 DEF ListsLinked, Linked
<1>2. JsonInv => ListsLinked
  BY <1>1
<1> QED
  BY <1>2, JsonInvariant, PTL
=============================================================================
