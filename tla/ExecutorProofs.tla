---------------------------- MODULE ExecutorProofs ----------------------------
(***************************************************************************)
(* Proofs about Executor, and about the guard and the aggregation it runs: *)
(* for every plan and every result that the source can give.               *)
(***************************************************************************)
EXTENDS Executor, PolicyProofs

-----------------------------------------------------------------------------
(***************************************************************************)
(* Induction over the subsets of a finite set, by their size, and folds    *)
(* over them.                                                              *)
(***************************************************************************)
(* What a subset has if all smaller ones have it, every subset has. *)
LEMMA SmallerFirst ==
  ASSUME NEW U, IsFiniteSet(U), NEW P,
         \A s \in SUBSET U :
           (\A t \in SUBSET U : Cardinality(t) < Cardinality(s) => t \in P) => s \in P
  PROVE  SUBSET U \subseteq P
<1> SUFFICES ASSUME NEW bad \in SUBSET U, bad \notin P
             PROVE  FALSE
  OBVIOUS
<1> DEFINE N == { Cardinality(s) : s \in { t \in SUBSET U : t \notin P } }
<1>1. \A s \in SUBSET U : Cardinality(s) \in Nat
  BY FS_Subset, FS_CardinalityType
<1>2. N \in SUBSET Nat /\ N # {}
  BY <1>1
<1>3. PICK n \in N : \A m \in N : n <= m
  <2> HIDE DEF N
  <2> QED BY <1>2, LeastNumber
<1>4. PICK s \in SUBSET U : s \notin P /\ Cardinality(s) = n
  BY <1>3
<1>5. ASSUME NEW t \in SUBSET U, Cardinality(t) < Cardinality(s)
      PROVE  t \in P
  <2>1. PICK a, b : a = Cardinality(t) /\ b = Cardinality(s)
    OBVIOUS
  <2>2. a \in Nat /\ b \in Nat /\ a < b
    BY <1>1, <1>5, <2>1
  <2>3. t \notin P => b <= a
    BY <1>3, <1>4, <2>1
  <2> QED BY <2>2, <2>3
<1> QED BY <1>4, <1>5

(* A set without an element is smaller. *)
LEMMA OneLess ==
  ASSUME NEW U, IsFiniteSet(U), NEW s \in SUBSET U, NEW x \in s
  PROVE  /\ Cardinality(s) \in Nat /\ Cardinality(s \ {x}) \in Nat
         /\ Cardinality(s) = Cardinality(s \ {x}) + 1
         /\ IsFiniteSet(s) /\ s \ {x} \in SUBSET U
<1>1. IsFiniteSet(s) /\ IsFiniteSet(s \ {x})
  BY FS_Subset
<1>2. Cardinality(s \ {x}) = Cardinality(s) - 1
  BY <1>1, FS_RemoveElement
<1> QED BY <1>1, <1>2, FS_CardinalityType

(* A fold over s when those over smaller sets are h's; c picks what comes last. *)
FoldAt(base, F, c, h, s) == IF s = {} THEN base ELSE F[c[s]][h[s \ {c[s]}]]

HasFold(U, V, base, F, c) ==
  \E h \in [SUBSET U -> V] : \A s \in SUBSET U : h[s] = FoldAt(base, F, c, h, s)

(* There are folds over all the subsets of a finite set. *)
LEMMA FoldsExist ==
  ASSUME NEW U, IsFiniteSet(U), NEW V, NEW base \in V, NEW F, NEW c,
         \A s \in SUBSET U : s # {} => c[s] \in s,
         \A x \in U : \A v \in V : F[x][v] \in V
  PROVE  HasFold(U, V, base, F, c)
<1> DEFINE T == { n \in Nat :
                    \E h \in [SUBSET U -> V] :
                      \A s \in SUBSET U : Cardinality(s) <= n => h[s] = FoldAt(base, F, c, h, s) }
<1>1. \A s \in SUBSET U : IsFiniteSet(s) /\ Cardinality(s) \in Nat /\ (Cardinality(s) = 0 => s = {})
  BY FS_Subset, FS_CardinalityType, FS_EmptySet
<1>2. 0 \in T
  <2> DEFINE h == [s \in SUBSET U |-> base]
  <2>1. ASSUME NEW s \in SUBSET U, Cardinality(s) <= 0
        PROVE  h[s] = FoldAt(base, F, c, h, s)
    <3>1. s = {}
      BY <1>1, <2>1
    <3> QED BY <3>1 DEF FoldAt
  <2>2. h \in [SUBSET U -> V]
    OBVIOUS
  <2> HIDE DEF h
  <2> QED BY <2>1, <2>2
<1>3. ASSUME NEW n \in T
      PROVE  n + 1 \in T
  <2>1. PICK h \in [SUBSET U -> V] :
          \A s \in SUBSET U : Cardinality(s) <= n => h[s] = FoldAt(base, F, c, h, s)
    OBVIOUS
  <2> DEFINE g == [s \in SUBSET U |-> FoldAt(base, F, c, h, s)]
  <2>2. ASSUME NEW s \in SUBSET U
        PROVE  FoldAt(base, F, c, h, s) \in V
    <3>1. CASE s = {}
      BY <3>1 DEF FoldAt
    <3>2. CASE s # {}
      BY <3>2 DEF FoldAt
    <3> QED BY <3>1, <3>2
  <2>3. g \in [SUBSET U -> V]
    BY <2>2
  <2>4. \A s \in SUBSET U : g[s] = FoldAt(base, F, c, h, s)
    OBVIOUS
  <2> HIDE DEF g
  <2>5. ASSUME NEW s \in SUBSET U, Cardinality(s) <= n + 1
        PROVE  g[s] = FoldAt(base, F, c, g, s)
    <3>1. CASE s = {}
      BY <2>4, <3>1 DEF FoldAt
    <3>2. CASE s # {}
      <4>1. PICK x : x = c[s]
        OBVIOUS
      <4>2. x \in s
        BY <3>2, <4>1
      <4>3. Cardinality(s \ {x}) <= n
        <5>1. PICK a, b : a = Cardinality(s) /\ b = Cardinality(s \ {x})
          OBVIOUS
        <5>2. a \in Nat /\ b \in Nat /\ a = b + 1 /\ a <= n + 1
          BY <2>5, <4>2, <5>1, OneLess
        <5> QED BY <5>1, <5>2
      <4>4. g[s \ {x}] = h[s \ {x}]
        BY <2>1, <2>4, <4>3
      <4> QED BY <2>4, <3>2, <4>1, <4>4 DEF FoldAt
    <3> QED BY <3>1, <3>2
  <2> QED BY <2>3, <2>5
<1>4. T = Nat
  <2>1. T \in SUBSET Nat
    OBVIOUS
  <2> HIDE DEF T
  <2> QED BY <1>2, <1>3, <2>1, AllNumbers
<1>5. PICK n \in Nat : n = Cardinality(U)
  BY FS_CardinalityType
<1>6. PICK h \in [SUBSET U -> V] :
        \A s \in SUBSET U : Cardinality(s) <= n => h[s] = FoldAt(base, F, c, h, s)
  BY <1>4
<1>7. \A s \in SUBSET U : Cardinality(s) <= n
  BY <1>5, FS_Subset
<1> QED BY <1>6, <1>7 DEF HasFold

-----------------------------------------------------------------------------
(***************************************************************************)
(* The weight of some rows of a result.                                    *)
(***************************************************************************)
(* Finitely many rows, each of some weight. *)
Weighed(res) ==
  IsFiniteSet(DOMAIN res.rows) /\ \A n \in DOMAIN res.rows : res.rows[n].weight \in Nat

(* The weight of s when those of smaller sets are h's. *)
WeightAt(rows, h, s) ==
  IF s = {} THEN 0
  ELSE LET x == CHOOSE y \in s : TRUE IN rows[x].weight + h[s \ {x}]

Chosen(s) == CHOOSE y \in s : TRUE

IsWeight(rows, h, M) == h = [s \in SUBSET M |-> WeightAt(rows, h, s)]

(* The weight of some rows is what it is computed to be. *)
LEMMA WeightIsComputed ==
  ASSUME NEW src, Weighed(src), NEW M \in SUBSET DOMAIN src.rows
  PROVE  \E h \in [SUBSET M -> Nat] : WeightOf(src, M) = h[M] /\ IsWeight(src.rows, h, M)
<1>1. IsFiniteSet(M) /\ \A n \in M : src.rows[n].weight \in Nat
  BY FS_Subset DEF Weighed
<1> DEFINE c == [s \in SUBSET M |-> CHOOSE y \in s : TRUE]
           F == [x \in M |-> [v \in Nat |-> src.rows[x].weight + v]]
<1>2. \A s \in SUBSET M : s # {} => c[s] \in s
  OBVIOUS
<1>3. \A x \in M : \A v \in Nat : F[x][v] \in Nat
  BY <1>1
<1>4. PICK h \in [SUBSET M -> Nat] : \A s \in SUBSET M : h[s] = FoldAt(0, F, c, h, s)
  <2>1. PICK f, d : f = F /\ d = c
    OBVIOUS
  <2>2. /\ \A s \in SUBSET M : s # {} => d[s] \in s
        /\ \A x \in M : \A v \in Nat : f[x][v] \in Nat
    BY <1>2, <1>3, <2>1
  <2>3. PICK z, V : z = 0 /\ V = Nat
    OBVIOUS
  <2>4. HasFold(M, V, z, f, d)
    <3>1. z \in V /\ \A x \in M : \A v \in V : f[x][v] \in V
      BY <2>2, <2>3
    <3> HIDE <2>1
    <3> QED BY <1>1, <2>2, <3>1, FoldsExist
  <2> HIDE DEF c, F
  <2> QED BY <2>1, <2>3, <2>4 DEF HasFold
<1>5. ASSUME NEW s \in SUBSET M
      PROVE  h[s] = WeightAt(src.rows, h, s)
  <2>1. CASE s = {}
    BY <1>4, <2>1 DEF FoldAt, WeightAt
  <2>2. CASE s # {}
    <3>1. PICK x : x = CHOOSE y \in s : TRUE
      OBVIOUS
    <3>2. x \in s /\ c[s] = x
      BY <2>2, <3>1
    <3>3. h[s \ {x}] \in Nat
      OBVIOUS
    <3>4. F[x][h[s \ {x}]] = src.rows[x].weight + h[s \ {x}]
      BY <3>2, <3>3
    <3>5. h[s] = F[x][h[s \ {x}]]
      <4> HIDE DEF F
      <4> QED BY <1>4, <2>2, <3>2 DEF FoldAt
    <3> QED BY <2>2, <3>1, <3>4, <3>5 DEF WeightAt
  <2> QED BY <2>1, <2>2
<1>6. IsWeight(src.rows, h, M)
  <2>1. h = [s \in SUBSET M |-> h[s]]
    OBVIOUS
  <2> QED BY <1>5, <2>1 DEF IsWeight
<1> DEFINE C == CHOOSE g : IsWeight(src.rows, g, M)
<1>7. IsWeight(src.rows, C, M)
  BY <1>6
<1>8. WeightOf(src, M) = C[M]
  BY DEF WeightOf, MapThenSumSet, MapThenFoldSet, IsWeight, WeightAt
<1> HIDE DEF C
<1>9. C \in [SUBSET M -> Nat]
  <2> DEFINE P == { s \in SUBSET M : C[s] \in Nat }
  <2>1. ASSUME NEW s \in SUBSET M,
               \A t \in SUBSET M : Cardinality(t) < Cardinality(s) => t \in P
        PROVE  s \in P
    <3>1. CASE s = {}
      BY <1>7, <3>1 DEF IsWeight, WeightAt
    <3>2. CASE s # {}
      <4>1. PICK x \in s : x = CHOOSE y \in s : TRUE
        BY <3>2
      <4>2. s \ {x} \in P
        <5>1. PICK a, b : a = Cardinality(s) /\ b = Cardinality(s \ {x})
          OBVIOUS
        <5>2. a \in Nat /\ b \in Nat /\ a = b + 1
          BY <1>1, <5>1, OneLess
        <5>3. Cardinality(s \ {x}) < Cardinality(s) /\ s \ {x} \in SUBSET M
          BY <5>1, <5>2
        <5> HIDE DEF P
        <5> QED BY <2>1, <5>3
      <4>3. C[s] = src.rows[x].weight + C[s \ {x}]
        BY <1>7, <3>2, <4>1 DEF IsWeight, WeightAt
      <4> QED BY <1>1, <4>2, <4>3
    <3> QED BY <3>1, <3>2
  <2>2. SUBSET M \subseteq P
    <3> HIDE DEF P
    <3> QED BY <1>1, <2>1, SmallerFirst
  <2>3. DOMAIN C = SUBSET M /\ C = [s \in SUBSET M |-> C[s]]
    BY <1>7 DEF IsWeight
  <2> QED BY <2>2, <2>3
<1> QED BY <1>7, <1>8, <1>9

(* The weight of some rows is a number, 0 for none. *)
LEMMA WeightIsNumber ==
  ASSUME NEW src, Weighed(src), NEW M \in SUBSET DOMAIN src.rows
  PROVE  WeightOf(src, M) \in Nat /\ (M = {} => WeightOf(src, M) = 0)
<1>1. PICK h \in [SUBSET M -> Nat] : WeightOf(src, M) = h[M] /\ IsWeight(src.rows, h, M)
  BY WeightIsComputed
<1> QED BY <1>1 DEF IsWeight, WeightAt

(* It is that of one of them and that of the others: of the one that is chosen first, *)
LEMMA WeightOfChosen ==
  ASSUME NEW src, Weighed(src), NEW M \in SUBSET DOMAIN src.rows, M # {},
         NEW x, x = Chosen(M)
  PROVE  WeightOf(src, M) = src.rows[x].weight + WeightOf(src, M \ {x})
<1>1. x \in M /\ IsFiniteSet(M \ {x})
  BY FS_Subset DEF Weighed, Chosen
<1>2. PICK h \in [SUBSET M -> Nat] : WeightOf(src, M) = h[M] /\ IsWeight(src.rows, h, M)
  BY WeightIsComputed
<1>3. PICK R \in SUBSET DOMAIN src.rows : R = M \ {x}
  OBVIOUS
<1>4. PICK g \in [SUBSET R -> Nat] : WeightOf(src, R) = g[R] /\ IsWeight(src.rows, g, R)
  BY WeightIsComputed
<1> DEFINE P == { s \in SUBSET R : g[s] = h[s] }
<1>5. ASSUME NEW s \in SUBSET R,
             \A t \in SUBSET R : Cardinality(t) < Cardinality(s) => t \in P
      PROVE  s \in P
  <2>1. s \in SUBSET M
    BY <1>3
  <2>2. CASE s = {}
    BY <1>2, <1>4, <2>1, <2>2 DEF IsWeight, WeightAt
  <2>3. CASE s # {}
    <3>1. PICK z \in s : z = CHOOSE y \in s : TRUE
      BY <2>3
    <3>2. s \ {z} \in P
      <4>1. PICK a, b : a = Cardinality(s) /\ b = Cardinality(s \ {z})
        OBVIOUS
      <4>2. a \in Nat /\ b \in Nat /\ a = b + 1
        BY <1>1, <1>3, <4>1, OneLess
      <4>3. Cardinality(s \ {z}) < Cardinality(s) /\ s \ {z} \in SUBSET R
        BY <4>1, <4>2
      <4> HIDE DEF P
      <4> QED BY <1>5, <4>3
    <3>3. g[s] = src.rows[z].weight + g[s \ {z}]
      BY <1>4, <2>3, <3>1 DEF IsWeight, WeightAt
    <3>4. h[s] = src.rows[z].weight + h[s \ {z}]
      BY <1>2, <2>1, <2>3, <3>1 DEF IsWeight, WeightAt
    <3> QED BY <3>2, <3>3, <3>4
  <2> QED BY <2>2, <2>3
<1>6. SUBSET R \subseteq P
  <2>1. IsFiniteSet(R)
    BY <1>1, <1>3
  <2> HIDE DEF P
  <2> QED BY <1>5, <2>1, SmallerFirst
<1>7. g[R] = h[R]
  BY <1>6
<1>8. h[M] = src.rows[x].weight + h[M \ {x}]
  BY <1>2 DEF IsWeight, WeightAt, Chosen
<1> QED BY <1>2, <1>3, <1>4, <1>7, <1>8

(* or of any: the order in which they are added does not matter. *)
LEMMA WeightWithout ==
  ASSUME NEW src, Weighed(src), NEW U \in SUBSET DOMAIN src.rows
  PROVE  \A M \in SUBSET U : \A x \in M :
           WeightOf(src, M) = src.rows[x].weight + WeightOf(src, M \ {x})
<1>0. IsFiniteSet(U)
  BY FS_Subset DEF Weighed
<1> DEFINE P == { M \in SUBSET U : \A x \in M :
                    WeightOf(src, M) = src.rows[x].weight + WeightOf(src, M \ {x}) }
<1>1. ASSUME NEW M \in SUBSET U,
             \A t \in SUBSET U : Cardinality(t) < Cardinality(M) => t \in P
      PROVE  M \in P
  <2>1. SUFFICES ASSUME NEW x \in M
                 PROVE  WeightOf(src, M) = src.rows[x].weight + WeightOf(src, M \ {x})
    OBVIOUS
  <2>2. PICK z \in M : z = Chosen(M)
    BY <2>1 DEF Chosen
  <2>3. WeightOf(src, M) = src.rows[z].weight + WeightOf(src, M \ {z})
    <3>1. M \in SUBSET DOMAIN src.rows /\ M # {}
      BY <2>1
    <3> QED BY <2>2, <3>1, WeightOfChosen
  <2>4. CASE z = x
    BY <2>3, <2>4
  <2>5. CASE z # x
    <3>1. M \ {z} \in P /\ M \ {x} \in P
      <4>1. \A y \in M : Cardinality(M \ {y}) < Cardinality(M)
        <5> SUFFICES ASSUME NEW y \in M
                     PROVE  Cardinality(M \ {y}) < Cardinality(M)
          OBVIOUS
        <5>1. PICK a, b : a = Cardinality(M) /\ b = Cardinality(M \ {y})
          OBVIOUS
        <5>2. a \in Nat /\ b \in Nat /\ a = b + 1
          BY <1>0, <5>1, OneLess
        <5> QED BY <5>1, <5>2
      <4> HIDE DEF P
      <4> QED BY <1>1, <4>1
    <3>2. PICK R \in SUBSET DOMAIN src.rows : R = (M \ {z}) \ {x}
      OBVIOUS
    <3>3. (M \ {x}) \ {z} = R
      BY <3>2
    <3>4. WeightOf(src, M \ {z}) = src.rows[x].weight + WeightOf(src, R)
      BY <2>5, <3>1, <3>2
    <3>5. WeightOf(src, M \ {x}) = src.rows[z].weight + WeightOf(src, R)
      BY <2>2, <2>5, <3>1, <3>3
    <3>6. PICK a, b, w : a = src.rows[x].weight /\ b = src.rows[z].weight /\ w = WeightOf(src, R)
      OBVIOUS
    <3>7. a \in Nat /\ b \in Nat /\ w \in Nat
      BY <2>2, <3>6, WeightIsNumber DEF Weighed
    <3>8. b + (a + w) = a + (b + w)
      BY <3>7
    <3> QED BY <2>3, <3>4, <3>5, <3>6, <3>8
  <2> QED BY <2>4, <2>5
<1>2. SUBSET U \subseteq P
  <2> HIDE DEF P
  <2> QED BY <1>0, <1>1, SmallerFirst
<1> QED BY <1>2

LEMMA WeightOfOne ==
  ASSUME NEW src, Weighed(src), NEW M \in SUBSET DOMAIN src.rows, NEW x \in M
  PROVE  WeightOf(src, M) = src.rows[x].weight + WeightOf(src, M \ {x})
<1>1. PICK U : U = DOMAIN src.rows
  OBVIOUS
<1>2. U \in SUBSET DOMAIN src.rows /\ M \in SUBSET U
  BY <1>1
<1>3. M \in SUBSET DOMAIN src.rows /\ x \in U
  BY <1>1
<1> QED BY <1>2, <1>3, WeightWithout

(* Rows of which each has some weight weigh at least as many as they are. *)
LEMMA WeightAtLeast ==
  ASSUME NEW src, Weighed(src), NEW M \in SUBSET DOMAIN src.rows,
         \A n \in M : src.rows[n].weight >= 1
  PROVE  WeightOf(src, M) >= Cardinality(M)
<1>0. IsFiniteSet(M)
  BY FS_Subset DEF Weighed
<1> DEFINE P == { s \in SUBSET M : WeightOf(src, s) >= Cardinality(s) }
<1>1. ASSUME NEW s \in SUBSET M,
             \A t \in SUBSET M : Cardinality(t) < Cardinality(s) => t \in P
      PROVE  s \in P
  <2>1. CASE s = {}
    <3>1. WeightOf(src, s) = 0 /\ Cardinality(s) = 0
      BY <2>1, WeightIsNumber, FS_EmptySet
    <3> QED BY <3>1
  <2>2. CASE s # {}
    <3>1. PICK x \in s : TRUE
      BY <2>2
    <3>2. PICK a, b : a = Cardinality(s) /\ b = Cardinality(s \ {x})
      OBVIOUS
    <3>3. a \in Nat /\ b \in Nat /\ a = b + 1
      BY <1>0, <3>2, OneLess
    <3>4. Cardinality(s \ {x}) < Cardinality(s) /\ s \ {x} \in SUBSET M
      BY <3>2, <3>3
    <3>5. s \ {x} \in P
      <4> HIDE DEF P
      <4> QED BY <1>1, <3>4
    <3>6. WeightOf(src, s) = src.rows[x].weight + WeightOf(src, s \ {x})
      BY WeightWithout
    <3>7. PICK w, v : w = src.rows[x].weight /\ v = WeightOf(src, s \ {x})
      OBVIOUS
    <3>8. w \in Nat /\ v \in Nat /\ w >= 1 /\ v >= b
      BY <3>2, <3>5, <3>7, WeightIsNumber DEF Weighed
    <3>9. w + v >= a
      BY <3>3, <3>8
    <3> QED BY <3>2, <3>6, <3>7, <3>9
  <2> QED BY <2>1, <2>2
<1>2. SUBSET M \subseteq P
  <2> HIDE DEF P
  <2> QED BY <1>0, <1>1, SmallerFirst
<1> QED BY <1>2

(* Rows that are each one row of the source weigh as many as they are. *)
LEMMA WeightOfRaw ==
  ASSUME NEW src, Weighed(src), NEW M \in SUBSET DOMAIN src.rows,
         \A n \in M : src.rows[n].weight = 1
  PROVE  WeightOf(src, M) = Cardinality(M)
<1>0. IsFiniteSet(M)
  BY FS_Subset DEF Weighed
<1> DEFINE P == { s \in SUBSET M : WeightOf(src, s) = Cardinality(s) }
<1>1. ASSUME NEW s \in SUBSET M,
             \A t \in SUBSET M : Cardinality(t) < Cardinality(s) => t \in P
      PROVE  s \in P
  <2>1. CASE s = {}
    <3>1. WeightOf(src, s) = 0 /\ Cardinality(s) = 0
      BY <2>1, WeightIsNumber, FS_EmptySet
    <3> QED BY <3>1
  <2>2. CASE s # {}
    <3>1. PICK x \in s : TRUE
      BY <2>2
    <3>2. PICK a, b : a = Cardinality(s) /\ b = Cardinality(s \ {x})
      OBVIOUS
    <3>3. a \in Nat /\ b \in Nat /\ a = b + 1
      BY <1>0, <3>2, OneLess
    <3>4. Cardinality(s \ {x}) < Cardinality(s) /\ s \ {x} \in SUBSET M
      BY <3>2, <3>3
    <3>5. s \ {x} \in P
      <4> HIDE DEF P
      <4> QED BY <1>1, <3>4
    <3>6. WeightOf(src, s) = src.rows[x].weight + WeightOf(src, s \ {x})
      BY WeightWithout
    <3>7. PICK w, v : w = src.rows[x].weight /\ v = WeightOf(src, s \ {x})
      OBVIOUS
    <3>8. w = 1 /\ v = b
      BY <3>2, <3>5, <3>7
    <3>9. w + v = a
      BY <3>3, <3>8
    <3> QED BY <3>2, <3>6, <3>7, <3>9
  <2> QED BY <2>1, <2>2
<1>2. SUBSET M \subseteq P
  <2> HIDE DEF P
  <2> QED BY <1>0, <1>1, SmallerFirst
<1> QED BY <1>2

-----------------------------------------------------------------------------
(***************************************************************************)
(* The rows that the guard keeps.                                          *)
(***************************************************************************)
(* The rows at s that are kept, when those of smaller sets are h's; at numbers their positions. *)
KeptAt(rows, sizes, k, at, h, s) ==
  IF s = {} THEN << >>
  ELSE IF sizes[at[Max(s)]] >= k
       THEN Append(h[s \ {Max(s)}], rows[at[Max(s)]])
       ELSE h[s \ {Max(s)}]

IsFiltered(rows, sizes, k, at, h) ==
  h = [s \in SUBSET DOMAIN at |-> KeptAt(rows, sizes, k, at, h, s)]

(* g has what is kept of the first rows, for each number of them. *)
IsKept(rows, sizes, k, g) ==
  /\ g[0] = << >>
  /\ \A m \in 1 .. Len(rows) :
       g[m] = IF sizes[m] >= k THEN Append(g[m - 1], rows[m]) ELSE g[m - 1]

(* The greatest of the numbers up to m is m. *)
LEMMA GreatestOfFirst ==
  ASSUME NEW m \in Nat \ {0}
  PROVE  Max(1 .. m) = m /\ (1 .. m) \ {m} = 1 .. m - 1
<1>1. PICK S : S = 1 .. m
  OBVIOUS
<1>2. S \in SUBSET (0 .. m) /\ S # {}
  BY <1>1
<1>3. Max(S) \in S /\ \A y \in S : Max(S) >= y
  BY <1>2, GreatestNumber
<1>4. PICK x : x = Max(S)
  OBVIOUS
<1>5. x \in 1 .. m /\ x >= m
  BY <1>1, <1>3, <1>4
<1> QED BY <1>1, <1>4, <1>5

(* There is a function from sets of positions to what is kept of their rows. *)
LEMMA FilterExists ==
  ASSUME NEW R, NEW rows \in Seq(R), NEW sizes, NEW k, NEW at,
         at = [i \in DOMAIN rows |-> i]
  PROVE  \E h : IsFiltered(rows, sizes, k, at, h)
<1>1. PICK n \in Nat : n = Len(rows) /\ DOMAIN rows = 1 .. n
  OBVIOUS
<1>2. PICK U : U = 1 .. n
  OBVIOUS
<1>3. /\ DOMAIN at = U /\ U \in SUBSET (0 .. n)
      /\ \A i \in U : at[i] = i /\ rows[i] \in R
  BY <1>1, <1>2
<1>4. IsFiniteSet(U)
  BY <1>2, FS_Interval
<1>5. \A s \in SUBSET U : s # {} => Max(s) \in s
  <2> SUFFICES ASSUME NEW s \in SUBSET U, s # {}
               PROVE  Max(s) \in s
    OBVIOUS
  <2>1. s \in SUBSET (0 .. n)
    BY <1>3
  <2> QED BY <2>1, GreatestNumber
<1>6. PICK V : V = Seq(R)
  OBVIOUS
<1>7. PICK base : base = << >>
  OBVIOUS
<1>8. PICK c : c = [s \in SUBSET U |-> Max(s)]
  OBVIOUS
<1>9. PICK F : F = [i \in U |-> [v \in V |-> IF sizes[i] >= k THEN Append(v, rows[i]) ELSE v]]
  OBVIOUS
<1>10. /\ base \in V
       /\ \A s \in SUBSET U : s # {} => c[s] \in s
       /\ \A i \in U : \A v \in V : F[i][v] \in V
  <2>1. base \in V
    BY <1>6, <1>7
  <2>2. \A s \in SUBSET U : s # {} => c[s] \in s
    BY <1>5, <1>8
  <2>3. \A i \in U : \A v \in V : Append(v, rows[i]) \in V
    BY <1>3, <1>6
  <2>4. \A i \in U : \A v \in V : F[i][v] = IF sizes[i] >= k THEN Append(v, rows[i]) ELSE v
    BY <1>9
  <2> QED BY <2>1, <2>2, <2>3, <2>4
<1>11. HasFold(U, V, base, F, c)
  BY <1>4, <1>10, FoldsExist
<1>12. PICK h \in [SUBSET U -> V] : \A s \in SUBSET U : h[s] = FoldAt(base, F, c, h, s)
  BY <1>11 DEF HasFold
<1>13. ASSUME NEW s \in SUBSET U
       PROVE  h[s] = KeptAt(rows, sizes, k, at, h, s)
  <2>1. CASE s = {}
    BY <1>7, <1>12, <2>1 DEF FoldAt, KeptAt
  <2>2. CASE s # {}
    <3>1. PICK i : i = Max(s)
      OBVIOUS
    <3>2. i \in s /\ i \in U /\ c[s] = i /\ at[i] = i
      BY <1>3, <1>5, <1>8, <2>2, <3>1
    <3>3. h[s] = F[i][h[s \ {i}]]
      BY <1>12, <2>2, <3>2 DEF FoldAt
    <3>4. h[s \ {i}] \in V
      BY <1>12
    <3>5. F[i][h[s \ {i}]] = IF sizes[i] >= k THEN Append(h[s \ {i}], rows[i]) ELSE h[s \ {i}]
      BY <1>9, <3>2, <3>4
    <3> QED BY <2>2, <3>1, <3>2, <3>3, <3>5 DEF KeptAt
  <2> QED BY <2>1, <2>2
<1>14. h = [s \in SUBSET U |-> h[s]]
  BY <1>12
<1> QED BY <1>3, <1>13, <1>14 DEF IsFiltered

(* What the guard keeps is what is kept of all rows. *)
LEMMA GuardKeeps ==
  ASSUME NEW R, NEW rows \in Seq(R), NEW sizes, Len(sizes) = Len(rows), NEW k \in Nat \ {0}
  PROVE  \E g : /\ SuppressSmallGroups(rows, sizes, k) =
                     [rows |-> g[Len(rows)], suppressed |-> Len(rows) - Len(g[Len(rows)])]
                /\ IsKept(rows, sizes, k, g)
<1>0. PICK n \in Nat : n = Len(rows) /\ DOMAIN rows = 1 .. n
  OBVIOUS
<1> DEFINE at == [i \in DOMAIN rows |-> i]
           h == CHOOSE f : IsFiltered(rows, sizes, k, at, f)
<1>1. IsFiltered(rows, sizes, k, at, h)
  BY FilterExists
<1>2. ~(k < 1 \/ Len(rows) # Len(sizes))
  OBVIOUS
<1>3. SuppressSmallGroups(rows, sizes, k) =
        [rows |-> h[DOMAIN at], suppressed |-> Len(rows) - Len(h[DOMAIN at])]
  BY <1>2 DEF SuppressSmallGroups, FoldLeftDomain, FoldLeft, MapThenFoldSet, IsFiltered, KeptAt
<1>4. DOMAIN at = 1 .. n /\ \A i \in 1 .. n : at[i] = i
  BY <1>0
<1> HIDE DEF at, h
<1> DEFINE g == [m \in 0 .. n |-> h[1 .. m]]
<1>5. ASSUME NEW m \in 0 .. n
      PROVE  h[1 .. m] = KeptAt(rows, sizes, k, at, h, 1 .. m)
  BY <1>1, <1>4 DEF IsFiltered
<1>6. g[0] = << >>
  <2>1. PICK e : e = 1 .. 0
    OBVIOUS
  <2>2. e = {}
    BY <2>1
  <2>3. KeptAt(rows, sizes, k, at, h, e) = << >>
    BY <2>2 DEF KeptAt
  <2>4. h[1 .. 0] = KeptAt(rows, sizes, k, at, h, 1 .. 0) /\ g[0] = h[1 .. 0]
    BY <1>5
  <2> QED BY <2>1, <2>3, <2>4
<1>7. ASSUME NEW m \in 1 .. n
      PROVE  g[m] = IF sizes[m] >= k THEN Append(g[m - 1], rows[m]) ELSE g[m - 1]
  <2>1. Max(1 .. m) = m /\ (1 .. m) \ {m} = 1 .. m - 1 /\ 1 .. m # {} /\ at[m] = m
    BY <1>4, GreatestOfFirst
  <2>2. KeptAt(rows, sizes, k, at, h, 1 .. m)
          = IF sizes[m] >= k THEN Append(h[1 .. m - 1], rows[m]) ELSE h[1 .. m - 1]
    BY <2>1 DEF KeptAt
  <2>3. g[m] = h[1 .. m] /\ g[m - 1] = h[1 .. m - 1]
    OBVIOUS
  <2> QED BY <1>5, <2>2, <2>3
<1>8. g[n] = h[DOMAIN at]
  BY <1>4
<1> HIDE DEF g
<1>9. IsKept(rows, sizes, k, g)
  BY <1>0, <1>6, <1>7 DEF IsKept
<1> QED BY <1>0, <1>3, <1>8, <1>9

BackedRows(R, rows, sizes, k, kept) ==
  /\ kept.rows \in Seq(R) /\ Len(kept.rows) <= Len(rows)
  /\ kept.suppressed = Len(rows) - Len(kept.rows)
  /\ \A j \in DOMAIN kept.rows :
       \E i \in DOMAIN rows : sizes[i] >= k /\ kept.rows[j] = rows[i]

(* Every row that is kept is one of a group that is large enough, and no group is counted twice. *)
LEMMA KeptAreBacked ==
  ASSUME NEW R, NEW rows \in Seq(R), NEW sizes, Len(sizes) = Len(rows), NEW k \in Nat \ {0},
         NEW kept, kept = SuppressSmallGroups(rows, sizes, k)
  PROVE  BackedRows(R, rows, sizes, k, kept)
<1>0. PICK n \in Nat : n = Len(rows) /\ DOMAIN rows = 1 .. n
  OBVIOUS
<1>1. PICK g : /\ kept = [rows |-> g[n], suppressed |-> n - Len(g[n])]
               /\ IsKept(rows, sizes, k, g)
  BY <1>0, GuardKeeps
<1> DEFINE Good(m) ==
             /\ g[m] \in Seq(R) /\ Len(g[m]) <= m
             /\ \A j \in 1 .. Len(g[m]) :
                  \E i \in DOMAIN rows : sizes[i] >= k /\ g[m][j] = rows[i]
           T == { m \in 0 .. n : Good(m) }
<1>2. 0 \in T
  <2>1. PICK e : e = g[0]
    OBVIOUS
  <2>2. e = << >>
    BY <1>1, <2>1 DEF IsKept
  <2>3. e \in Seq(R) /\ Len(e) = 0
    BY <2>2
  <2> QED BY <2>1, <2>3
<1>3. ASSUME NEW m \in 1 .. n, Good(m - 1)
      PROVE  Good(m)
  <2>1. g[m] = IF sizes[m] >= k THEN Append(g[m - 1], rows[m]) ELSE g[m - 1]
    BY <1>0, <1>1 DEF IsKept
  <2>2. CASE ~(sizes[m] >= k)
    BY <1>3, <2>1, <2>2
  <2>3. CASE sizes[m] >= k
    <3>1. PICK a, b, r : a = g[m - 1] /\ b = g[m] /\ r = rows[m]
      OBVIOUS
    <3>2. a \in Seq(R) /\ Len(a) <= m - 1 /\ r \in R /\ b = Append(a, r)
      BY <1>0, <1>3, <2>1, <2>3, <3>1
    <3>3. /\ b \in Seq(R) /\ Len(b) = Len(a) + 1 /\ b[Len(a) + 1] = r
          /\ \A j \in 1 .. Len(a) : b[j] = a[j]
      BY <3>2
    <3>4. Len(b) <= m /\ Len(a) \in Nat
      BY <3>2, <3>3
    <3>5. ASSUME NEW j \in 1 .. Len(b)
          PROVE  \E i \in DOMAIN rows : sizes[i] >= k /\ b[j] = rows[i]
      <4>1. CASE j = Len(a) + 1
        <5>1. m \in DOMAIN rows /\ b[j] = rows[m]
          BY <1>0, <3>1, <3>3, <4>1
        <5> QED BY <2>3, <5>1
      <4>2. CASE j # Len(a) + 1
        <5>1. j \in 1 .. Len(a)
          BY <3>3, <3>4, <4>2
        <5> QED BY <1>3, <3>1, <3>3, <5>1
      <4> QED BY <4>1, <4>2
    <3> QED BY <3>1, <3>3, <3>4, <3>5
  <2> QED BY <2>2, <2>3
<1>4. n \in T
  <2>1. T \in SUBSET (0 .. n) /\ \A m \in 1 .. n : (\A j \in 0 .. m - 1 : j \in T) => m \in T
    <3>1. ASSUME NEW m \in 1 .. n, \A j \in 0 .. m - 1 : j \in T
          PROVE  m \in T
      <4>1. m - 1 \in T
        BY <3>1
      <4> QED BY <1>3, <4>1
    <3> QED BY <3>1
  <2> HIDE DEF T
  <2> QED BY <1>2, <2>1, AllPositions
<1>5. Good(n)
  BY <1>4
<1>6. kept.rows = g[n] /\ kept.suppressed = n - Len(g[n])
  BY <1>1
<1> QED BY <1>0, <1>5, <1>6 DEF BackedRows

(* If none is dropped, what is kept is all of them as they are. *)
LEMMA KeptAreAll ==
  ASSUME NEW R, NEW rows \in Seq(R), NEW sizes, Len(sizes) = Len(rows), NEW k \in Nat \ {0},
         SuppressSmallGroups(rows, sizes, k).suppressed = 0
  PROVE  SuppressSmallGroups(rows, sizes, k).rows = rows
<1>0. PICK n \in Nat : n = Len(rows) /\ DOMAIN rows = 1 .. n
  OBVIOUS
<1>1. PICK g : /\ SuppressSmallGroups(rows, sizes, k) = [rows |-> g[n], suppressed |-> n - Len(g[n])]
               /\ IsKept(rows, sizes, k, g)
  BY <1>0, GuardKeeps
<1> DEFINE Good(m) ==
             /\ g[m] \in Seq(R) /\ Len(g[m]) <= m
             /\ Len(g[m]) = m => \A j \in 1 .. m : g[m][j] = rows[j]
           T == { m \in 0 .. n : Good(m) }
<1>2. 0 \in T
  <2>1. PICK e : e = g[0]
    OBVIOUS
  <2>2. e = << >>
    BY <1>1, <2>1 DEF IsKept
  <2>3. e \in Seq(R) /\ Len(e) = 0
    BY <2>2
  <2> QED BY <2>1, <2>3
<1>3. ASSUME NEW m \in 1 .. n, Good(m - 1)
      PROVE  Good(m)
  <2>1. PICK a, b, r : a = g[m - 1] /\ b = g[m] /\ r = rows[m]
    OBVIOUS
  <2>2. b = IF sizes[m] >= k THEN Append(a, r) ELSE a
    BY <1>0, <1>1, <2>1 DEF IsKept
  <2>3. a \in Seq(R) /\ Len(a) <= m - 1 /\ r \in R /\ Len(a) \in Nat
    BY <1>0, <1>3, <2>1
  <2>4. CASE b = a
    <3>1. b \in Seq(R) /\ Len(b) <= m /\ Len(b) # m
      BY <2>3, <2>4
    <3> QED BY <2>1, <3>1
  <2>5. CASE b = Append(a, r)
    <3>1. /\ b \in Seq(R) /\ Len(b) = Len(a) + 1 /\ b[Len(a) + 1] = r
          /\ \A j \in 1 .. Len(a) : b[j] = a[j]
      BY <2>3, <2>5
    <3>2. Len(b) <= m
      BY <2>3, <3>1
    <3>3. ASSUME Len(b) = m, NEW j \in 1 .. m
          PROVE  b[j] = rows[j]
      <4>1. Len(a) = m - 1
        BY <2>3, <3>1, <3>3
      <4>2. CASE j = m
        BY <2>1, <3>1, <4>1, <4>2
      <4>3. CASE j # m
        <5>1. j \in 1 .. m - 1
          BY <4>3
        <5> QED BY <1>3, <2>1, <3>1, <4>1, <5>1
      <4> QED BY <4>2, <4>3
    <3> QED BY <2>1, <3>1, <3>2, <3>3
  <2> QED BY <2>2, <2>4, <2>5
<1>4. n \in T
  <2>1. T \in SUBSET (0 .. n) /\ \A m \in 1 .. n : (\A j \in 0 .. m - 1 : j \in T) => m \in T
    <3>1. ASSUME NEW m \in 1 .. n, \A j \in 0 .. m - 1 : j \in T
          PROVE  m \in T
      <4>1. m - 1 \in T
        BY <3>1
      <4>2. Good(m - 1)
        BY <4>1
      <4>3. Good(m)
        BY <1>3, <4>2
      <4> HIDE DEF Good
      <4> QED BY <4>3
    <3> QED BY <3>1
  <2> HIDE DEF T
  <2> QED BY <1>2, <2>1, AllPositions
<1>5. PICK kept : kept = g[n]
  OBVIOUS
<1>6. kept \in Seq(R) /\ n - Len(kept) = 0
  BY <1>1, <1>4, <1>5
<1>7. Len(kept) = n
  BY <1>6
<1>8. \A j \in 1 .. n : kept[j] = rows[j]
  BY <1>4, <1>5, <1>7
<1>9. kept = rows
  BY <1>0, <1>6, <1>7, <1>8, SeqEqual
<1> QED BY <1>1, <1>5, <1>9

-----------------------------------------------------------------------------
(***************************************************************************)
(* Groups of rows.                                                         *)
(***************************************************************************)
(* Rows that are apart weigh together what they weigh apart. *)
LEMMA WeightsAdd ==
  ASSUME NEW src, Weighed(src), NEW A \in SUBSET DOMAIN src.rows, NEW B \in SUBSET DOMAIN src.rows,
         A \cap B = {}
  PROVE  WeightOf(src, A \cup B) = WeightOf(src, A) + WeightOf(src, B)
<1>0. IsFiniteSet(B)
  BY FS_Subset DEF Weighed
<1> DEFINE P == { s \in SUBSET B : WeightOf(src, A \cup s) = WeightOf(src, A) + WeightOf(src, s) }
<1>1. ASSUME NEW s \in SUBSET B,
             \A t \in SUBSET B : Cardinality(t) < Cardinality(s) => t \in P
      PROVE  s \in P
  <2>1. CASE s = {}
    <3>1. A \cup s = A /\ WeightOf(src, s) = 0 /\ WeightOf(src, A) \in Nat
      BY <2>1, WeightIsNumber
    <3>2. WeightOf(src, A) = WeightOf(src, A) + 0
      BY <3>1
    <3> QED BY <3>1, <3>2
  <2>2. CASE s # {}
    <3>1. PICK x \in s : TRUE
      BY <2>2
    <3>2. PICK a, b : a = Cardinality(s) /\ b = Cardinality(s \ {x})
      OBVIOUS
    <3>3. a \in Nat /\ b \in Nat /\ a = b + 1
      BY <1>0, <3>2, OneLess
    <3>4. Cardinality(s \ {x}) < Cardinality(s) /\ s \ {x} \in SUBSET B
      BY <3>2, <3>3
    <3>5. s \ {x} \in P
      <4> HIDE DEF P
      <4> QED BY <1>1, <3>4
    <3>6. WeightOf(src, s) = src.rows[x].weight + WeightOf(src, s \ {x})
      BY WeightWithout
    <3>7. WeightOf(src, A \cup s) = src.rows[x].weight + WeightOf(src, A \cup (s \ {x}))
      <4>1. PICK M \in SUBSET DOMAIN src.rows : M = A \cup s
        OBVIOUS
      <4>2. x \in M /\ M \ {x} = A \cup (s \ {x})
        BY <3>1, <4>1
      <4>3. WeightOf(src, M) = src.rows[x].weight + WeightOf(src, M \ {x})
        BY <4>2, WeightWithout
      <4> QED BY <4>1, <4>2, <4>3
    <3>8. PICK w, v, u : w = src.rows[x].weight /\ v = WeightOf(src, s \ {x}) /\ u = WeightOf(src, A)
      OBVIOUS
    <3>9. w \in Nat /\ v \in Nat /\ u \in Nat
      BY <3>8, WeightIsNumber DEF Weighed
    <3>10. WeightOf(src, A \cup (s \ {x})) = u + v
      BY <3>5, <3>8
    <3>11. w + (u + v) = u + (w + v)
      BY <3>9
    <3> QED BY <3>6, <3>7, <3>8, <3>10, <3>11
  <2> QED BY <2>1, <2>2
<1>2. SUBSET B \subseteq P
  <2> HIDE DEF P
  <2> QED BY <1>0, <1>1, SmallerFirst
<1> QED BY <1>2

(* The rows of the first n groups. *)
Covered(G, n) == UNION { G[i] : i \in 1 .. n }

(* Rows of which each weighs what a group of others weighs, weigh what those others do. *)
LEMMA WeightOfGroups ==
  ASSUME NEW res, Weighed(res), NEW n \in Nat, DOMAIN res.rows = 1 .. n,
         NEW src, Weighed(src), NEW G,
         \A i \in 1 .. n : G[i] \in SUBSET DOMAIN src.rows /\ res.rows[i].weight = WeightOf(src, G[i]),
         \A i, j \in 1 .. n : i # j => G[i] \cap G[j] = {}
  PROVE  WeightOf(res, 1 .. n) = WeightOf(src, Covered(G, n))
<1> DEFINE Cover(m) == UNION { G[i] : i \in 1 .. m }
           T == { m \in 0 .. n : WeightOf(res, 1 .. m) = WeightOf(src, Cover(m)) }
<1>1. 0 \in T
  <2>1. 1 .. 0 = {}
    OBVIOUS
  <2>2. WeightOf(res, {}) = 0 /\ WeightOf(src, {}) = 0
    <3>1. PICK none : none = {}
      OBVIOUS
    <3>2. none \in SUBSET DOMAIN res.rows /\ none \in SUBSET DOMAIN src.rows
      BY <3>1
    <3>3. WeightOf(res, none) = 0 /\ WeightOf(src, none) = 0
      BY <3>1, <3>2, WeightIsNumber
    <3> QED BY <3>1, <3>3
  <2>3. Cover(0) = {}
    BY <2>1
  <2>4. WeightOf(res, 1 .. 0) = WeightOf(src, Cover(0))
    <3> HIDE DEF Cover
    <3> QED BY <2>1, <2>2, <2>3
  <2> HIDE DEF Cover
  <2> QED BY <2>4
<1>2. ASSUME NEW m \in 1 .. n, m - 1 \in T
      PROVE  m \in T
  <2>1. PICK M \in SUBSET DOMAIN res.rows : M = 1 .. m
    OBVIOUS
  <2>2. m \in M /\ M \ {m} = 1 .. m - 1
    BY <2>1
  <2>3. WeightOf(res, M) = res.rows[m].weight + WeightOf(res, 1 .. m - 1)
    <3>1. WeightOf(res, M) = res.rows[m].weight + WeightOf(res, M \ {m})
      BY <2>2, WeightOfOne
    <3> QED BY <2>2, <3>1
  <2>4. PICK A : A = Cover(m - 1)
    OBVIOUS
  <2>5. A \in SUBSET DOMAIN src.rows
    BY <2>4
  <2>6. A \cap G[m] = {}
    <3>1. \A i \in 1 .. m - 1 : G[i] \cap G[m] = {}
      OBVIOUS
    <3> QED BY <2>4, <3>1
  <2>7. Cover(m) = A \cup G[m]
    <3>1. \A x : x \in Cover(m) <=> \E i \in 1 .. m : x \in G[i]
      OBVIOUS
    <3>2. \A x : x \in A <=> \E i \in 1 .. m - 1 : x \in G[i]
      BY <2>4
    <3>3. \A i \in 1 .. m : i = m \/ i \in 1 .. m - 1
      OBVIOUS
    <3>4. m \in 1 .. m /\ \A i \in 1 .. m - 1 : i \in 1 .. m
      OBVIOUS
    <3> HIDE DEF Cover
    <3> QED BY <3>1, <3>2, <3>3, <3>4
  <2>8. WeightOf(src, A \cup G[m]) = WeightOf(src, A) + WeightOf(src, G[m])
    BY <2>5, <2>6, WeightsAdd
  <2>9. PICK a, b : a = WeightOf(src, A) /\ b = WeightOf(src, G[m])
    OBVIOUS
  <2>10. a \in Nat /\ b \in Nat /\ a + b = b + a
    BY <2>5, <2>9, WeightIsNumber
  <2>11. WeightOf(res, 1 .. m - 1) = a /\ res.rows[m].weight = b
    BY <1>2, <2>4, <2>9
  <2>12. WeightOf(res, M) = WeightOf(src, Cover(m))
    <3> HIDE DEF Cover
    <3> QED BY <2>3, <2>7, <2>8, <2>9, <2>10, <2>11
  <2> QED BY <2>1, <2>12
<1>3. n \in T
  <2>1. T \in SUBSET (0 .. n) /\ \A m \in 1 .. n : (\A j \in 0 .. m - 1 : j \in T) => m \in T
    <3>1. ASSUME NEW m \in 1 .. n, \A j \in 0 .. m - 1 : j \in T
          PROVE  m \in T
      <4>1. m - 1 \in T
        BY <3>1
      <4> QED BY <1>2, <4>1
    <3> QED BY <3>1
  <2> HIDE DEF T
  <2> QED BY <1>1, <2>1, AllPositions
<1>4. Cover(n) = Covered(G, n)
  BY DEF Covered
<1>5. WeightOf(res, 1 .. n) = WeightOf(src, Cover(n))
  BY <1>3
<1> HIDE DEF Cover
<1> QED BY <1>4, <1>5

(* All of S in a sequence, each element once. *)
Lists(s, S) ==
  \E n \in Nat : /\ s \in [1 .. n -> S]
                 /\ \A i, j \in 1 .. n : s[i] = s[j] => i = j
                 /\ \A x \in S : \E i \in 1 .. n : s[i] = x

(* What SetToSeq makes of a finite set. *)
LEMMA SetInSequence ==
  ASSUME NEW S, IsFiniteSet(S), NEW s, s = SetToSeq(S)
  PROVE  Lists(s, S)
<1>1. PICK n \in Nat : ExistsBijection(1 .. n, S)
  BY FS_NatBijection
<1>2. Cardinality(S) = n
  BY <1>1, FS_CountingElements
<1>3. PICK f \in [1 .. n -> S] : IsInjective(f)
  BY <1>1 DEF ExistsBijection, Bijection, Injection
<1>4. s \in [1 .. n -> S] /\ IsInjective(s)
  BY <1>2, <1>3 DEF SetToSeq
<1>5. s \in Injection(1 .. n, S)
  BY <1>4 DEF Injection
<1>6. Cardinality(1 .. n) = n /\ IsFiniteSet(1 .. n)
  <2>1. Cardinality(1 .. n) = (IF 1 > n THEN 0 ELSE n - 1 + 1) /\ IsFiniteSet(1 .. n)
    BY FS_Interval
  <2> QED BY <2>1
<1>7. s \in Surjection(1 .. n, S)
  BY <1>2, <1>5, <1>6, FS_Injection
<1>8. /\ \A i, j \in 1 .. n : s[i] = s[j] => i = j
      /\ \A x \in S : \E i \in 1 .. n : s[i] = x
  BY <1>4, <1>7 DEF Surjection, IsInjective
<1> QED BY <1>4, <1>8 DEF Lists

-----------------------------------------------------------------------------
(***************************************************************************)
(* What an aggregation returns.                                            *)
(***************************************************************************)
(* A list of rows, each with its cells, and each computed from some row of the source. *)
Solid(res) ==
  /\ Len(res.rows) \in Nat /\ DOMAIN res.rows = 1 .. Len(res.rows)
  /\ \A n \in DOMAIN res.rows :
       /\ Len(res.rows[n].cells) = Len(res.columns)
       /\ res.rows[n].weight \in Nat /\ res.rows[n].weight >= 1

LEMMA SolidIsWeighed ==
  ASSUME NEW res, Solid(res)
  PROVE  Weighed(res)
<1>1. PICK n \in Nat : DOMAIN res.rows = 1 .. n
  BY DEF Solid
<1>2. IsFiniteSet(1 .. n)
  BY FS_Interval
<1> QED BY <1>1, <1>2 DEF Solid, Weighed

(* Finitely many rows have finitely many keys. *)
LEMMA GroupsAreFinite ==
  ASSUME NEW step, NEW src, IsFiniteSet(DOMAIN src.rows)
  PROVE  IsFiniteSet(GroupKeys(step, src))
<1> DEFINE T == { KeyOf(step, src, src.rows[n]) : n \in DOMAIN src.rows }
           f == [n \in DOMAIN src.rows |-> KeyOf(step, src, src.rows[n])]
           E == IF step.group_by = << >> THEN {<< >>} ELSE {}
<1>1. f \in Surjection(DOMAIN src.rows, T)
  BY DEF Surjection
<1>2. IsFiniteSet(T)
  <2> HIDE DEF T, f
  <2> QED BY <1>1, FS_Surjection
<1>3. IsFiniteSet(E)
  BY FS_EmptySet, FS_Singleton
<1>4. GroupKeys(step, src) = T \cup E
  BY DEF GroupKeys
<1> HIDE DEF T, E
<1> QED BY <1>2, <1>3, <1>4, FS_Union

(* A key has a cell for each of the columns that the rows are grouped by. *)
LEMMA KeysAre ==
  ASSUME NEW step, step.group_by \in Seq(STRING), NEW src, NEW key \in GroupKeys(step, src)
  PROVE  \E X : key \in Seq(X) /\ Len(key) = Len(step.group_by)
<1>1. PICK m \in Nat : m = Len(step.group_by) /\ DOMAIN step.group_by = 1 .. m
  OBVIOUS
<1>2. CASE \E n \in DOMAIN src.rows : key = KeyOf(step, src, src.rows[n])
  <2>1. PICK n \in DOMAIN src.rows : key = KeyOf(step, src, src.rows[n])
    BY <1>2
  <2>2. PICK X : X = { Cell(src, src.rows[n], step.group_by[i]) : i \in 1 .. m }
    OBVIOUS
  <2>3. key = [i \in 1 .. m |-> Cell(src, src.rows[n], step.group_by[i])]
    BY <1>1, <2>1 DEF KeyOf
  <2>4. \A i \in 1 .. m : Cell(src, src.rows[n], step.group_by[i]) \in X
    BY <2>2
  <2>5. key \in [1 .. m -> X]
    BY <2>3, <2>4
  <2>6. key \in Seq(X) /\ Len(key) = m
    BY <2>5
  <2> QED BY <1>1, <2>6
<1>3. CASE key = << >> /\ step.group_by = << >>
  <2>1. key \in Seq(STRING)
    BY <1>3
  <2> QED BY <1>3, <2>1
<1> QED BY <1>2, <1>3 DEF GroupKeys

(* A sequence and what is computed for each position of a list are as long as both. *)
LEMMA LengthWith ==
  ASSUME NEW X, NEW a \in Seq(X), NEW m \in Nat, NEW f, DOMAIN f = 1 .. m,
         f = [j \in 1 .. m |-> f[j]]
  PROVE  Len(a \o f) = Len(a) + m
<1>1. PICK Y : Y = X \cup { f[j] : j \in 1 .. m }
  OBVIOUS
<1>2. a \in Seq(Y)
  BY <1>1
<1>3. f \in [1 .. m -> Y]
  BY <1>1
<1>4. f \in Seq(Y) /\ Len(f) = m
  BY <1>3
<1> QED BY <1>2, <1>4

LEMMA AggregateIs ==
  ASSUME NEW step, step.group_by \in Seq(STRING),
         Len(step.ops) \in Nat, DOMAIN step.ops = 1 .. Len(step.ops),
         NEW src, Solid(src), NEW k \in Nat \ {0}, NEW agg, agg = Aggregate(step, src, k)
  PROVE  /\ Solid(agg.result)
         /\ agg.result.label = src.label
         /\ agg.suppressed \in Nat
         /\ \A n \in DOMAIN agg.result.rows : agg.result.rows[n].weight >= k
         /\ agg.suppressed = 0 =>
              WeightOf(agg.result, DOMAIN agg.result.rows) = WeightOf(src, DOMAIN src.rows)
<1>1. Weighed(src)
  BY SolidIsWeighed
<1> DEFINE keys  == SetToSeq(GroupKeys(step, src))
           group == [ i \in DOMAIN keys |-> Members(step, src, keys[i]) ]
           rows  == [ i \in DOMAIN keys |->
                        [ cells  |-> keys[i] \o [ j \in DOMAIN step.ops |->
                                                    Compute(step.ops[j], src, group[i]) ],
                          weight |-> WeightOf(src, group[i]) ] ]
           sizes == [ i \in DOMAIN keys |-> Cardinality(group[i]) ]
           kept  == SuppressSmallGroups(rows, sizes, k)
           cols  == step.group_by \o [ j \in DOMAIN step.ops |-> step.ops[j].as ]
<1>2. agg = [result |-> Result(cols, kept.rows, src.label), suppressed |-> kept.suppressed]
  BY DEF Aggregate
<1>3. PICK n \in Nat : /\ keys \in [1 .. n -> GroupKeys(step, src)]
                       /\ \A i, j \in 1 .. n : keys[i] = keys[j] => i = j
                       /\ \A x \in GroupKeys(step, src) : \E i \in 1 .. n : keys[i] = x
  <2>1. PICK S, s : S = GroupKeys(step, src) /\ s = keys
    OBVIOUS
  <2>2. IsFiniteSet(S)
    BY <1>1, <2>1, GroupsAreFinite DEF Weighed
  <2>3. s = SetToSeq(S)
    BY <2>1
  <2> HIDE DEF keys, group, rows, sizes, kept, cols
  <2>4. Lists(s, S)
    BY <2>2, <2>3, SetInSequence
  <2> QED BY <2>1, <2>4 DEF Lists
<1>4. PICK m \in Nat : m = Len(step.ops)
  OBVIOUS
<1>5. DOMAIN keys = 1 .. n
  BY <1>3
<1>6. \A i \in 1 .. n : /\ group[i] = Members(step, src, keys[i])
                        /\ sizes[i] = Cardinality(group[i])
                        /\ rows[i].weight = WeightOf(src, group[i])
                        /\ rows[i].cells = keys[i] \o [ j \in 1 .. m |->
                                                Compute(step.ops[j], src, group[i]) ]
  BY <1>4, <1>5
<1>7. DOMAIN rows = 1 .. n /\ rows = [i \in 1 .. n |-> rows[i]]
  BY <1>5
<1>8. DOMAIN sizes = 1 .. n /\ sizes = [i \in 1 .. n |-> sizes[i]]
  BY <1>5
<1>9. Len(cols) = Len(step.group_by) + m
  <2>1. PICK f : f = [ j \in 1 .. m |-> step.ops[j].as ]
    OBVIOUS
  <2>2. DOMAIN f = 1 .. m /\ f = [j \in 1 .. m |-> f[j]]
    BY <2>1
  <2>3. Len(step.group_by \o f) = Len(step.group_by) + m
    BY <2>2, LengthWith
  <2> QED BY <1>4, <2>1, <2>3
<1> HIDE DEF keys, group, rows, sizes, kept, cols
<1>10. \A i \in 1 .. n : Len(rows[i].cells) = Len(cols)
  <2> SUFFICES ASSUME NEW i \in 1 .. n
               PROVE  Len(rows[i].cells) = Len(cols)
    OBVIOUS
  <2>1. PICK f : f = [ j \in 1 .. m |-> Compute(step.ops[j], src, group[i]) ]
    OBVIOUS
  <2>2. DOMAIN f = 1 .. m /\ f = [j \in 1 .. m |-> f[j]]
    BY <2>1
  <2>3. PICK key : key = keys[i]
    OBVIOUS
  <2>4. key \in GroupKeys(step, src)
    BY <1>3, <2>3
  <2>5. PICK X : key \in Seq(X) /\ Len(key) = Len(step.group_by)
    BY <2>4, KeysAre
  <2>6. Len(key \o f) = Len(key) + m
    BY <2>2, <2>5, LengthWith
  <2> QED BY <1>6, <1>9, <2>1, <2>3, <2>5, <2>6
<1>11. PICK R : R = { rows[i] : i \in 1 .. n }
  OBVIOUS
<1>12. rows \in Seq(R) /\ Len(rows) = n /\ Len(sizes) = n
  <2>1. rows \in [1 .. n -> R]
    BY <1>7, <1>11
  <2>2. PICK Z : Z = { sizes[i] : i \in 1 .. n }
    OBVIOUS
  <2>3. sizes \in [1 .. n -> Z]
    BY <1>8, <2>2
  <2> QED BY <2>1, <2>3
<1>13. /\ kept.rows \in Seq(R) /\ Len(kept.rows) <= n
       /\ kept.suppressed = n - Len(kept.rows)
       /\ \A j \in DOMAIN kept.rows : \E i \in 1 .. n : sizes[i] >= k /\ kept.rows[j] = rows[i]
  <2>1. /\ kept.rows \in Seq(R) /\ Len(kept.rows) <= Len(rows)
        /\ kept.suppressed = Len(rows) - Len(kept.rows)
        /\ \A j \in DOMAIN kept.rows :
             \E i \in DOMAIN rows : sizes[i] >= k /\ kept.rows[j] = rows[i]
    <3>1. PICK r, z, q : r = rows /\ z = sizes /\ q = kept
      OBVIOUS
    <3>2. r \in Seq(R) /\ Len(z) = Len(r)
      BY <1>12, <3>1
    <3>3. q = SuppressSmallGroups(r, z, k)
      BY <3>1 DEF kept
    <3>4. BackedRows(R, r, z, k, q)
      BY <3>2, <3>3, KeptAreBacked
    <3> QED BY <3>1, <3>4 DEF BackedRows
  <2> QED BY <1>7, <1>12, <2>1
<1>14. agg.result = [columns |-> cols, rows |-> kept.rows, label |-> src.label]
  BY <1>2 DEF Result
<1>15. \A i \in 1 .. n : group[i] \in SUBSET DOMAIN src.rows
  BY <1>6 DEF Members
<1>16. ASSUME NEW j \in DOMAIN kept.rows
       PROVE  /\ Len(kept.rows[j].cells) = Len(cols)
              /\ kept.rows[j].weight \in Nat /\ kept.rows[j].weight >= k
  <2>1. PICK i \in 1 .. n : sizes[i] >= k /\ kept.rows[j] = rows[i]
    BY <1>13
  <2>2. PICK g \in SUBSET DOMAIN src.rows : g = group[i]
    BY <1>15
  <2>3. WeightOf(src, g) \in Nat /\ WeightOf(src, g) >= Cardinality(g)
    BY <1>1, WeightIsNumber, WeightAtLeast DEF Solid
  <2>4. Cardinality(g) \in Nat
    BY <1>1, FS_Subset, FS_CardinalityType DEF Weighed
  <2>5. Cardinality(g) >= k /\ rows[i].weight = WeightOf(src, g)
    BY <1>6, <2>1, <2>2
  <2>6. WeightOf(src, g) >= k
    <3>1. PICK a, b : a = WeightOf(src, g) /\ b = Cardinality(g)
      OBVIOUS
    <3>2. a >= k
      BY <2>3, <2>4, <2>5, <3>1
    <3> QED BY <3>1, <3>2
  <2> QED BY <1>10, <2>1, <2>3, <2>5, <2>6
<1>17. Solid(agg.result)
  <2>1. Len(kept.rows) \in Nat /\ DOMAIN kept.rows = 1 .. Len(kept.rows)
    BY <1>13
  <2>2. \A j \in DOMAIN kept.rows : kept.rows[j].weight >= 1
    <3> SUFFICES ASSUME NEW j \in DOMAIN kept.rows
                 PROVE  kept.rows[j].weight >= 1
      OBVIOUS
    <3>1. PICK w : w = kept.rows[j].weight
      OBVIOUS
    <3>2. w \in Nat /\ w >= k
      BY <1>16, <3>1
    <3> QED BY <3>1, <3>2
  <2> QED BY <1>14, <1>16, <2>1, <2>2 DEF Solid
<1>18. agg.suppressed = kept.suppressed /\ agg.suppressed \in Nat
  <2>1. PICK a : a = Len(kept.rows)
    OBVIOUS
  <2>2. a \in Nat /\ a <= n /\ kept.suppressed = n - a
    BY <1>13, <2>1
  <2> QED BY <1>2, <2>2
<1>19. ASSUME agg.suppressed = 0
       PROVE  WeightOf(agg.result, DOMAIN agg.result.rows) = WeightOf(src, DOMAIN src.rows)
  <2>1. kept.rows = rows
    <3>1. PICK r, z : r = rows /\ z = sizes
      OBVIOUS
    <3>2. r \in Seq(R) /\ Len(z) = Len(r)
      BY <1>12, <3>1
    <3>3. kept = SuppressSmallGroups(r, z, k)
      BY <3>1 DEF kept
    <3>4. SuppressSmallGroups(r, z, k).suppressed = 0
      BY <1>18, <1>19, <3>3
    <3>5. SuppressSmallGroups(r, z, k).rows = r
      BY <3>2, <3>4, KeptAreAll
    <3> QED BY <3>1, <3>3, <3>5
  <2>2. PICK res : res = agg.result
    OBVIOUS
  <2>3. DOMAIN res.rows = 1 .. n /\ Weighed(res)
    <3>1. Weighed(res)
      BY <1>17, <2>2, SolidIsWeighed
    <3>2. res.rows = rows
      BY <1>14, <2>1, <2>2
    <3> QED BY <1>7, <3>1, <3>2
  <2>4. PICK G : G = group
    OBVIOUS
  <2>5. \A i \in 1 .. n : G[i] \in SUBSET DOMAIN src.rows /\ res.rows[i].weight = WeightOf(src, G[i])
    BY <1>6, <1>14, <1>15, <2>1, <2>2, <2>4
  <2>6. \A i, j \in 1 .. n : i # j => G[i] \cap G[j] = {}
    BY <1>3, <1>6, <2>4 DEF Members
  <2>7. Covered(G, n) = DOMAIN src.rows
    <3>1. ASSUME NEW x \in DOMAIN src.rows
          PROVE  \E i \in 1 .. n : x \in G[i]
      <4>1. KeyOf(step, src, src.rows[x]) \in GroupKeys(step, src)
        BY DEF GroupKeys
      <4>2. PICK i \in 1 .. n : keys[i] = KeyOf(step, src, src.rows[x])
        BY <1>3, <4>1
      <4>3. x \in Members(step, src, keys[i])
        BY <4>2 DEF Members
      <4> QED BY <1>6, <2>4, <4>3
    <3>2. \A x : x \in Covered(G, n) <=> \E i \in 1 .. n : x \in G[i]
      BY DEF Covered
    <3> QED BY <2>5, <3>1, <3>2
  <2>8. WeightOf(res, 1 .. n) = WeightOf(src, Covered(G, n))
    BY <1>1, <2>3, <2>5, <2>6, WeightOfGroups
  <2> QED BY <2>2, <2>3, <2>7, <2>8
<1>20. \A j \in DOMAIN agg.result.rows : agg.result.rows[j].weight >= k
  BY <1>14, <1>16
<1>21. agg.result.label = src.label
  BY <1>14
<1> QED BY <1>17, <1>18, <1>19, <1>20, <1>21

-----------------------------------------------------------------------------
(***************************************************************************)
(* The inductive invariant.                                                *)
(***************************************************************************)
(* The query behind step i, when those of the steps before are g's. *)
BehindAt(steps, g, i) ==
  IF i = 0 \/ steps[i].type = "query" THEN i ELSE g[InputOf(steps, i)]

BehindsOf(steps) == CHOOSE g : g = [i \in 0 .. Len(steps) |-> BehindAt(steps, g, i)]

BehindOf(steps, i) == BehindsOf(steps)[i]

(* The schema that the policy would have read when the run started. *)
SchemaAtStart == SchemaLabels(ReadSchema(started))

(* The steps so far have been run in their order, and have their results. *)
InOrder ==
  /\ plan \in Plans
  /\ pc \in {"start", "step", "rows", "done"}
  /\ pc = "start" => pos = 1 /\ results = << >>
  /\ pc \in {"step", "rows"} =>
       ValidPlan(plan) /\ pos \in DOMAIN plan /\ DOMAIN results = 1 .. pos - 1
  /\ pc = "rows" => plan[pos].type = "query"
  /\ pos \in 1 .. Len(plan) + 1

(* Each result is one that the threshold, where it is an aggregate's, has been applied to. *)
Results ==
  \A id \in DOMAIN results :
    /\ id \in DOMAIN plan
    /\ Solid(results[id])
    /\ results[id].label \in LevelNames
    /\ plan[id].type = "aggregate" =>
         \A n \in DOMAIN results[id].rows : results[id].rows[n].weight >= K

(* While no group has been dropped, each result is computed from all the rows of its query. *)
Complete ==
  /\ suppressed \in Nat
  /\ \A id \in DOMAIN results :
       /\ BehindOf(plan, id) \in DOMAIN results
       /\ suppressed = 0 =>
            WeightOf(results[id], DOMAIN results[id].rows) = Len(results[BehindOf(plan, id)].rows)

(* While the source is not relabelled, each result has the label that the policy gives its step. *)
Labelled ==
  /\ label \in LevelNames \cup {NoLabel}
  /\ pc = "rows" => label \in LevelNames
  /\ relabels = 0 =>
       /\ source = started
       /\ pc = "rows" => label = NameOf(QueryLabel(plan[pos].template, SchemaAtStart))
       /\ \A id \in DOMAIN results :
            results[id].label = NameOf(StepLabels(plan, SchemaAtStart)[id])

(* Without an error, what comes out is the result that the last step presents. *)
Ended ==
  /\ pc = "done" <=> outcome.code # "none"
  /\ outcome.code \in OwnErrors \cup AdapterErrors \cup Faults \cup {"none", "ok"}
  /\ outcome.code # "ok" => outcome.result = NoResult
  /\ UnreachableIsUnreachable
  /\ outcome.code = "ok" =>
       /\ ValidPlan(plan)
       /\ plan[Len(plan)].input \in DOMAIN results
       /\ outcome.result = results[plan[Len(plan)].input]

ExecutorInv == InOrder /\ Results /\ Complete /\ Labelled /\ Ended

-----------------------------------------------------------------------------
(***************************************************************************)
(* What a valid plan is to the executor.                                   *)
(***************************************************************************)
(* The threshold is never below 1. *)
LEMMA ThresholdIsPositive == K \in Nat \ {0}
<1>1. PICK v : v = RawK.value
  OBVIOUS
<1>2. v \in Int
  BY <1>1, RawIsNumber
<1>3. K = IF RawK.kind = "number" /\ v >= 1 THEN v ELSE DefaultK
  BY <1>1 DEF K, PositiveInt
<1> QED BY <1>2, <1>3, DefaultIsPositive

(* A valid plan is a chain of steps that the policy can label, and its parameters convert. *)
LEMMA ValidIsChained ==
  ASSUME NEW steps \in Plans, ValidPlan(steps)
  PROVE  /\ IsChained(steps) /\ IsPlan(steps)
         /\ \A i \in DOMAIN steps : steps[i].type = "query" =>
              \A name \in DOMAIN steps[i].params : Converts(steps[i].params[name])
<1>1. IsList(steps)
  BY PlansAreLists DEF IsList
<1>2. /\ IsChained(steps)
      /\ \A i \in DOMAIN steps : steps[i].type = "query" =>
           \A name \in DOMAIN steps[i].params : Converts(steps[i].params[name])
  BY <1>1, ValidPlans
<1>3. IsPlan(steps)
  BY <1>2, PlansAreLists DEF IsPlan, IsChained
<1> QED BY <1>2, <1>3

(* The queries behind the steps up to any number can be found. *)
LEMMA BehindsExist ==
  ASSUME NEW steps
  PROVE  \A n \in Nat : \E g : g = [i \in 0 .. n |-> BehindAt(steps, g, i)]
<1> DEFINE T == { n \in Nat : \E g : g = [i \in 0 .. n |-> BehindAt(steps, g, i)] }
<1>1. 0 \in T
  <2> DEFINE g == [i \in 0 .. 0 |-> 0]
  <2>1. \A i \in 0 .. 0 : BehindAt(steps, g, i) = 0
    BY DEF BehindAt
  <2>2. g = [i \in 0 .. 0 |-> BehindAt(steps, g, i)]
    BY <2>1
  <2> QED BY <2>2
<1>2. ASSUME NEW n \in T
      PROVE  n + 1 \in T
  <2>1. PICK g : g = [i \in 0 .. n |-> BehindAt(steps, g, i)]
    OBVIOUS
  <2> DEFINE h == [i \in 0 .. n + 1 |->
                     IF i \in 0 .. n THEN g[i] ELSE BehindAt(steps, g, i)]
  <2>2. ASSUME NEW i \in 0 .. n + 1
        PROVE  h[i] = BehindAt(steps, h, i)
    <3>1. h[i] = BehindAt(steps, g, i)
      BY <2>1
    <3>2. CASE i = 0
      BY <3>1, <3>2 DEF BehindAt
    <3>3. CASE i > 0
      <4>1. InputOf(steps, i) \in 0 .. i - 1
        BY <3>3, InputsAreBefore
      <4>2. h[InputOf(steps, i)] = g[InputOf(steps, i)]
        BY <4>1
      <4> HIDE DEF h
      <4> QED BY <3>1, <3>3, <4>2 DEF BehindAt
    <3> QED BY <3>2, <3>3
  <2>3. h = [i \in 0 .. n + 1 |-> BehindAt(steps, h, i)]
    <3>1. h = [i \in 0 .. n + 1 |-> h[i]]
      OBVIOUS
    <3> HIDE DEF h
    <3> QED BY <2>2, <3>1
  <2> HIDE DEF h
  <2> QED BY <2>3
<1>3. T = Nat
  <2>1. T \in SUBSET Nat
    OBVIOUS
  <2> HIDE DEF T
  <2> QED BY <1>1, <1>2, <2>1, AllNumbers
<1> QED BY <1>3

(* The query behind a query is itself, that behind another step is the one behind its input. *)
LEMMA BehindIs ==
  ASSUME NEW steps, IsChained(steps)
  PROVE  /\ QueryBehind(steps) = BehindOf(steps, Len(steps))
         /\ \A i \in DOMAIN steps :
              BehindOf(steps, i) = IF steps[i].type = "query" THEN i
                                   ELSE BehindOf(steps, steps[i].input)
<1>0. PICK n \in Nat : n = Len(steps) /\ DOMAIN steps = 1 .. n
  BY DEF IsChained
<1>1. PICK g : g = BehindsOf(steps)
  OBVIOUS
<1>2. g = [i \in 0 .. n |-> BehindAt(steps, g, i)]
  BY <1>0, <1>1, BehindsExist DEF BehindsOf
<1>3. ASSUME NEW i \in DOMAIN steps
      PROVE  BehindOf(steps, i) = IF steps[i].type = "query" THEN i
                                  ELSE BehindOf(steps, steps[i].input)
  <2>1. i \in 0 .. n /\ i # 0
    BY <1>0
  <2>2. g[i] = BehindAt(steps, g, i)
    BY <1>2, <2>1
  <2>3. CASE steps[i].type = "query"
    BY <1>1, <2>2, <2>3 DEF BehindAt, BehindOf
  <2>4. CASE steps[i].type # "query"
    <3>1. InputOf(steps, i) = steps[i].input
      BY <2>4, ChainedInputs
    <3> QED BY <1>1, <2>1, <2>2, <2>4, <3>1 DEF BehindAt, BehindOf
  <2> QED BY <2>3, <2>4
<1>4. QueryBehind(steps) = BehindOf(steps, Len(steps))
  BY DEF QueryBehind, BehindOf, BehindsOf, BehindAt
<1> QED BY <1>3, <1>4

-----------------------------------------------------------------------------
(***************************************************************************)
(* The invariant holds at first, and every step keeps it.                  *)
(***************************************************************************)
(* Nothing has been run. *)
LEMMA ExecutorInit == Init => ExecutorInv
<1> SUFFICES ASSUME Init
             PROVE  ExecutorInv
  OBVIOUS
<1>1. DOMAIN results = {} /\ Len(plan) \in Nat
  BY PlansAreLists DEF Init
<1>2. InOrder
  BY <1>1 DEF Init, InOrder
<1>3. Results /\ Complete
  BY <1>1 DEF Init, Results, Complete
<1>4. Labelled
  BY <1>1 DEF Init, Labelled
<1>5. Ended
  BY DEF Init, Ended, Outcome, UnreachableIsUnreachable
<1> QED BY <1>2, <1>3, <1>4, <1>5 DEF ExecutorInv

Unreachable == {"KeyError", "invalid_params", "no_present_step"}

(* An error that can happen ends the run, and nothing comes out. *)
LEMMA RaiseKeeps ==
  ASSUME ExecutorInv, NEW code \in (OwnErrors \cup AdapterErrors \cup Faults) \ Unreachable,
         Raise(code), relabels = 0 => started' = started, label' \in LevelNames \cup {NoLabel},
         UNCHANGED << plan, pos, results, suppressed, source, relabels >>
  PROVE  ExecutorInv'
<1> USE DEF ExecutorInv, Raise
<1>1. InOrder'
  BY DEF InOrder
<1>2. Results' /\ Complete'
  BY DEF Results, Complete
<1>3. Labelled'
  BY DEF Labelled, SchemaAtStart
<1>4. code # "none" /\ code # "ok" /\ code \notin Unreachable
  BY DEF OwnErrors, AdapterErrors, Faults
<1>5. outcome'.code = code /\ outcome'.result = NoResult /\ pc' = "done"
  BY DEF Outcome
<1>6. Ended'
  BY <1>4, <1>5 DEF Ended, UnreachableIsUnreachable, Unreachable
<1> QED BY <1>1, <1>2, <1>3, <1>6

(* A run starts with a valid plan, and reads the labels of this source. *)
LEMMA StartKeeps ==
  ASSUME ExecutorInv, Start
  PROVE  ExecutorInv'
<1>1. /\ pc = "start" /\ started' = source /\ pos = 1 /\ results = << >> /\ plan \in Plans
      /\ UNCHANGED << plan, adapter, pos, label, results, suppressed, source, tagged, relabels >>
  BY DEF Start, ExecutorInv, InOrder
<1>2. relabels = 0 => started' = started
  BY <1>1 DEF ExecutorInv, Labelled
<1>3. \/ \E code \in {"invalid_plan", "adapter_not_read_only", "dsl_version_unsupported"} : Raise(code)
      \/ ValidPlan(plan) /\ pc' = "step" /\ UNCHANGED outcome
  BY DEF Start
<1>4. CASE \E code \in {"invalid_plan", "adapter_not_read_only", "dsl_version_unsupported"} : Raise(code)
  <2>1. PICK code \in {"invalid_plan", "adapter_not_read_only", "dsl_version_unsupported"} : Raise(code)
    BY <1>4
  <2>2. code \in (OwnErrors \cup AdapterErrors \cup Faults) \ Unreachable
    BY DEF OwnErrors, AdapterErrors, Faults, Unreachable
  <2>3. label' \in LevelNames \cup {NoLabel}
    BY <1>1 DEF ExecutorInv, Labelled
  <2> QED BY <1>1, <1>2, <2>1, <2>2, <2>3, RaiseKeeps
<1>5. CASE ValidPlan(plan) /\ pc' = "step" /\ UNCHANGED outcome
  <2>1. IsChained(plan)
    BY <1>1, <1>5, ValidIsChained
  <2>2. pos \in DOMAIN plan /\ DOMAIN results = 1 .. pos - 1 /\ DOMAIN results = {}
    BY <1>1, <2>1 DEF IsChained
  <2>3. InOrder'
    BY <1>1, <1>5, <2>2 DEF ExecutorInv, InOrder
  <2>4. Results' /\ Complete'
    BY <1>1 DEF ExecutorInv, Results, Complete
  <2>5. Labelled'
    BY <1>1, <1>2, <1>5, <2>2 DEF ExecutorInv, Labelled
  <2>6. Ended'
    BY <1>1, <1>5 DEF ExecutorInv, Ended, UnreachableIsUnreachable
  <2> QED BY <2>3, <2>4, <2>5, <2>6 DEF ExecutorInv
<1> QED BY <1>3, <1>4, <1>5

(* One more result, that is what it should be, is kept under its number. *)
LEMMA KeepKeeps ==
  ASSUME ExecutorInv, pc \in {"step", "rows"}, plan[pos].type # "present",
         NEW r, Keep(r), UNCHANGED << plan, outcome, source, started, relabels >>,
         label' \in LevelNames \cup {NoLabel}, suppressed' \in Nat, suppressed' = 0 => suppressed = 0,
         Solid(r), r.label \in LevelNames,
         plan[pos].type = "aggregate" => \A n \in DOMAIN r.rows : r.rows[n].weight >= K,
         plan[pos].type = "query" => WeightOf(r, DOMAIN r.rows) = Len(r.rows),
         plan[pos].type # "query" /\ suppressed' = 0 =>
           WeightOf(r, DOMAIN r.rows)
             = WeightOf(results[plan[pos].input], DOMAIN results[plan[pos].input].rows),
         relabels = 0 => r.label = NameOf(StepLabels(plan, SchemaAtStart)[pos])
  PROVE  ExecutorInv'
<1>1. /\ plan \in Plans /\ ValidPlan(plan) /\ pos \in DOMAIN plan
      /\ DOMAIN results = 1 .. pos - 1
  BY DEF ExecutorInv, InOrder
<1>2. IsChained(plan)
  BY <1>1, ValidIsChained
<1>3. /\ Len(plan) \in Nat /\ DOMAIN plan = 1 .. Len(plan) /\ plan[pos].id = pos
      /\ pos # Len(plan) /\ (plan[pos].type # "query" => plan[pos].input \in 1 .. pos - 1)
  BY <1>1, <1>2 DEF IsChained
<1>4. results' = With(results, pos, r) /\ pos' = pos + 1 /\ pc' = "step"
  BY <1>3 DEF Keep, Step
<1>5. PICK new : new = results'
  OBVIOUS
<1>6. pos \notin DOMAIN results
  BY <1>1, <1>3
<1>7. /\ DOMAIN new = {pos} \cup DOMAIN results /\ new[pos] = r
      /\ \A i \in DOMAIN results : new[i] = results[i] /\ i # pos
  <2>1. PICK f, p : f = results /\ p = pos
    OBVIOUS
  <2>2. p \notin DOMAIN f /\ new = With(f, p, r)
    BY <1>4, <1>5, <1>6, <2>1
  <2>3. /\ DOMAIN new = {p} \cup DOMAIN f /\ new[p] = r
        /\ \A i \in DOMAIN f : new[i] = f[i] /\ i # p
    BY <2>2 DEF With
  <2> QED BY <2>1, <2>3
<1>8. InOrder'
  <2>1. pos + 1 \in DOMAIN plan /\ pos + 1 \in 1 .. Len(plan) + 1
    BY <1>1, <1>3
  <2>2. DOMAIN new = 1 .. pos
    BY <1>1, <1>3, <1>7
  <2>3. pos + 1 - 1 = pos
    BY <1>1, <1>3
  <2>4. PICK p, d : p = pos' /\ d = DOMAIN results'
    OBVIOUS
  <2>5. p = pos + 1 /\ d = 1 .. pos
    BY <1>4, <1>5, <2>2, <2>4
  <2>6. p \in DOMAIN plan /\ p \in 1 .. Len(plan) + 1
    BY <2>1, <2>5
  <2>7. d = 1 .. p - 1
    BY <1>1, <1>3, <2>5
  <2> QED BY <1>1, <1>4, <2>4, <2>6, <2>7 DEF InOrder
<1>9. Results'
  <2>1. ASSUME NEW id \in DOMAIN new
        PROVE  /\ id \in DOMAIN plan /\ Solid(new[id]) /\ new[id].label \in LevelNames
               /\ plan[id].type = "aggregate" =>
                    \A n \in DOMAIN new[id].rows : new[id].rows[n].weight >= K
    <3>1. CASE id = pos
      BY <1>1, <1>7, <3>1
    <3>2. CASE id \in DOMAIN results
      BY <1>7, <3>2 DEF ExecutorInv, Results
    <3> QED BY <1>7, <3>1, <3>2
  <2> QED BY <1>5, <2>1 DEF Results
<1>10. Complete'
  <2>1. ASSUME NEW id \in DOMAIN new
        PROVE  /\ BehindOf(plan, id) \in DOMAIN new
               /\ suppressed' = 0 =>
                    WeightOf(new[id], DOMAIN new[id].rows) = Len(new[BehindOf(plan, id)].rows)
    <3>1. CASE id \in DOMAIN results
      <4>1. BehindOf(plan, id) \in DOMAIN results
        BY <3>1 DEF ExecutorInv, Complete
      <4>2. suppressed' = 0 =>
              WeightOf(results[id], DOMAIN results[id].rows) = Len(results[BehindOf(plan, id)].rows)
        BY <3>1 DEF ExecutorInv, Complete
      <4> QED BY <1>7, <3>1, <4>1, <4>2
    <3>2. CASE id = pos /\ plan[pos].type = "query"
      <4>1. BehindOf(plan, pos) = pos
        BY <1>1, <1>2, <3>2, BehindIs
      <4> QED BY <1>7, <3>2, <4>1
    <3>3. CASE id = pos /\ plan[pos].type # "query"
      <4>1. PICK in : in = plan[pos].input
        OBVIOUS
      <4>2. BehindOf(plan, pos) = BehindOf(plan, in) /\ in \in DOMAIN results
        BY <1>1, <1>2, <1>3, <3>3, <4>1, BehindIs
      <4>3. BehindOf(plan, in) \in DOMAIN results
        BY <4>2 DEF ExecutorInv, Complete
      <4>4. suppressed' = 0 =>
              WeightOf(results[in], DOMAIN results[in].rows) = Len(results[BehindOf(plan, in)].rows)
        BY <4>2 DEF ExecutorInv, Complete
      <4> QED BY <1>7, <3>3, <4>1, <4>2, <4>3, <4>4
    <3> QED BY <1>7, <3>1, <3>2, <3>3
  <2> QED BY <1>5, <2>1 DEF Complete
<1>11. Labelled'
  <2>1. ASSUME relabels = 0, NEW id \in DOMAIN new
        PROVE  new[id].label = NameOf(StepLabels(plan, SchemaAtStart)[id])
    <3>1. CASE id = pos
      BY <1>7, <2>1, <3>1
    <3>2. CASE id \in DOMAIN results
      BY <1>7, <2>1, <3>2 DEF ExecutorInv, Labelled
    <3> QED BY <1>7, <3>1, <3>2
  <2>2. relabels = 0 => source = started
    BY DEF ExecutorInv, Labelled
  <2>3. SchemaAtStart' = SchemaAtStart
    BY DEF SchemaAtStart
  <2> QED BY <1>4, <1>5, <2>1, <2>2, <2>3 DEF Labelled
<1>12. Ended'
  <2>1. pc # "done" /\ outcome.code = "none"
    BY DEF ExecutorInv, Ended
  <2> QED BY <1>4, <2>1 DEF ExecutorInv, Ended, UnreachableIsUnreachable
<1> QED BY <1>8, <1>9, <1>10, <1>11, <1>12 DEF ExecutorInv

(* What a run that goes on can rely on. *)
LEMMA RunningPlan ==
  ASSUME ExecutorInv, pc \in {"step", "rows"}
  PROVE  /\ plan \in Plans /\ IsChained(plan) /\ IsPlan(plan) /\ pos \in DOMAIN plan
         /\ DOMAIN results = 1 .. pos - 1 /\ plan[pos].id = pos
         /\ plan[pos].type # "query" => plan[pos].input \in DOMAIN results
         /\ plan[pos].type = "query" =>
              \A name \in DOMAIN plan[pos].params : Converts(plan[pos].params[name])
<1>1. /\ plan \in Plans /\ ValidPlan(plan) /\ pos \in DOMAIN plan
      /\ DOMAIN results = 1 .. pos - 1
  BY DEF ExecutorInv, InOrder
<1>2. /\ IsChained(plan) /\ IsPlan(plan)
      /\ plan[pos].type = "query" =>
           \A name \in DOMAIN plan[pos].params : Converts(plan[pos].params[name])
  BY <1>1, ValidIsChained
<1>3. plan[pos].id = pos /\ (plan[pos].type # "query" => plan[pos].input \in 1 .. pos - 1)
  BY <1>1, <1>2 DEF IsChained
<1> QED BY <1>1, <1>2, <1>3

(* The first statement reads the label that the policy gives the template under this source. *)
LEMMA ReadLabelsKeeps ==
  ASSUME ExecutorInv, ReadLabels
  PROVE  ExecutorInv'
<1>1. /\ pc = "step" /\ plan[pos].type = "query" /\ pc' = "rows"
      /\ label' = NameOf(QueryLabel(plan[pos].template, SchemaLabels(ReadSchema(source))))
      /\ UNCHANGED << plan, adapter, pos, results, suppressed, outcome, source, started,
                      tagged, relabels >>
  BY DEF ReadLabels, Step
<1>2. IsPlan(plan) /\ pos \in DOMAIN plan
  BY <1>1, RunningPlan
<1>3. plan[pos].template.refs \in Seq(STRING)
  BY <1>1, <1>2 DEF IsPlan
<1>4. label' \in LevelNames
  <2>1. PICK l : l = QueryLabel(plan[pos].template, SchemaLabels(ReadSchema(source)))
    OBVIOUS
  <2>2. l \in Label
    BY <1>3, <2>1, QueryLabels
  <2>3. NameOf(l) \in LevelNames
    BY <2>2, LabelsHaveNames
  <2> QED BY <1>1, <2>1, <2>3
<1>5. InOrder'
  BY <1>1 DEF ExecutorInv, InOrder
<1>6. Results' /\ Complete'
  BY <1>1 DEF ExecutorInv, Results, Complete
<1>7. Labelled'
  <2>1. relabels = 0 => source = started
    BY DEF ExecutorInv, Labelled
  <2>2. SchemaAtStart' = SchemaAtStart
    BY <1>1 DEF SchemaAtStart
  <2>3. relabels = 0 => label' = NameOf(QueryLabel(plan[pos].template, SchemaAtStart))
    BY <1>1, <2>1 DEF SchemaAtStart
  <2>4. relabels = 0 => \A id \in DOMAIN results :
          results[id].label = NameOf(StepLabels(plan, SchemaAtStart)[id])
    BY DEF ExecutorInv, Labelled
  <2> QED BY <1>1, <1>4, <2>1, <2>2, <2>3, <2>4 DEF Labelled
<1>8. Ended'
  BY <1>1 DEF ExecutorInv, Ended, UnreachableIsUnreachable
<1> QED BY <1>5, <1>6, <1>7, <1>8 DEF ExecutorInv

(* The adapter's errors are not those that validation rules out. *)
LEMMA AdapterFailsKeeps ==
  ASSUME ExecutorInv, AdapterFails
  PROVE  ExecutorInv'
<1>1. PICK code \in {"connection", "timeout", "execution"} : Raise(code)
  BY DEF AdapterFails
<1>2. code \in (OwnErrors \cup AdapterErrors \cup Faults) \ Unreachable
  BY DEF AdapterErrors, Unreachable
<1>3. UNCHANGED << plan, adapter, pos, label, results, suppressed, source, started,
                   tagged, relabels >>
  BY DEF AdapterFails
<1>4. label' \in LevelNames \cup {NoLabel}
  BY <1>3 DEF ExecutorInv, Labelled
<1> QED BY <1>1, <1>2, <1>3, <1>4, RaiseKeeps

(* The rows of the source, each weighing one, under the label that was read for them. *)
LEMMA ReadRowsKeeps ==
  ASSUME ExecutorInv, ReadRows
  PROVE  ExecutorInv'
<1>1. /\ pc = "rows" /\ plan[pos].type = "query" /\ label' = NoLabel
      /\ UNCHANGED << plan, adapter, suppressed, source, started, relabels >>
  BY DEF ReadRows, ExecutorInv, InOrder
<1>2. /\ plan \in Plans /\ IsChained(plan) /\ IsPlan(plan) /\ pos \in DOMAIN plan
  BY <1>1, RunningPlan
<1>3. PICK rows \in RowsOf(plan[pos].template) :
        \/ Raise("limit_exceeded") /\ UNCHANGED << results, pos, tagged >>
        \/ Keep(Result(Columns, rows, label)) /\ UNCHANGED outcome
  BY DEF ReadRows, Step
<1>4. CASE Raise("limit_exceeded") /\ UNCHANGED << results, pos, tagged >>
  <2>1. "limit_exceeded" \in (OwnErrors \cup AdapterErrors \cup Faults) \ Unreachable
    BY DEF AdapterErrors, Unreachable
  <2> QED BY <1>1, <1>4, <2>1, RaiseKeeps
<1>5. CASE Keep(Result(Columns, rows, label)) /\ UNCHANGED outcome
  <2>1. PICK r : r = Result(Columns, rows, label)
    OBVIOUS
  <2>2. r.columns = Columns /\ r.rows = rows /\ r.label = label
    BY <2>1 DEF Result
  <2>3. PICK n \in Nat : /\ n = Len(rows) /\ DOMAIN rows = 1 .. n
                         /\ \A i \in 1 .. n : Len(rows[i].cells) = Len(Columns) /\ rows[i].weight = 1
    BY <1>1, <1>2, RowsAreRows
  <2>4. Solid(r)
    BY <2>2, <2>3 DEF Solid
  <2>5. WeightOf(r, DOMAIN r.rows) = Len(r.rows)
    <3>1. PICK M : M = DOMAIN r.rows
      OBVIOUS
    <3>2. Weighed(r) /\ M \in SUBSET DOMAIN r.rows
      BY <2>4, <3>1, SolidIsWeighed
    <3>3. \A i \in M : r.rows[i].weight = 1
      BY <2>2, <2>3, <3>1
    <3>4. WeightOf(r, M) = Cardinality(M)
      BY <3>2, <3>3, WeightOfRaw
    <3>5. Cardinality(1 .. n) = n
      BY FS_Interval
    <3> QED BY <2>2, <2>3, <3>1, <3>4, <3>5
  <2>6. /\ label \in LevelNames
        /\ relabels = 0 => label = NameOf(QueryLabel(plan[pos].template, SchemaAtStart))
    BY <1>1 DEF ExecutorInv, Labelled
  <2>7. StepLabels(plan, SchemaAtStart)[pos] = QueryLabel(plan[pos].template, SchemaAtStart)
    BY <1>1, <1>2, ChainedLabels
  <2>8. suppressed' \in Nat /\ suppressed' = suppressed
    BY <1>1 DEF ExecutorInv, Complete
  <2>9. Keep(r)
    BY <1>5, <2>1
  <2>10. plan[pos].type # "present" /\ plan[pos].type # "aggregate"
    BY <1>1
  <2>11. r.label = label /\ label' \in LevelNames \cup {NoLabel}
    BY <1>1, <2>2
  <2> QED BY <1>1, <1>5, <2>4, <2>5, <2>6, <2>7, <2>8, <2>9, <2>10, <2>11, KeepKeeps
<1> QED BY <1>3, <1>4, <1>5

(* An aggregation fails in one of four ways. *)
LEMMA AggregateErrorsAre ==
  ASSUME NEW step, NEW src
  PROVE  AggregateErrors(step, src)
           \subseteq {"unknown_column", "TypeError", "non_numeric_aggregate", "incomparable_values"}
<1>1. \A op, members :
        OpErrors(op, src, members) \subseteq {"non_numeric_aggregate", "incomparable_values"}
  BY DEF OpErrors
<1> SUFFICES ASSUME NEW code \in AggregateErrors(step, src),
                    code # "unknown_column", code # "TypeError"
             PROVE  code \in {"non_numeric_aggregate", "incomparable_values"}
  OBVIOUS
<1>2. \E i \in DOMAIN step.ops, key \in GroupKeys(step, src) :
        code \in OpErrors(step.ops[i], src, Members(step, src, key))
  BY DEF AggregateErrors
<1> QED BY <1>1, <1>2

(* A valid plan's step fails in no other way. *)
LEMMA StepRaisesKeeps ==
  ASSUME ExecutorInv, StepRaises
  PROVE  ExecutorInv'
<1>1. PICK code \in StepFaults : Raise(code)
  BY DEF StepRaises
<1>2. /\ pc = "step"
      /\ UNCHANGED << plan, adapter, pos, label, results, suppressed, source, started,
                      tagged, relabels >>
  BY DEF StepRaises
<1>3. /\ pos \in DOMAIN plan
      /\ plan[pos].type # "query" => plan[pos].input \in DOMAIN results
      /\ plan[pos].type = "query" =>
           \A name \in DOMAIN plan[pos].params : Converts(plan[pos].params[name])
  BY <1>2, RunningPlan
<1>4. plan[pos].type = "aggregate" /\ code \in AggregateErrors(plan[pos], results[plan[pos].input])
  BY <1>1, <1>3 DEF StepFaults, Step
<1>5. code \in {"unknown_column", "TypeError", "non_numeric_aggregate", "incomparable_values"}
  BY <1>4, AggregateErrorsAre
<1>6. code \in (OwnErrors \cup AdapterErrors \cup Faults) \ Unreachable
  BY <1>5 DEF OwnErrors, Faults, Unreachable
<1>7. label' \in LevelNames \cup {NoLabel}
  BY <1>2 DEF ExecutorInv, Labelled
<1> QED BY <1>1, <1>2, <1>6, <1>7, RaiseKeeps

(* An aggregation of a result is one, with the result's label. *)
LEMMA AggregateKeeps ==
  ASSUME ExecutorInv, AggregateStep
  PROVE  ExecutorInv'
<1>1. /\ pc = "step" /\ plan[pos].type = "aggregate"
      /\ UNCHANGED << plan, adapter, label, outcome, source, started, tagged, relabels >>
  BY DEF AggregateStep, Step
<1>2. /\ plan \in Plans /\ IsChained(plan) /\ IsPlan(plan) /\ pos \in DOMAIN plan
      /\ plan[pos].input \in DOMAIN results
  BY <1>1, RunningPlan
<1>3. PICK step, src : step = plan[pos] /\ src = results[plan[pos].input]
  OBVIOUS
<1>4. PICK agg : agg = Aggregate(step, src, K)
  OBVIOUS
<1>5. Keep(agg.result) /\ suppressed' = suppressed + agg.suppressed
  BY <1>3, <1>4 DEF AggregateStep, Step
<1>6. /\ step.group_by \in Seq(STRING)
      /\ Len(step.ops) \in Nat /\ DOMAIN step.ops = 1 .. Len(step.ops)
  BY <1>1, <1>2, <1>3, PlansAreLists
<1>7. Solid(src) /\ src.label \in LevelNames
  BY <1>2, <1>3 DEF ExecutorInv, Results
<1>8. PICK k \in Nat \ {0} : k = K
  BY ThresholdIsPositive
<1>9. /\ Solid(agg.result) /\ agg.result.label = src.label /\ agg.suppressed \in Nat
      /\ \A n \in DOMAIN agg.result.rows : agg.result.rows[n].weight >= k
      /\ agg.suppressed = 0 =>
           WeightOf(agg.result, DOMAIN agg.result.rows) = WeightOf(src, DOMAIN src.rows)
  <2>1. agg = Aggregate(step, src, k)
    BY <1>4, <1>8
  <2> QED BY <1>6, <1>7, <2>1, AggregateIs
<1>10. PICK r : r = agg.result
  OBVIOUS
<1>11. /\ suppressed' \in Nat
       /\ suppressed' = 0 => suppressed = 0 /\ agg.suppressed = 0
  <2>1. PICK a, b : a = suppressed /\ b = agg.suppressed
    OBVIOUS
  <2>2. a \in Nat /\ b \in Nat /\ suppressed' = a + b
    BY <1>5, <1>9, <2>1 DEF ExecutorInv, Complete
  <2> QED BY <2>1, <2>2
<1>12. relabels = 0 => r.label = NameOf(StepLabels(plan, SchemaAtStart)[pos])
  <2>1. StepLabels(plan, SchemaAtStart)[pos] = StepLabels(plan, SchemaAtStart)[plan[pos].input]
    BY <1>1, <1>2, ChainedLabels
  <2>2. relabels = 0 => src.label = NameOf(StepLabels(plan, SchemaAtStart)[plan[pos].input])
    BY <1>2, <1>3 DEF ExecutorInv, Labelled
  <2> QED BY <1>9, <1>10, <2>1, <2>2
<1>13. label' \in LevelNames \cup {NoLabel}
  BY <1>1 DEF ExecutorInv, Labelled
<1>14. Keep(r) /\ Solid(r) /\ r.label \in LevelNames
  BY <1>5, <1>7, <1>9, <1>10
<1>15. \A n \in DOMAIN r.rows : r.rows[n].weight >= K
  BY <1>8, <1>9, <1>10
<1>16. suppressed' = 0 =>
         WeightOf(r, DOMAIN r.rows)
           = WeightOf(results[plan[pos].input], DOMAIN results[plan[pos].input].rows)
  BY <1>3, <1>9, <1>10, <1>11
<1>17. plan[pos].type # "query" /\ plan[pos].type # "present" /\ pc \in {"step", "rows"}
  BY <1>1
<1> QED BY <1>1, <1>11, <1>12, <1>13, <1>14, <1>15, <1>16, <1>17, KeepKeeps

(* The last step presents the result that it names. *)
LEMMA PresentKeeps ==
  ASSUME ExecutorInv, PresentStep
  PROVE  ExecutorInv'
<1>1. /\ pc = "step" /\ pc' = "done" /\ plan[pos].type = "present"
      /\ outcome' = Outcome("ok", results[plan[pos].input])
      /\ UNCHANGED << plan, adapter, pos, label, results, suppressed, source, started,
                      tagged, relabels >>
  BY DEF PresentStep, Step
<1>2. ValidPlan(plan) /\ pos \in DOMAIN plan /\ IsChained(plan) /\ plan[pos].input \in DOMAIN results
  BY <1>1, RunningPlan DEF ExecutorInv, InOrder
<1>3. pos = Len(plan)
  BY <1>1, <1>2 DEF IsChained
<1>4. InOrder'
  BY <1>1 DEF ExecutorInv, InOrder
<1>5. Results' /\ Complete'
  BY <1>1 DEF ExecutorInv, Results, Complete
<1>6. Labelled'
  BY <1>1 DEF ExecutorInv, Labelled, SchemaAtStart
<1>7. outcome'.code = "ok" /\ outcome'.result = results[plan[pos].input]
  BY <1>1 DEF Outcome
<1>8. Ended'
  BY <1>1, <1>2, <1>3, <1>7 DEF Ended, UnreachableIsUnreachable
<1> QED BY <1>4, <1>5, <1>6, <1>8 DEF ExecutorInv

(* Once the source has been relabelled nothing is said of the labels. *)
LEMMA RelabelKeeps ==
  ASSUME ExecutorInv, Relabel, relabels \in Nat
  PROVE  ExecutorInv'
<1>1. /\ relabels' # 0
      /\ UNCHANGED << plan, adapter, pc, pos, label, results, suppressed, outcome,
                      started, tagged >>
  BY DEF Relabel
<1> QED BY <1>1 DEF ExecutorInv, InOrder, Results, Complete, Labelled, Ended,
                    UnreachableIsUnreachable

LEMMA ExecutorStep == ExecutorInv /\ relabels \in Nat /\ [Next]_vars => ExecutorInv' /\ relabels' \in Nat
<1> SUFFICES ASSUME ExecutorInv, relabels \in Nat, [Next]_vars
             PROVE  ExecutorInv' /\ relabels' \in Nat
  OBVIOUS
<1>1. relabels' \in Nat
  BY DEF Next, Run, Start, ReadLabels, AdapterFails, ReadRows, StepRaises, AggregateStep,
         PresentStep, Relabel, Done, vars
<1>2. CASE Start
  BY <1>1, <1>2, StartKeeps
<1>3. CASE ReadLabels
  BY <1>1, <1>3, ReadLabelsKeeps
<1>4. CASE AdapterFails
  BY <1>1, <1>4, AdapterFailsKeeps
<1>5. CASE ReadRows
  BY <1>1, <1>5, ReadRowsKeeps
<1>6. CASE StepRaises
  BY <1>1, <1>6, StepRaisesKeeps
<1>7. CASE AggregateStep
  BY <1>1, <1>7, AggregateKeeps
<1>8. CASE PresentStep
  BY <1>1, <1>8, PresentKeeps
<1>9. CASE Relabel
  BY <1>1, <1>9, RelabelKeeps
<1>10. CASE UNCHANGED vars
  BY <1>1, <1>10 DEF vars, ExecutorInv, InOrder, Results, Complete, Labelled, Ended, SchemaAtStart,
               UnreachableIsUnreachable
<1> QED BY <1>1, <1>2, <1>3, <1>4, <1>5, <1>6, <1>7, <1>8, <1>9, <1>10 DEF Next, Run, Done

LEMMA ExecutorInvariant == Spec => []ExecutorInv
<1>1. Init => ExecutorInv /\ relabels \in Nat
  BY ExecutorInit DEF Init
<1>2. (ExecutorInv /\ relabels \in Nat) /\ [Next]_vars => (ExecutorInv /\ relabels \in Nat)'
  BY ExecutorStep
<1> QED BY <1>1, <1>2, PTL DEF Spec

-----------------------------------------------------------------------------
(***************************************************************************)
(* What follows from the invariant.                                        *)
(***************************************************************************)
(* What comes out is the result that the last step's input, a number, names. *)
LEMMA WhatComesOut ==
  ASSUME ExecutorInv, outcome.code = "ok", NEW n, n = Len(plan)
  PROVE  /\ IsChained(plan) /\ IsPlan(plan) /\ n \in DOMAIN plan
         /\ plan[n].type = "present" /\ plan[n].type # "query"
         /\ InputOf(plan, n) = plan[n].input
         /\ plan[n].input \in DOMAIN results /\ plan[n].input \in DOMAIN plan
         /\ outcome.result = results[plan[n].input]
<1>1. /\ plan \in Plans /\ ValidPlan(plan) /\ plan[n].input \in DOMAIN results
      /\ outcome.result = results[plan[n].input]
  BY DEF ExecutorInv, InOrder, Ended
<1>2. IsChained(plan) /\ IsPlan(plan)
  BY <1>1, ValidIsChained
<1>3. n \in DOMAIN plan /\ plan[n].type = "present"
  BY <1>2 DEF IsChained
<1>4. InputOf(plan, n) = plan[n].input
  BY <1>2, <1>3, ChainedInputs
<1>5. plan[n].input \in DOMAIN plan
  BY <1>1 DEF ExecutorInv, Results
<1> QED BY <1>1, <1>2, <1>3, <1>4, <1>5

LEMMA InvTypes == ExecutorInv => TypeOK
<1> SUFFICES ASSUME ExecutorInv
             PROVE  TypeOK
  OBVIOUS
<1>1. /\ pc \in {"start", "step", "rows", "done"} /\ pos \in 1 .. Len(plan) + 1
      /\ label \in LevelNames \cup {NoLabel} /\ suppressed \in Nat
  BY DEF ExecutorInv, InOrder, Labelled, Complete
<1>2. ASSUME NEW id \in DOMAIN results
      PROVE  RowsOK(results[id]) /\ results[id].label \in LevelNames
  BY DEF ExecutorInv, Results, Solid, RowsOK
<1>3. /\ outcome.code \in OwnErrors \cup AdapterErrors \cup Faults \cup {"none", "ok"}
      /\ outcome.code # "ok" => outcome.result = NoResult
      /\ pc = "done" <=> outcome.code # "none"
  BY DEF ExecutorInv, Ended
<1> QED BY <1>1, <1>2, <1>3 DEF TypeOK

LEMMA InvBacks == ExecutorInv => BackedByK
<1>0. PICK asked : asked = RawK.value
  OBVIOUS
<1>a. K = IF RawK.kind = "number" /\ asked >= 1 THEN asked ELSE DefaultK
  BY <1>0 DEF K, PositiveInt
<1> SUFFICES ASSUME ExecutorInv, Aggregated
             PROVE  \A n \in DOMAIN Presented.rows : Presented.rows[n].weight >= K
  BY <1>0, <1>a DEF BackedByK
<1>1. PICK n : n = Len(plan)
  OBVIOUS
<1>2. outcome.code = "ok"
  BY DEF Aggregated
<1>3. /\ InputOf(plan, n) = plan[n].input /\ plan[n].input \in DOMAIN results
      /\ outcome.result = results[plan[n].input]
  BY <1>1, <1>2, WhatComesOut
<1>4. plan[plan[n].input].type = "aggregate"
  BY <1>1, <1>3 DEF Aggregated
<1> QED BY <1>3, <1>4 DEF ExecutorInv, Results, Presented

LEMMA InvKeepsAll == ExecutorInv => NothingDroppedSilently
<1> SUFFICES ASSUME ExecutorInv, Aggregated, suppressed = 0
             PROVE  MapThenSumSet(LAMBDA m : Presented.rows[m].weight, DOMAIN Presented.rows)
                      = Len(results[plan[QueryBehind(plan)].id].rows)
  BY DEF NothingDroppedSilently
<1>1. PICK n, in : n = Len(plan) /\ in = plan[n].input
  OBVIOUS
<1>2. outcome.code = "ok"
  BY DEF Aggregated
<1>3. /\ IsChained(plan) /\ n \in DOMAIN plan /\ plan[n].type # "query"
      /\ in \in DOMAIN results /\ Presented = results[in]
  BY <1>1, <1>2, WhatComesOut DEF Presented
<1>4. QueryBehind(plan) = BehindOf(plan, n) /\ BehindOf(plan, n) = BehindOf(plan, in)
  BY <1>1, <1>3, BehindIs
<1>5. PICK q : q = BehindOf(plan, in)
  OBVIOUS
<1>6. /\ q \in DOMAIN results
      /\ WeightOf(results[in], DOMAIN results[in].rows) = Len(results[q].rows)
  BY <1>3, <1>5 DEF ExecutorInv, Complete
<1>7. q \in DOMAIN plan /\ plan[q].id = q
  BY <1>3, <1>6 DEF ExecutorInv, Results, IsChained
<1>8. WeightOf(Presented, DOMAIN Presented.rows)
        = MapThenSumSet(LAMBDA m : Presented.rows[m].weight, DOMAIN Presented.rows)
  BY DEF WeightOf
<1>9. WeightOf(Presented, DOMAIN Presented.rows) = Len(results[plan[QueryBehind(plan)].id].rows)
  BY <1>3, <1>4, <1>5, <1>6, <1>7
<1> QED BY <1>8, <1>9

LEMMA InvLabels == ExecutorInv => LabelIsThePolicys
<1> SUFFICES ASSUME ExecutorInv, outcome.code = "ok", relabels = 0, NEW clearance \in LevelNames
             PROVE  Evaluate(plan, SchemaLabels(ReadSchema(started)), clearance).plan_label
                      = Presented.label
  BY DEF LabelIsThePolicys
<1>1. PICK n, in : n = Len(plan) /\ in = plan[n].input
  OBVIOUS
<1>2. /\ IsChained(plan) /\ IsPlan(plan) /\ n \in DOMAIN plan /\ plan[n].type # "query"
      /\ in \in DOMAIN results /\ Presented = results[in]
  BY <1>1, WhatComesOut DEF Presented
<1>3. Presented.label = NameOf(StepLabels(plan, SchemaAtStart)[in])
  BY <1>2 DEF ExecutorInv, Labelled
<1>4. StepLabels(plan, SchemaAtStart)[n] = StepLabels(plan, SchemaAtStart)[in]
  BY <1>1, <1>2, ChainedLabels
<1>5. Evaluate(plan, SchemaAtStart, clearance).plan_label
        = NameOf(StepLabels(plan, SchemaAtStart)[n])
  BY <1>1, <1>2, PlanLabelIs
<1> QED BY <1>3, <1>4, <1>5 DEF SchemaAtStart

-----------------------------------------------------------------------------
(***************************************************************************)
(* The theorems.                                                           *)
(***************************************************************************)
(* Every variable has its type, and each row of a result a cell for each of its columns. *)
THEOREM ExecutorTypes == Spec => []TypeOK
BY ExecutorInvariant, InvTypes, PTL

(***************************************************************************)
(* No row that an aggregate presents was computed from fewer rows of its   *)
(* query's result than the operator asks for, or than the default when     *)
(* that would be none, however many aggregations there are between them    *)
(* (_suppress in _run_aggregate, _positive_int).                           *)
(***************************************************************************)
THEOREM GroupsAreBacked == Spec => []BackedByK
BY ExecutorInvariant, InvBacks, PTL

(***************************************************************************)
(* If no group has been reported as suppressed, the groups presented are   *)
(* computed from all the rows that their query returned (_run_aggregate).  *)
(***************************************************************************)
THEOREM NothingIsDropped == Spec => []NothingDroppedSilently
BY ExecutorInvariant, InvKeepsAll, PTL

(***************************************************************************)
(* While nobody relabels the source, what a run presents has the label     *)
(* that the policy gives its plan, whatever the clearance it is judged by. *)
(***************************************************************************)
THEOREM LabelsAgree == Spec => []LabelIsThePolicys
BY ExecutorInvariant, InvLabels, PTL

(***************************************************************************)
(* A plan that validates reads no result that is not there, has no         *)
(* parameter that cannot be converted, and presents something.             *)
(***************************************************************************)
THEOREM ValidPlansRun == Spec => []UnreachableIsUnreachable
<1>1. ExecutorInv => UnreachableIsUnreachable
  BY DEF ExecutorInv, Ended
<1> QED BY <1>1, ExecutorInvariant, PTL

(* The steps left are a number, which is 0 at the end and only there. *)
LEMMA LeftIsNumber ==
  ExecutorInv => StepsLeft \in 0 .. 2 * Len(plan) + 2 /\ (StepsLeft = 0 <=> pc = "done")
<1> SUFFICES ASSUME ExecutorInv
             PROVE  StepsLeft \in 0 .. 2 * Len(plan) + 2 /\ (StepsLeft = 0 <=> pc = "done")
  OBVIOUS
<1>1. PICK n : n = Len(plan)
  OBVIOUS
<1>2. /\ n \in Nat /\ pc \in {"start", "step", "rows", "done"} /\ pos \in 1 .. n + 1
      /\ pc = "rows" => pos \in 1 .. n
  BY <1>1, PlansAreLists DEF ExecutorInv, InOrder
<1> QED BY <1>1, <1>2 DEF StepsLeft

LEMMA ExecutorGetsOn ==
  ExecutorInv /\ [Next]_vars => [source' = source => StepsLeft' < StepsLeft]_vars
<1> SUFFICES ASSUME ExecutorInv, Run
             PROVE  StepsLeft' < StepsLeft
  BY DEF Next, Relabel, Done
<1>1. PICK n : n = Len(plan)
  OBVIOUS
<1>2. /\ n \in Nat /\ pos \in 1 .. n + 1
      /\ pc = "rows" => pos \in 1 .. n
      /\ StepsLeft \in Nat /\ (pc # "done" => StepsLeft > 0)
      /\ pc' = "done" => StepsLeft' = 0
  BY <1>1, PlansAreLists, LeftIsNumber DEF ExecutorInv, InOrder, StepsLeft
<1>3. Len(plan') = n
  BY <1>1 DEF Run, Start, ReadLabels, AdapterFails, ReadRows, StepRaises, AggregateStep, PresentStep
<1>4. ASSUME pc # "done", pc' = "done"
      PROVE  StepsLeft' < StepsLeft
  BY <1>2, <1>4
<1>5. CASE Start
  <2>1. pc = "start" /\ (pc' = "done" \/ (pc' = "step" /\ pos' = pos))
    BY <1>5 DEF Start, Raise
  <2> QED BY <1>1, <1>2, <1>3, <1>4, <2>1 DEF StepsLeft
<1>6. CASE ReadLabels
  <2>1. pc = "step" /\ pc' = "rows" /\ pos' = pos
    BY <1>6 DEF ReadLabels
  <2> QED BY <1>1, <1>2, <1>3, <2>1 DEF StepsLeft
<1>7. CASE ReadRows
  <2>1. PICK rows \in RowsOf(Step.template) : Raise("limit_exceeded") \/ Keep(Result(Columns, rows, label))
    BY <1>7 DEF ReadRows
  <2>2. pc = "rows"
    BY <1>7 DEF ReadRows
  <2>3. pc' = "done" \/ (pc' = "step" /\ pos' = pos + 1)
    BY <2>1 DEF Raise, Keep
  <2> QED BY <1>1, <1>2, <1>3, <1>4, <2>2, <2>3 DEF StepsLeft
<1>8. CASE AggregateStep
  <2>1. pc = "step" /\ pc' = "step" /\ pos' = pos + 1
    BY <1>8 DEF AggregateStep, Keep
  <2> QED BY <1>1, <1>2, <1>3, <2>1 DEF StepsLeft
<1>9. CASE AdapterFails \/ StepRaises \/ PresentStep
  <2>1. pc # "done" /\ pc' = "done"
    BY <1>9 DEF AdapterFails, StepRaises, PresentStep, Raise
  <2> QED BY <1>4, <2>1
<1> QED BY <1>5, <1>6, <1>7, <1>8, <1>9 DEF Run

(***************************************************************************)
(* A run takes at most two steps for each step of its plan, and two more:  *)
(* whatever the source and the adapter do, each leaves fewer, and when     *)
(* none is left the run has ended (runner.py, run_plan).                   *)
(***************************************************************************)
THEOREM ExecutorEnds ==
  Spec => /\ [](StepsLeft \in 0 .. 2 * Len(plan) + 2 /\ (StepsLeft = 0 <=> pc = "done"))
          /\ GetsOn
BY LeftIsNumber, ExecutorGetsOn, ExecutorInvariant, PTL DEF Spec, GetsOn

=============================================================================
