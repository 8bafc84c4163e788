---------------------------- MODULE SumTheorems ----------------------------
(***************************************************************************)
(* Induction over sets, in a form the provers can instantiate, and what    *)
(* the sums of the community modules add up to.                            *)
(***************************************************************************)
EXTENDS Integers, Functions, FiniteSetTheorems, TLAPS

(* A set of naturals with 0 and the successor of each element has them     *)
(* all.  If it lacked m, adding one would map its elements up to m one to  *)
(* one to fewer.                                                           *)
LEMMA SetInduction ==
  ASSUME NEW S \in SUBSET Nat, 0 \in S, \A n \in S : n + 1 \in S
  PROVE  S = Nat
<1> SUFFICES ASSUME NEW m \in Nat, m \notin S PROVE FALSE
  OBVIOUS
<1> DEFINE T == S \cap (0 .. m)
           f == [n \in T |-> n + 1]
<1>1. IsFiniteSet(T)
  <2>1. IsFiniteSet(0 .. m)
    BY FS_Interval
  <2> QED
    BY <2>1, FS_Subset
<1>2. 0 \in T
  OBVIOUS
<1>3. f \in [T -> T \ {0}] /\ \A x, y \in T : f[x] = f[y] => x = y
  OBVIOUS
<1> HIDE DEF T, f
<1>4. IsFiniteSet(T \ {0}) /\ Cardinality(T \ {0}) = Cardinality(T) - 1
  BY <1>1, <1>2, FS_RemoveElement
<1>5. Cardinality(T) \in Nat
  BY <1>1, FS_CardinalityType
<1> QED
  BY <1>1, <1>3, <1>4, <1>5, FS_PigeonHole

(* The same up to a bound.                                                 *)
LEMMA BoundedInduction ==
  ASSUME NEW N \in Nat, NEW S, 0 \in S, \A n \in 0 .. N - 1 : n \in S => n + 1 \in S
  PROVE  0 .. N \subseteq S
<1> DEFINE T == {n \in Nat : n \in S \/ n > N}
<1>1. 0 \in T /\ \A n \in T : n + 1 \in T
  OBVIOUS
<1>2. T = Nat
  <2> HIDE DEF T
  <2>1. T \in SUBSET Nat
    BY DEF T
  <2> QED
    BY <1>1, <2>1, SetInduction
<1> QED
  BY <1>2

(* A set of subsets of a finite set that has each subset it has all the    *)
(* smaller ones of has them all.                                           *)
LEMMA RemovalInduction ==
  ASSUME NEW S, IsFiniteSet(S), NEW G,
         \A T \in SUBSET S : (\A x \in T : T \ {x} \in G) => T \in G
  PROVE  SUBSET S \subseteq G
<1> DEFINE K == {n \in Nat : \A T \in SUBSET S : Cardinality(T) = n => T \in G}
<1>1. 0 \in K
  <2> SUFFICES ASSUME NEW T \in SUBSET S, Cardinality(T) = 0
               PROVE  T \in G
    OBVIOUS
  <2>1. T = {}
    BY FS_Subset, FS_EmptySet
  <2> QED
    BY <2>1
<1>2. ASSUME NEW n \in K
      PROVE  n + 1 \in K
  <2> SUFFICES ASSUME NEW T \in SUBSET S, Cardinality(T) = n + 1
               PROVE  T \in G
    OBVIOUS
  <2>1. IsFiniteSet(T) /\ n \in Nat
    BY FS_Subset
  <2>2. ASSUME NEW x \in T
        PROVE  T \ {x} \in G
    <3>1. Cardinality(T \ {x}) = Cardinality(T) - 1
      BY <2>1, FS_RemoveElement
    <3> QED
      BY <2>1, <3>1
  <2> QED
    BY <2>2
<1>3. K = Nat
  <2> HIDE DEF K
  <2>1. K \in SUBSET Nat
    BY DEF K
  <2> QED
    BY <1>1, <1>2, <2>1, SetInduction
<1>4. ASSUME NEW T \in SUBSET S
      PROVE  Cardinality(T) \in Nat
  BY FS_Subset, FS_CardinalityType
<1> QED
  BY <1>3, <1>4

(* So has one with {} that is closed under the addition of an element.     *)
LEMMA SubsetInduction ==
  ASSUME NEW S, IsFiniteSet(S), NEW G, {} \in G,
         \A T \in SUBSET S, x \in S : T \in G /\ x \notin T => T \cup {x} \in G
  PROVE  SUBSET S \subseteq G
<1>1. ASSUME NEW T \in SUBSET S, \A x \in T : T \ {x} \in G
      PROVE  T \in G
  <2>1. CASE T = {}
    BY <2>1
  <2>2. ASSUME NEW x \in T
        PROVE  T \in G
    <3>1. T \ {x} \in SUBSET S /\ x \notin T \ {x} /\ x \in S /\ T = (T \ {x}) \cup {x}
      OBVIOUS
    <3> QED
      BY <1>1, <3>1
  <2> QED
    BY <2>1, <2>2
<1> QED
  BY <1>1, RemovalInduction

-----------------------------------------------------------------------------
(* Sums.  The recursion of the community modules takes the elements of a   *)
(* set in an order of its own.                                             *)
Chosen(s) == CHOOSE x \in s : TRUE

SumStep(fun, h, s) == IF s = {} THEN 0 ELSE fun[Chosen(s)] + h[s \ {Chosen(s)}]

Iter(fun, S) == CHOOSE iter : iter = [s \in SUBSET S |-> SumStep(fun, iter, s)]

LEMMA SumIter ==
  ASSUME NEW fun, NEW S
  PROVE  SumFunctionOnSet(fun, S) = Iter(fun, S)[S]
BY DEF SumFunctionOnSet, FoldFunctionOnSet, MapThenFoldSet, Iter, SumStep, Chosen

LEMMA ChosenIn ==
  ASSUME NEW S, S # {}
  PROVE  Chosen(S) \in S
BY DEF Chosen

(* The recursive function exists: on the subsets with n elements it can be *)
(* defined from the smaller ones.                                          *)
LEMMA IterExists ==
  ASSUME NEW fun, NEW S, IsFiniteSet(S)
  PROVE  \E h : h = [s \in SUBSET S |-> SumStep(fun, h, s)]
<1> DEFINE Small(n) == {s \in SUBSET S : Cardinality(s) <= n}
           K == {n \in Nat : \E h : h = [s \in Small(n) |-> SumStep(fun, h, s)]}
<1>1. ASSUME NEW s \in SUBSET S
      PROVE  /\ Cardinality(s) \in Nat
             /\ s # {} => Cardinality(s \ {Chosen(s)}) = Cardinality(s) - 1
             /\ s \ {Chosen(s)} \in SUBSET S
  <2>1. IsFiniteSet(s)
    BY FS_Subset
  <2>2. Cardinality(s) \in Nat
    BY <2>1, FS_CardinalityType
  <2>3. ASSUME s # {}
        PROVE  Cardinality(s \ {Chosen(s)}) = Cardinality(s) - 1
    BY <2>1, <2>3, ChosenIn, FS_RemoveElement
  <2> QED
    BY <2>2, <2>3
<1>2. 0 \in K
  <2> DEFINE h == [s \in Small(0) |-> 0]
  <2>1. ASSUME NEW s \in Small(0)
        PROVE  s = {}
    <3>1. s \in SUBSET S /\ Cardinality(s) <= 0 /\ IsFiniteSet(s)
      BY FS_Subset
    <3>2. Cardinality(s) = 0
      BY <3>1, FS_CardinalityType
    <3> QED
      BY <3>1, <3>2, FS_EmptySet
  <2>2. h = [s \in Small(0) |-> SumStep(fun, h, s)]
    BY <2>1 DEF SumStep
  <2> QED
    BY <2>2
<1>3. ASSUME NEW n \in K
      PROVE  n + 1 \in K
  <2>1. n \in Nat
    OBVIOUS
  <2>2. PICK g : g = [s \in Small(n) |-> SumStep(fun, g, s)]
    OBVIOUS
  <2> DEFINE h == [s \in Small(n + 1) |-> SumStep(fun, g, s)]
  <2>3. ASSUME NEW s \in Small(n)
        PROVE  s \in Small(n + 1) /\ h[s] = g[s]
    <3>1. s \in Small(n + 1)
      <4>1. Cardinality(s) \in Nat /\ s \in SUBSET S /\ Cardinality(s) <= n
        BY <1>1
      <4> QED
        BY <2>1, <4>1
    <3>2. g[s] = SumStep(fun, g, s)
      BY <2>2, Zenon
    <3> QED
      BY <3>1, <3>2
  <2>4. ASSUME NEW s \in Small(n + 1)
        PROVE  SumStep(fun, h, s) = SumStep(fun, g, s)
    <3>1. CASE s = {}
      BY <3>1 DEF SumStep
    <3>2. CASE s # {}
      <4>1. s \ {Chosen(s)} \in Small(n)
        BY <1>1, <2>1, <3>2
      <4> HIDE DEF h, Small
      <4> QED
        BY <2>3, <4>1, <3>2 DEF SumStep
    <3> QED
      BY <3>1, <3>2
  <2>5. h = [s \in Small(n + 1) |-> SumStep(fun, h, s)]
    <3> HIDE DEF Small
    <3> QED
      BY <2>4
  <2> HIDE DEF h, Small
  <2> QED
    BY <2>1, <2>5
<1>4. K = Nat
  <2> HIDE DEF K
  <2>1. K \in SUBSET Nat
    BY DEF K
  <2> QED
    BY <1>2, <1>3, <2>1, SetInduction
<1>5. Cardinality(S) \in K
  BY <1>4, FS_CardinalityType
<1>6. Small(Cardinality(S)) = SUBSET S
  BY FS_Subset
<1> HIDE DEF Small
<1> QED
  BY <1>5, <1>6

LEMMA IterDef ==
  ASSUME NEW fun, NEW S, IsFiniteSet(S), NEW T \in SUBSET S
  PROVE  Iter(fun, S)[T] = SumStep(fun, Iter(fun, S), T)
<1>1. Iter(fun, S) = [s \in SUBSET S |-> SumStep(fun, Iter(fun, S), s)]
  BY IterExists DEF Iter
<1> DEFINE h == Iter(fun, S)
<1>2. h = [s \in SUBSET S |-> SumStep(fun, h, s)]
  BY <1>1
<1> HIDE DEF h
<1>3. h[T] = SumStep(fun, h, T)
  BY <1>2, Zenon
<1> QED
  BY <1>3 DEF h

(* What it is at a set does not depend on the set it was defined for.      *)
LEMMA IterSame ==
  ASSUME NEW fun, NEW S, IsFiniteSet(S), NEW T \in SUBSET S
  PROVE  Iter(fun, S)[T] = Iter(fun, T)[T]
<1> DEFINE G == {U \in SUBSET T : Iter(fun, S)[U] = Iter(fun, T)[U]}
<1>1. IsFiniteSet(T)
  BY FS_Subset
<1>2. ASSUME NEW U \in SUBSET T, \A x \in U : U \ {x} \in G
      PROVE  U \in G
  <2>1. Iter(fun, S)[U] = SumStep(fun, Iter(fun, S), U)
    BY IterDef
  <2>2. Iter(fun, T)[U] = SumStep(fun, Iter(fun, T), U)
    BY <1>1, IterDef
  <2>3. U # {} => U \ {Chosen(U)} \in G
    BY <1>2, ChosenIn
  <2>4. SumStep(fun, Iter(fun, S), U) = SumStep(fun, Iter(fun, T), U)
    BY <2>3 DEF SumStep
  <2> QED
    BY <2>1, <2>2, <2>4
<1>3. SUBSET T \subseteq G
  <2> HIDE DEF G
  <2> QED
    BY <1>1, <1>2, RemovalInduction
<1> QED
  BY <1>3

LEMMA SumUnfold ==
  ASSUME NEW fun, NEW S, IsFiniteSet(S)
  PROVE  /\ S = {} => SumFunctionOnSet(fun, S) = 0
         /\ S # {} => SumFunctionOnSet(fun, S)
                        = fun[Chosen(S)] + SumFunctionOnSet(fun, S \ {Chosen(S)})
<1>1. SumFunctionOnSet(fun, S) = SumStep(fun, Iter(fun, S), S)
  BY SumIter, IterDef
<1>2. Iter(fun, S)[S \ {Chosen(S)}] = SumFunctionOnSet(fun, S \ {Chosen(S)})
  BY SumIter, IterSame
<1> QED
  BY <1>1, <1>2 DEF SumStep

LEMMA SumEmpty ==
  ASSUME NEW fun
  PROVE  SumFunctionOnSet(fun, {}) = 0
BY FS_EmptySet, SumUnfold

LEMMA SumType ==
  ASSUME NEW fun, NEW S, IsFiniteSet(S), \A x \in S : fun[x] \in Int
  PROVE  SumFunctionOnSet(fun, S) \in Int
<1> DEFINE G == {T \in SUBSET S : SumFunctionOnSet(fun, T) \in Int}
<1>1. ASSUME NEW T \in SUBSET S, \A x \in T : T \ {x} \in G
      PROVE  T \in G
  <2>1. IsFiniteSet(T)
    BY FS_Subset
  <2>2. CASE T = {}
    BY <2>2, SumEmpty
  <2>3. CASE T # {}
    <3>1. Chosen(T) \in T
      BY <2>3, ChosenIn
    <3>2. SumFunctionOnSet(fun, T \ {Chosen(T)}) \in Int /\ fun[Chosen(T)] \in Int
      BY <1>1, <3>1
    <3> QED
      BY <2>1, <2>3, <3>2, SumUnfold
  <2> QED
    BY <2>2, <2>3
<1>2. SUBSET S \subseteq G
  <2> HIDE DEF G
  <2> QED
    BY <1>1, RemovalInduction
<1> QED
  BY <1>2

(* Any element may be taken first.                                         *)
LEMMA SumRemove ==
  ASSUME NEW fun, NEW S, IsFiniteSet(S), \A x \in S : fun[x] \in Int, NEW x \in S
  PROVE  SumFunctionOnSet(fun, S) = fun[x] + SumFunctionOnSet(fun, S \ {x})
<1> DEFINE Sum(T) == SumFunctionOnSet(fun, T)
           G == {T \in SUBSET S : \A y \in T : Sum(T) = fun[y] + Sum(T \ {y})}
<1>1. ASSUME NEW T \in SUBSET S, \A y \in T : T \ {y} \in G
      PROVE  T \in G
  <2> SUFFICES ASSUME NEW y \in T
               PROVE  Sum(T) = fun[y] + Sum(T \ {y})
    OBVIOUS
  <2>1. IsFiniteSet(T) /\ T # {}
    BY FS_Subset
  <2>2. PICK c \in T : c = Chosen(T)
    BY <2>1, ChosenIn
  <2>3. Sum(T) = fun[c] + Sum(T \ {c})
    BY <2>1, <2>2, SumUnfold
  <2>4. CASE y = c
    BY <2>3, <2>4
  <2>5. CASE y # c
    <3>1. y \in T \ {c} /\ c \in T \ {y}
      BY <2>5
    <3>2. Sum(T \ {c}) = fun[y] + Sum((T \ {c}) \ {y})
      BY <1>1, <3>1
    <3>3. Sum(T \ {y}) = fun[c] + Sum((T \ {y}) \ {c})
      BY <1>1, <3>1
    <3>4. (T \ {c}) \ {y} = (T \ {y}) \ {c}
      OBVIOUS
    <3>5. Sum((T \ {y}) \ {c}) \in Int
      <4>1. IsFiniteSet((T \ {y}) \ {c})
        BY <2>1, FS_Subset
      <4> QED
        BY <4>1, SumType
    <3>6. fun[c] \in Int /\ fun[y] \in Int
      OBVIOUS
    <3>7. PICK rest \in Int : rest = Sum((T \ {y}) \ {c})
      BY <3>5
    <3>8. Sum(T \ {c}) = fun[y] + rest /\ Sum(T \ {y}) = fun[c] + rest
      BY <3>2, <3>3, <3>4, <3>7
    <3>9. fun[c] + (fun[y] + rest) = fun[y] + (fun[c] + rest)
      BY <3>6
    <3> QED
      BY <2>3, <3>8, <3>9
  <2> QED
    BY <2>4, <2>5
<1>2. SUBSET S \subseteq G
  <2> HIDE DEF G
  <2> QED
    BY <1>1, RemovalInduction
<1>3. S \in G
  BY <1>2
<1> QED
  BY <1>3

LEMMA SumAdd ==
  ASSUME NEW fun, NEW S, IsFiniteSet(S), \A y \in S : fun[y] \in Int,
         NEW x, x \notin S, fun[x] \in Int
  PROVE  SumFunctionOnSet(fun, S \cup {x}) = fun[x] + SumFunctionOnSet(fun, S)
<1>1. IsFiniteSet(S \cup {x})
  BY FS_AddElement
<1>2. (S \cup {x}) \ {x} = S
  OBVIOUS
<1>3. \A y \in S \cup {x} : fun[y] \in Int
  OBVIOUS
<1>4. SumFunctionOnSet(fun, S \cup {x}) = fun[x] + SumFunctionOnSet(fun, (S \cup {x}) \ {x})
  BY <1>1, <1>3, SumRemove
<1> QED
  BY <1>2, <1>4

LEMMA SumMonotonic ==
  ASSUME NEW f, NEW g, NEW S, IsFiniteSet(S),
         \A x \in S : f[x] \in Int /\ g[x] \in Int /\ f[x] <= g[x]
  PROVE  SumFunctionOnSet(f, S) <= SumFunctionOnSet(g, S)
<1> DEFINE G == {T \in SUBSET S : SumFunctionOnSet(f, T) <= SumFunctionOnSet(g, T)}
<1>1. {} \in G
  BY SumEmpty
<1>2. ASSUME NEW T \in SUBSET S, NEW x \in S, T \in G, x \notin T
      PROVE  T \cup {x} \in G
  <2>1. IsFiniteSet(T)
    BY FS_Subset
  <2>2. /\ SumFunctionOnSet(f, T \cup {x}) = f[x] + SumFunctionOnSet(f, T)
        /\ SumFunctionOnSet(g, T \cup {x}) = g[x] + SumFunctionOnSet(g, T)
    BY <1>2, <2>1, SumAdd
  <2>3. SumFunctionOnSet(f, T) \in Int /\ SumFunctionOnSet(g, T) \in Int
    BY <2>1, SumType
  <2>4. SumFunctionOnSet(f, T) <= SumFunctionOnSet(g, T) /\ f[x] <= g[x]
    BY <1>2
  <2>5. f[x] \in Int /\ g[x] \in Int
    OBVIOUS
  <2> QED
    BY <2>2, <2>3, <2>4, <2>5
<1>3. SUBSET S \subseteq G
  <2> HIDE DEF G
  <2> QED
    BY <1>1, <1>2, SubsetInduction
<1> QED
  BY <1>3

LEMMA SumSame ==
  ASSUME NEW f, NEW g, NEW S, IsFiniteSet(S),
         \A x \in S : f[x] \in Int, \A x \in S : f[x] = g[x]
  PROVE  SumFunctionOnSet(f, S) = SumFunctionOnSet(g, S)
<1>1. SumFunctionOnSet(f, S) <= SumFunctionOnSet(g, S)
  BY SumMonotonic
<1>2. SumFunctionOnSet(g, S) <= SumFunctionOnSet(f, S)
  BY SumMonotonic
<1>3. SumFunctionOnSet(f, S) \in Int /\ SumFunctionOnSet(g, S) \in Int
  BY SumType
<1> QED
  BY <1>1, <1>2, <1>3

LEMMA SumDisjoint ==
  ASSUME NEW f, NEW S, IsFiniteSet(S), NEW T, IsFiniteSet(T), S \cap T = {},
         \A x \in S \cup T : f[x] \in Int
  PROVE  SumFunctionOnSet(f, S \cup T) = SumFunctionOnSet(f, S) + SumFunctionOnSet(f, T)
<1> DEFINE Sum(U) == SumFunctionOnSet(f, U)
           G == {U \in SUBSET T : Sum(S \cup U) = Sum(S) + Sum(U)}
<1>1. {} \in G
  <2>1. Sum(S) \in Int
    BY SumType
  <2> QED
    BY <2>1, SumEmpty
<1>2. ASSUME NEW U \in SUBSET T, NEW x \in T, U \in G, x \notin U
      PROVE  U \cup {x} \in G
  <2>1. IsFiniteSet(U) /\ IsFiniteSet(S \cup U)
    BY FS_Subset, FS_Union
  <2>2. x \notin S \cup U
    BY <1>2
  <2>3. Sum((S \cup U) \cup {x}) = f[x] + Sum(S \cup U)
    BY <2>1, <2>2, SumAdd
  <2>4. Sum(U \cup {x}) = f[x] + Sum(U)
    BY <1>2, <2>1, SumAdd
  <2>5. Sum(S) \in Int /\ Sum(U) \in Int /\ f[x] \in Int
    BY <2>1, SumType
  <2>6. Sum(S \cup U) = Sum(S) + Sum(U)
    BY <1>2
  <2>7. Sum((S \cup U) \cup {x}) = Sum(S \cup (U \cup {x}))
    <3>1. (S \cup U) \cup {x} = S \cup (U \cup {x})
      OBVIOUS
    <3> QED
      BY <3>1, Zenon
  <2>8. Sum(S \cup (U \cup {x})) = Sum(S) + Sum(U \cup {x})
    BY <2>3, <2>4, <2>5, <2>6, <2>7
  <2> QED
    BY <2>8
<1>3. SUBSET T \subseteq G
  <2> HIDE DEF G
  <2> QED
    BY <1>1, <1>2, SubsetInduction
<1> QED
  BY <1>3

LEMMA SumNat ==
  ASSUME NEW f, NEW S, IsFiniteSet(S), \A x \in S : f[x] \in Nat
  PROVE  SumFunctionOnSet(f, S) \in Nat
<1> DEFINE g == [x \in S |-> 0]
           G == {T \in SUBSET S : SumFunctionOnSet(f, T) \in Nat}
<1>1. {} \in G
  BY SumEmpty
<1>2. ASSUME NEW T \in SUBSET S, NEW x \in S, T \in G, x \notin T
      PROVE  T \cup {x} \in G
  <2>1. IsFiniteSet(T)
    BY FS_Subset
  <2>2. SumFunctionOnSet(f, T \cup {x}) = f[x] + SumFunctionOnSet(f, T)
    BY <1>2, <2>1, SumAdd
  <2>3. SumFunctionOnSet(f, T) \in Nat /\ f[x] \in Nat
    BY <1>2
  <2> QED
    BY <2>2, <2>3
<1>3. SUBSET S \subseteq G
  <2> HIDE DEF G
  <2> QED
    BY <1>1, <1>2, SubsetInduction
<1> QED
  BY <1>3

LEMMA SumZero ==
  ASSUME NEW f, NEW S, IsFiniteSet(S), \A x \in S : f[x] = 0
  PROVE  SumFunctionOnSet(f, S) = 0
<1> DEFINE G == {T \in SUBSET S : SumFunctionOnSet(f, T) = 0}
<1>1. {} \in G
  BY SumEmpty
<1>2. ASSUME NEW T \in SUBSET S, NEW x \in S, T \in G, x \notin T
      PROVE  T \cup {x} \in G
  <2>1. IsFiniteSet(T)
    BY FS_Subset
  <2>2. SumFunctionOnSet(f, T \cup {x}) = f[x] + SumFunctionOnSet(f, T)
    BY <1>2, <2>1, SumAdd
  <2> QED
    BY <1>2, <2>2
<1>3. SUBSET S \subseteq G
  <2> HIDE DEF G
  <2> QED
    BY <1>1, <1>2, SubsetInduction
<1> QED
  BY <1>3

(* One value of a function grows.                                          *)
LEMMA SumGrown ==
  ASSUME NEW f, NEW g, NEW c, NEW n \in Int, NEW S, IsFiniteSet(S),
         \A x \in S : f[x] \in Int, g[c] = f[c] + n, \A x \in S \ {c} : g[x] = f[x]
  PROVE  /\ c \in S => SumFunctionOnSet(g, S) = SumFunctionOnSet(f, S) + n
         /\ c \notin S => SumFunctionOnSet(g, S) = SumFunctionOnSet(f, S)
<1>1. IsFiniteSet(S \ {c})
  BY FS_Subset
<1>2. \A x \in S : g[x] \in Int
  OBVIOUS
<1>3. SumFunctionOnSet(f, S \ {c}) = SumFunctionOnSet(g, S \ {c})
  BY <1>1, SumSame
<1>4. SumFunctionOnSet(f, S \ {c}) \in Int
  BY <1>1, SumType
<1>5. CASE c \in S
  <2>1. SumFunctionOnSet(g, S) = g[c] + SumFunctionOnSet(g, S \ {c})
    BY <1>2, <1>5, SumRemove
  <2>2. SumFunctionOnSet(f, S) = f[c] + SumFunctionOnSet(f, S \ {c})
    BY <1>5, SumRemove
  <2> QED
    BY <1>3, <1>4, <1>5, <2>1, <2>2
<1>6. CASE c \notin S
  <2>1. S \ {c} = S
    BY <1>6
  <2> QED
    BY <1>3, <1>6, <2>1
<1> QED
  BY <1>5, <1>6

(* Terms between two bounds have an average between them.                  *)
LEMMA SumBounds ==
  ASSUME NEW f, NEW S, IsFiniteSet(S), NEW lo \in Int, NEW hi \in Int,
         \A x \in S : f[x] \in Int /\ lo <= f[x] /\ f[x] <= hi
  PROVE  /\ lo * Cardinality(S) <= SumFunctionOnSet(f, S)
         /\ SumFunctionOnSet(f, S) <= hi * Cardinality(S)
<1> DEFINE Between(T) == /\ lo * Cardinality(T) <= SumFunctionOnSet(f, T)
                         /\ SumFunctionOnSet(f, T) <= hi * Cardinality(T)
           G == {T \in SUBSET S : Between(T)}
<1>1. {} \in G
  BY SumEmpty, FS_EmptySet
<1>2. ASSUME NEW T \in SUBSET S, NEW x \in S, T \in G, x \notin T
      PROVE  T \cup {x} \in G
  <2>1. IsFiniteSet(T)
    BY FS_Subset
  <2>2. SumFunctionOnSet(f, T \cup {x}) = f[x] + SumFunctionOnSet(f, T)
    BY <1>2, <2>1, SumAdd
  <2>3. Cardinality(T \cup {x}) = Cardinality(T) + 1
    BY <1>2, <2>1, FS_AddElement
  <2>4. PICK n \in Int : n = Cardinality(T)
    BY <2>1, FS_CardinalityType
  <2>5. PICK sum \in Int : sum = SumFunctionOnSet(f, T)
    BY <2>1, SumType
  <2>6. lo * n <= sum /\ sum <= hi * n
    BY <1>2, <2>4, <2>5
  <2>7. PICK y \in Int : y = f[x] /\ lo <= y /\ y <= hi
    OBVIOUS
  <2>8. lo * (n + 1) = lo * n + lo /\ hi * (n + 1) = hi * n + hi
    OBVIOUS
  <2>9. lo * n \in Int /\ hi * n \in Int
    OBVIOUS
  <2>10. lo * (n + 1) <= y + sum /\ y + sum <= hi * (n + 1)
    BY <2>6, <2>7, <2>8, <2>9
  <2> QED
    BY <2>2, <2>3, <2>4, <2>5, <2>7, <2>10
<1>3. SUBSET S \subseteq G
  <2> HIDE DEF G
  <2> QED
    BY <1>1, <1>2, SubsetInduction
<1> QED
  BY <1>3

(* The terms are those of another function, further on.                    *)
LEMMA SumShift ==
  ASSUME NEW f, NEW g, NEW a \in Int, NEW b \in Int, NEW low \in Int, NEW high \in Int,
         high - low <= b - a, high - low >= b - a,
         \A k \in a .. b : f[k] \in Int,
         \A k \in a .. b, j \in low .. high : j - low = k - a => f[k] = g[j]
  PROVE  SumFunctionOnSet(f, a .. b) = SumFunctionOnSet(g, low .. high)
<1> SUFFICES ASSUME a <= b
             PROVE  SumFunctionOnSet(f, a .. b) = SumFunctionOnSet(g, low .. high)
  <2>1. b < a => a .. b = {} /\ low .. high = {}
    OBVIOUS
  <2> QED
    BY <2>1, SumEmpty
<1> DEFINE d == low - a
           m == b - a + 1
<1>0. \A k \in a .. b : k + d \in low .. high /\ f[k] = g[k + d]
  OBVIOUS
<1> DEFINE F(n) == SumFunctionOnSet(f, a .. a + n - 1)
           G(n) == SumFunctionOnSet(g, a + d .. a + d + n - 1)
           K == {n \in 0 .. m : F(n) = G(n)}
<1>1. 0 \in K
  <2>1. a .. a + 0 - 1 = {} /\ a + d .. a + d + 0 - 1 = {}
    OBVIOUS
  <2> QED
    BY <2>1, SumEmpty
<1>2. ASSUME NEW n \in 0 .. m - 1, n \in K
      PROVE  n + 1 \in K
  <2>1. /\ F(n + 1) = SumFunctionOnSet(f, (a .. a + n - 1) \cup {a + n})
        /\ G(n + 1) = SumFunctionOnSet(g, (a + d .. a + d + n - 1) \cup {a + d + n})
    <3>1. /\ a .. a + (n + 1) - 1 = (a .. a + n - 1) \cup {a + n}
          /\ a + d .. a + d + (n + 1) - 1 = (a + d .. a + d + n - 1) \cup {a + d + n}
      OBVIOUS
    <3> QED
      BY <3>1, Zenon
  <2>2. IsFiniteSet(a .. a + n - 1) /\ IsFiniteSet(a + d .. a + d + n - 1)
    BY FS_Interval
  <2>3. F(n + 1) = f[a + n] + F(n)
    <3>1. a + n \notin a .. a + n - 1 /\ f[a + n] \in Int /\ \A k \in a .. a + n - 1 : f[k] \in Int
      OBVIOUS
    <3> QED
      BY <2>1, <2>2, <3>1, SumAdd
  <2>4. G(n + 1) = g[a + d + n] + G(n)
    <3>1. a + d + n \notin a + d .. a + d + n - 1
      OBVIOUS
    <3>2. \A k \in a + d .. a + d + n : g[k] \in Int
      <4> SUFFICES ASSUME NEW k \in a + d .. a + d + n
                   PROVE  g[k] \in Int
        OBVIOUS
      <4>1. k - d \in a .. b /\ (k - d) + d = k
        OBVIOUS
      <4> QED
        BY <1>0, <4>1
    <3>3. g[a + d + n] \in Int /\ \A k \in a + d .. a + d + n - 1 : g[k] \in Int
      BY <3>2
    <3> QED
      BY <2>1, <2>2, <3>1, <3>3, SumAdd
  <2>5. f[a + n] = g[a + d + n]
    <3>1. a + n \in a .. b /\ (a + n) + d = a + d + n
      OBVIOUS
    <3> QED
      BY <3>1
  <2>6. F(n) = G(n)
    BY <1>2
  <2>7. F(n + 1) = G(n + 1)
    BY <2>3, <2>4, <2>5, <2>6
  <2> QED
    BY <2>7
<1>3. 0 .. m \subseteq K
  <2> HIDE DEF K
  <2> QED
    BY <1>1, <1>2, BoundedInduction
<1>4. F(m) = G(m)
  <2>1. m \in 0 .. m
    OBVIOUS
  <2>2. m \in K
    BY <1>3, <2>1
  <2> QED
    BY <2>2
<1>5. a + m - 1 = b /\ a + d + m - 1 = high
  OBVIOUS
<1> HIDE DEF m
<1> QED
  BY <1>4, <1>5

(* The last term of a sum over an interval.                                *)
LEMMA SumLast ==
  ASSUME NEW f, NEW a \in Int, NEW b \in Int, a <= b, \A k \in a .. b : f[k] \in Int
  PROVE  /\ SumFunctionOnSet(f, a .. b - 1) \in Int
         /\ SumFunctionOnSet(f, a .. b) = SumFunctionOnSet(f, a .. b - 1) + f[b]
<1> DEFINE Old == a .. b - 1
<1>1. /\ a .. b = Old \cup {b} /\ b \notin Old /\ f[b] \in Int
      /\ \A k \in Old : f[k] \in Int
  OBVIOUS
<1>2. IsFiniteSet(Old)
  BY FS_Interval
<1> HIDE DEF Old
<1>3. SumFunctionOnSet(f, Old \cup {b}) = f[b] + SumFunctionOnSet(f, Old)
  BY <1>1, <1>2, SumAdd
<1>4. SumFunctionOnSet(f, Old) \in Int
  BY <1>1, <1>2, SumType
<1>5. SumFunctionOnSet(f, a .. b) = SumFunctionOnSet(f, Old \cup {b})
  BY <1>1, Zenon
<1>6. SumFunctionOnSet(f, a .. b) = SumFunctionOnSet(f, Old) + f[b]
  BY <1>1, <1>3, <1>4, <1>5
<1> QED
  BY <1>4, <1>6 DEF Old

(* A sequence loses terms at its front and gets one at its end.            *)
LEMMA SumPushed ==
  ASSUME NEW f, NEW g, NEW d \in Int, NEW a \in Int, NEW b \in Int, a <= b,
         \A k \in a .. b : f[k] \in Int,
         \A k \in a .. b - 1 : f[k] = g[k + d]
  PROVE  SumFunctionOnSet(f, a .. b) = SumFunctionOnSet(g, a + d .. b - 1 + d) + f[b]
<1>1. \A k \in a .. b - 1, j \in a + d .. b - 1 + d : j - (a + d) = k - a => f[k] = g[j]
  <2> TAKE k \in a .. b - 1, j \in a + d .. b - 1 + d
  <2> HAVE j - (a + d) = k - a
  <2>1. j = k + d
    OBVIOUS
  <2> QED
    BY <2>1
<1>2. /\ a + d \in Int /\ b - 1 \in Int /\ b - 1 + d \in Int
      /\ (b - 1 + d) - (a + d) = (b - 1) - a
      /\ \A k \in a .. b - 1 : f[k] \in Int
  OBVIOUS
<1> DEFINE low == a + d
           high == b - 1 + d
           last == b - 1
<1>3. SumFunctionOnSet(f, a .. last) = SumFunctionOnSet(g, low .. high)
  <2> HIDE DEF low, high, last
  <2> QED
    BY <1>1, <1>2, SumShift DEF low, high, last
<1> QED
  BY <1>3, SumLast

(* Among finitely many numbers there is a least and a greatest one.        *)
LEMMA Extremes ==
  ASSUME NEW f, NEW n \in Nat \ {0}, \A i \in 1 .. n : f[i] \in Int
  PROVE  \E i, m \in 1 .. n : \A j \in 1 .. n : f[i] <= f[j] /\ f[j] <= f[m]
<1> DEFINE Has(k) == \E i, m \in 1 .. k : \A j \in 1 .. k : f[i] <= f[j] /\ f[j] <= f[m]
           S == {k \in Nat : Has(k + 1)}
           last == n - 1
<1>1. 0 \in S /\ last \in Nat
  <2>1. 1 .. 1 = {1} /\ f[1] \in Int
    OBVIOUS
  <2>2. Has(1)
    BY <2>1
  <2> QED
    BY <2>2
<1>2. ASSUME NEW k \in 0 .. last - 1, k \in S
      PROVE  k + 1 \in S
  <2>1. k + 1 \in 1 .. n /\ k + 2 \in 1 .. n /\ f[k + 2] \in Int
    OBVIOUS
  <2>2. PICK i \in 1 .. k + 1, m \in 1 .. k + 1 :
               \A j \in 1 .. k + 1 : f[i] <= f[j] /\ f[j] <= f[m]
    BY <1>2
  <2>3. i \in 1 .. n /\ m \in 1 .. n /\ f[i] \in Int /\ f[m] \in Int
    BY <2>1
  <2> DEFINE new == k + 2
             a == IF f[i] <= f[new] THEN i ELSE new
             b == IF f[m] >= f[new] THEN m ELSE new
  <2>4. \A j \in 1 .. k + 2 : j \in 1 .. k + 1 \/ j = new
    OBVIOUS
  <2>5. a \in 1 .. k + 2 /\ b \in 1 .. k + 2
    OBVIOUS
  <2>6. \A j \in 1 .. k + 1 : f[j] \in Int
    BY <2>1
  <2>7. \A j \in 1 .. k + 2 : f[a] <= f[j] /\ f[j] <= f[b]
    BY <2>1, <2>2, <2>3, <2>4, <2>6
  <2>8. Has(k + 2)
    <3> HIDE DEF a, b
    <3> QED
      BY <2>5, <2>7
  <2> QED
    BY <2>8
<1>3. 0 .. last \subseteq S
  <2> HIDE DEF S, last
  <2> QED
    BY <1>1, <1>2, BoundedInduction
<1>4. Has(n)
  <2>1. last \in S
    <3> HIDE DEF S, last
    <3> QED
      BY <1>1, <1>3
  <2>2. last + 1 = n
    OBVIOUS
  <2>3. Has(last + 1)
    BY <2>1
  <2> HIDE DEF Has
  <2> QED
    BY <2>2, <2>3
<1> QED
  BY <1>4

(* A function can be defined on 0 .. N step by step.                       *)
Stepwise(f, N, first, step) ==
  f[0] = first /\ \A k \in 1 .. N : f[k] = step[k][f[k - 1]]

LEMMA StepwiseExists ==
  ASSUME NEW N \in Nat, NEW A, NEW first \in A, NEW step \in [1 .. N -> [A -> A]]
  PROVE  \E f \in [0 .. N -> A] : Stepwise(f, N, first, step)
<1> DEFINE Good(n, f) == /\ f \in [0 .. n -> A]
                         /\ f[0] = first
                         /\ \A k \in 1 .. n : f[k] = step[k][f[k - 1]]
           S == {n \in Nat : \E f : Good(n, f)}
<1>1. 0 \in S
  <2>1. Good(0, [k \in 0 .. 0 |-> first])
    OBVIOUS
  <2> HIDE DEF Good
  <2> QED
    BY <2>1
<1>2. ASSUME NEW n \in 0 .. N - 1, n \in S
      PROVE  n + 1 \in S
  <2>1. PICK f : Good(n, f)
    BY <1>2
  <2> DEFINE g == [k \in 0 .. n + 1 |-> IF k = n + 1 THEN step[n + 1][f[n]] ELSE f[k]]
  <2>2. step[n + 1][f[n]] \in A
    BY <2>1
  <2>3. /\ g[n + 1] = step[n + 1][f[n]]
        /\ \A k \in 0 .. n : g[k] = f[k]
        /\ g \in [0 .. n + 1 -> A]
    BY <2>1, <2>2
  <2> HIDE DEF g
  <2>4. \A k \in 1 .. n + 1 : g[k] = step[k][g[k - 1]]
    <3> TAKE k \in 1 .. n + 1
    <3>1. CASE k = n + 1
      <4>1. k - 1 = n /\ n \in 0 .. n
        BY <3>1
      <4> QED
        BY <2>3, <3>1, <4>1
    <3>2. CASE k # n + 1
      <4>1. k \in 1 .. n /\ k \in 0 .. n /\ k - 1 \in 0 .. n
        BY <3>2
      <4> QED
        BY <2>1, <2>3, <4>1
    <3> QED
      BY <3>1, <3>2
  <2>5. g[0] = first
    BY <2>1, <2>3
  <2>6. Good(n + 1, g)
    BY <2>3, <2>4, <2>5
  <2> HIDE DEF Good
  <2> QED
    BY <2>6
<1>3. N \in S
  <2> HIDE DEF S
  <2>1. 0 .. N \subseteq S
    BY <1>1, <1>2, BoundedInduction
  <2> QED
    BY <2>1
<1> QED
  BY <1>3 DEF Stepwise
=============================================================================
