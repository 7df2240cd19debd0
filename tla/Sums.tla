-------------------------------- MODULE Sums --------------------------------
(***************************************************************************)
(* Sums of the values of a function over a finite set, and what a proof    *)
(* needs to know of them.  SumOver is the fold of the community modules:   *)
(* the lemmas up to SumPick prove that its local recursive function exists *)
(* and is the only one of its kind, each by a smallest counterexample (the *)
(* subsets of a finite set are well founded).                              *)
(***************************************************************************)
EXTENDS Integers, FiniteSetsExt, FiniteSetTheorems, TLAPS

SumOver(f, S) == MapThenSumSet(LAMBDA x : f[x], S)

Pick(T) == CHOOSE x \in T : TRUE

IsSum(iter, f, S) ==
  iter = [T \in SUBSET S |-> IF T = {} THEN 0
                             ELSE f[Pick(T)] + iter[T \ {Pick(T)}]]

LEMMA SumUnfolds ==
  ASSUME NEW f, NEW S
  PROVE  SumOver(f, S) = (CHOOSE iter : IsSum(iter, f, S))[S]
BY DEF SumOver, MapThenSumSet, MapThenFoldSet, IsSum, Pick

(* A non-empty family of subsets of a finite set has a smallest member.     *)
LEMMA SmallestSubset ==
  ASSUME NEW S, IsFiniteSet(S), NEW F \in SUBSET SUBSET S, F # {}
  PROVE  \E T \in F : \A U \in F : ~(U \subseteq T /\ U # T)
<1>1. IsWellFoundedOn(StrictSubsetOrdering(S), SUBSET S)
  BY FS_StrictSubsetOrderingWellFounded, FS_FiniteSubsetsOfFinite
<1>2. PICK T \in F : \A U \in F : <<U, T>> \notin StrictSubsetOrdering(S)
  BY <1>1, WFMin
<1>3. ASSUME NEW U \in F, U \subseteq T, U # T PROVE FALSE
  <2>1. <<U, T>> \in (SUBSET S) \X (SUBSET S)
    OBVIOUS
  <2> QED BY <1>2, <1>3, <2>1 DEF StrictSubsetOrdering
<1> QED BY <1>3

LEMMA SumStep ==
  ASSUME NEW f, NEW S, NEW g, IsSum(g, f, S), NEW T \in SUBSET S
  PROVE  /\ T = {} => g[T] = 0
         /\ T # {} => /\ Pick(T) \in T /\ T \ {Pick(T)} \in SUBSET S
                      /\ g[T] = f[Pick(T)] + g[T \ {Pick(T)}]
<1>1. g[T] = IF T = {} THEN 0 ELSE f[Pick(T)] + g[T \ {Pick(T)}]
  BY Zenon DEF IsSum
<1>2. T # {} => Pick(T) \in T
  BY DEF Pick
<1> QED BY <1>1, <1>2

LEMMA SumOfNone ==
  ASSUME NEW f, NEW S, NEW g, IsSum(g, f, S)
  PROVE  g[{}] = 0
<1>1. {} \in SUBSET S
  OBVIOUS
<1> QED BY <1>1, SumStep

(* Two sums over the same subsets agree.                                    *)
LEMMA SumUnique ==
  ASSUME NEW f, NEW S, IsFiniteSet(S), NEW g, IsSum(g, f, S),
         NEW U \in SUBSET S, NEW h, IsSum(h, f, U), NEW T \in SUBSET U
  PROVE  g[T] = h[T]
<1> DEFINE Bad == {W \in SUBSET U : g[W] # h[W]}
<1> SUFFICES ASSUME Bad # {} PROVE FALSE
  OBVIOUS
<1>1. PICK W \in Bad : \A V \in Bad : ~(V \subseteq W /\ V # W)
  <2>1. Bad \in SUBSET SUBSET U /\ IsFiniteSet(U)
    BY FS_Subset
  <2> HIDE DEF Bad
  <2> QED BY <2>1, SmallestSubset
<1>2. W # {}
  <2>1. g[{}] = 0 /\ h[{}] = 0
    BY SumOfNone
  <2> QED BY <2>1
<1>3. Pick(W) \in W /\ W \ {Pick(W)} \in SUBSET U
  BY <1>2, SumStep
<1>4. g[W \ {Pick(W)}] = h[W \ {Pick(W)}]
  BY <1>1, <1>3
<1>5. g[W] = f[Pick(W)] + g[W \ {Pick(W)}] /\ h[W] = f[Pick(W)] + h[W \ {Pick(W)}]
  BY <1>2, SumStep
<1> QED BY <1>4, <1>5

LEMMA SumExists ==
  ASSUME NEW f, NEW S, IsFiniteSet(S)
  PROVE  \E g : IsSum(g, f, S)
<1> DEFINE Bad == {W \in SUBSET S : ~ \E g : IsSum(g, f, W)}
<1> SUFFICES ASSUME Bad # {} PROVE FALSE
  OBVIOUS
<1>1. PICK U \in Bad : \A V \in Bad : ~(V \subseteq U /\ V # U)
  <2>1. Bad \in SUBSET SUBSET S
    OBVIOUS
  <2> HIDE DEF Bad
  <2> QED BY <2>1, SmallestSubset
<1> DEFINE G(V) == CHOOSE g : IsSum(g, f, V)
           Rest(T) == T \ {Pick(T)}
           h == [T \in SUBSET U |-> IF T = {} THEN 0
                                    ELSE f[Pick(T)] + G(Rest(T))[Rest(T)]]
<1>2. ASSUME NEW V \in SUBSET U, V # U PROVE IsSum(G(V), f, V)
  <2>1. \E g : IsSum(g, f, V)
    BY <1>1, <1>2
  <2> QED BY <2>1
<1>3. ASSUME NEW T \in SUBSET U, T # {} PROVE h[Rest(T)] = G(Rest(T))[Rest(T)]
  <2> DEFINE W == Rest(T)
  <2>1. W \in SUBSET U /\ W # U
    BY <1>3 DEF Pick
  <2>2. IsSum(G(W), f, W)
    BY <1>2, <2>1
  <2>3. CASE W = {}
    <3>1. G(W)[W] = 0
      <4>1. W \in SUBSET W
        OBVIOUS
      <4> HIDE DEF W, G
      <4> QED BY <2>2, <2>3, <4>1, SumStep
    <3> QED BY <2>1, <2>3, <3>1
  <2>4. CASE W # {}
    <3>1. /\ Rest(W) \in SUBSET W /\ Rest(W) # U
          /\ G(W)[W] = f[Pick(W)] + G(W)[Rest(W)]
      <4>1. /\ Pick(W) \in W /\ W \in SUBSET W
            /\ G(W)[W] = f[Pick(W)] + G(W)[W \ {Pick(W)}]
        <5>1. W \in SUBSET W
          OBVIOUS
        <5> HIDE DEF W, G
        <5> QED BY <2>2, <2>4, <5>1, SumStep
      <4> QED BY <2>1, <4>1
    <3>2. IsSum(G(Rest(W)), f, Rest(W))
      BY <1>2, <2>1, <3>1
    <3>3. IsFiniteSet(W)
      BY <2>1, FS_Subset
    <3>4. G(W)[Rest(W)] = G(Rest(W))[Rest(W)]
      <4>1. Rest(W) \in SUBSET Rest(W)
        OBVIOUS
      <4> HIDE DEF W, G, Rest
      <4> QED BY <2>2, <3>1, <3>2, <3>3, <4>1, SumUnique
    <3>5. h[W] = f[Pick(W)] + G(Rest(W))[Rest(W)]
      BY <2>1, <2>4
    <3>6. h[W] = G(W)[W]
      <4> HIDE DEF W, G, Rest, h
      <4> QED BY <3>1, <3>4, <3>5
    <3> QED BY <3>6
  <2> QED BY <2>3, <2>4
<1>4. h = [T \in SUBSET U |-> IF T = {} THEN 0 ELSE f[Pick(T)] + h[T \ {Pick(T)}]]
  <2>1. \A T \in SUBSET U : T # {} => h[Rest(T)] = G(Rest(T))[Rest(T)]
    BY <1>3
  <2>2. \A T \in SUBSET U :
          h[T] = IF T = {} THEN 0 ELSE f[Pick(T)] + h[Rest(T)]
    <3>1. \A T \in SUBSET U :
            h[T] = IF T = {} THEN 0 ELSE f[Pick(T)] + G(Rest(T))[Rest(T)]
      BY Zenon
    <3> HIDE DEF G, h
    <3> QED BY <2>1, <3>1
  <2>3. h = [T \in SUBSET U |-> h[T]]
    OBVIOUS
  <2> HIDE DEF h
  <2>4. h = [T \in SUBSET U |-> IF T = {} THEN 0 ELSE f[Pick(T)] + h[Rest(T)]]
    BY <2>2, <2>3, Zenon
  <2> QED BY <2>4
<1>5. IsSum(h, f, U)
  BY <1>4 DEF IsSum
<1> QED BY <1>1, <1>5

(* The sum over a set is a picked element's value and the sum of the rest.  *)
LEMMA SumPick ==
  ASSUME NEW f, NEW S, IsFiniteSet(S)
  PROVE  /\ S = {} => SumOver(f, S) = 0
         /\ S # {} => /\ Pick(S) \in S
                      /\ SumOver(f, S) = f[Pick(S)] + SumOver(f, S \ {Pick(S)})
<1> DEFINE G(V) == CHOOSE g : IsSum(g, f, V)
           R == S \ {Pick(S)}
<1>1. IsFiniteSet(R) /\ R \in SUBSET S
  BY FS_Subset
<1>2. IsSum(G(S), f, S) /\ IsSum(G(R), f, R)
  <2>1. (\E g : IsSum(g, f, S)) /\ \E g : IsSum(g, f, R)
    BY <1>1, SumExists
  <2> QED BY <2>1
<1>3. SumOver(f, S) = G(S)[S] /\ SumOver(f, R) = G(R)[R]
  BY SumUnfolds
<1>4. G(S)[R] = G(R)[R]
  <2>1. R \in SUBSET R
    OBVIOUS
  <2> HIDE DEF G, R
  <2> QED BY <1>1, <1>2, <2>1, SumUnique
<1>5. /\ S = {} => G(S)[S] = 0
      /\ S # {} => Pick(S) \in S /\ G(S)[S] = f[Pick(S)] + G(S)[R]
  <2>1. S \in SUBSET S
    OBVIOUS
  <2> HIDE DEF G
  <2> QED BY <1>2, <2>1, SumStep
<1> HIDE DEF G
<1> QED BY <1>3, <1>4, <1>5

(* A sum of integers is an integer, and any element may be taken out of it. *)
LEMMA SumTakeOut ==
  ASSUME NEW f, NEW S, IsFiniteSet(S), \A x \in S : f[x] \in Int
  PROVE  /\ SumOver(f, S) \in Int
         /\ \A x \in S : SumOver(f, S) = f[x] + SumOver(f, S \ {x})
<1> DEFINE Good(T) == /\ SumOver(f, T) \in Int
                      /\ \A x \in T : SumOver(f, T) = f[x] + SumOver(f, T \ {x})
           Bad == {T \in SUBSET S : ~Good(T)}
<1> SUFFICES ASSUME Bad # {} PROVE FALSE
  <2>1. Bad = {} => Good(S)
    <3> HIDE DEF Good
    <3> QED OBVIOUS
  <2> QED BY <2>1
<1>1. PICK T \in Bad : \A U \in Bad : ~(U \subseteq T /\ U # T)
  <2>1. Bad \in SUBSET SUBSET S
    OBVIOUS
  <2> HIDE DEF Bad
  <2> QED BY <2>1, SmallestSubset
<1>2. ASSUME NEW x \in T PROVE T \ {x} \in SUBSET S /\ Good(T \ {x})
  <2>1. T \ {x} \in SUBSET S /\ T \ {x} \subseteq T /\ T \ {x} # T
    BY <1>2
  <2> HIDE DEF Good
  <2> QED BY <1>1, <2>1
<1>3. IsFiniteSet(T)
  BY FS_Subset
<1>4. CASE T = {}
  <2>1. SumOver(f, T) = 0
    BY <1>3, <1>4, SumPick
  <2>2. Good(T)
    BY <1>4, <2>1
  <2> HIDE DEF Good
  <2> QED BY <2>2
<1>5. CASE T # {}
  <2> DEFINE p == Pick(T)
  <2>1. p \in T /\ SumOver(f, T) = f[p] + SumOver(f, T \ {p})
    BY <1>3, <1>5, SumPick
  <2> HIDE DEF p
  <2>2. f[p] \in Int /\ SumOver(f, T \ {p}) \in Int /\ SumOver(f, T) \in Int
    BY <1>2, <2>1
  <2>3. ASSUME NEW x \in T PROVE SumOver(f, T) = f[x] + SumOver(f, T \ {x})
    <3>1. CASE x = p
      BY <2>1, <3>1
    <3>2. CASE x # p
      <4>1. SumOver(f, T \ {p}) = f[x] + SumOver(f, (T \ {p}) \ {x})
        BY <1>2, <2>1, <3>2
      <4>2. SumOver(f, T \ {x}) = f[p] + SumOver(f, (T \ {x}) \ {p})
        BY <1>2, <2>1, <3>2
      <4>3. (T \ {p}) \ {x} = (T \ {x}) \ {p}
        OBVIOUS
      <4>4. Good(T \ {x}) /\ f[x] \in Int
        BY <1>2
      <4>5. SumOver(f, T \ {x}) \in Int
        BY <4>4
      <4>6. SumOver(f, (T \ {x}) \ {p}) \in Int
        <5>1. (T \ {x}) \ {p} \in SUBSET S /\ (T \ {x}) \ {p} \subseteq T /\ (T \ {x}) \ {p} # T
          BY <2>1
        <5> QED BY <1>1, <5>1
      <4>7. f[x] \in Int
        BY <4>4
      <4> HIDE DEF Good, Bad
      <4>8. SumOver(f, T \ {x}) = f[p] + SumOver(f, (T \ {p}) \ {x})
        BY <4>2, <4>3, Zenon
      <4>9. SumOver(f, (T \ {p}) \ {x}) \in Int
        BY <4>3, <4>6, Zenon
      <4> QED BY <2>1, <2>2, <4>1, <4>7, <4>8, <4>9
    <3> QED BY <3>1, <3>2
  <2> QED BY <2>2, <2>3
<1> QED BY <1>4, <1>5

LEMMA SumEmpty == ASSUME NEW f PROVE SumOver(f, {}) = 0
BY SumPick, FS_EmptySet

(* A sum depends on the values over its set alone.                          *)
LEMMA SumSame ==
  ASSUME NEW f, NEW g, NEW S, IsFiniteSet(S), \A x \in S : f[x] = g[x]
  PROVE  SumOver(f, S) = SumOver(g, S)
<1> DEFINE Bad == {T \in SUBSET S : SumOver(f, T) # SumOver(g, T)}
<1> SUFFICES ASSUME Bad # {} PROVE FALSE
  OBVIOUS
<1>1. PICK T \in Bad : \A U \in Bad : ~(U \subseteq T /\ U # T)
  <2>1. Bad \in SUBSET SUBSET S
    OBVIOUS
  <2> HIDE DEF Bad
  <2> QED BY <2>1, SmallestSubset
<1>2. IsFiniteSet(T)
  BY FS_Subset
<1>3. CASE T = {}
  BY <1>1, <1>3, SumEmpty
<1>4. CASE T # {}
  <2> DEFINE p == Pick(T)
  <2>1. /\ p \in T /\ SumOver(f, T) = f[p] + SumOver(f, T \ {p})
        /\ SumOver(g, T) = g[p] + SumOver(g, T \ {p})
    BY <1>2, <1>4, SumPick
  <2>2. T \ {p} \in SUBSET S /\ T \ {p} \subseteq T /\ T \ {p} # T
    BY <2>1
  <2>3. SumOver(f, T \ {p}) = SumOver(g, T \ {p})
    BY <1>1, <2>2
  <2> QED BY <1>1, <2>1, <2>3
<1> QED BY <1>3, <1>4

(* One value changes: the sum moves by as much.                             *)
LEMMA SumChange ==
  ASSUME NEW f, NEW g, NEW S, IsFiniteSet(S),
         \A x \in S : f[x] \in Int /\ g[x] \in Int,
         NEW y \in S, \A x \in S : x # y => g[x] = f[x]
  PROVE  SumOver(g, S) = SumOver(f, S) + g[y] - f[y]
<1>1. /\ SumOver(f, S) \in Int /\ SumOver(f, S) = f[y] + SumOver(f, S \ {y})
      /\ SumOver(g, S) \in Int /\ SumOver(g, S) = g[y] + SumOver(g, S \ {y})
  BY SumTakeOut
<1>2. IsFiniteSet(S \ {y})
  BY FS_Subset
<1>3. SumOver(f, S \ {y}) = SumOver(g, S \ {y}) /\ SumOver(f, S \ {y}) \in Int
  BY <1>2, SumSame, SumTakeOut
<1> QED BY <1>1, <1>3

(* One element joins the set.                                               *)
LEMMA SumJoin ==
  ASSUME NEW f, NEW S, IsFiniteSet(S), NEW y, y \notin S,
         \A x \in S \cup {y} : f[x] \in Int
  PROVE  SumOver(f, S \cup {y}) = SumOver(f, S) + f[y]
<1>1. IsFiniteSet(S \cup {y}) /\ (S \cup {y}) \ {y} = S
  BY FS_AddElement
<1>2. SumOver(f, S \cup {y}) = f[y] + SumOver(f, (S \cup {y}) \ {y})
  BY <1>1, SumTakeOut
<1>3. SumOver(f, S) \in Int /\ f[y] \in Int
  BY SumTakeOut
<1>4. SumOver(f, S \cup {y}) = f[y] + SumOver(f, S)
  BY <1>1, <1>2, Zenon
<1> QED BY <1>3, <1>4

LEMMA SumOne ==
  ASSUME NEW f, NEW x, f[x] \in Int
  PROVE  SumOver(f, {x}) = f[x]
<1>1. SumOver(f, {} \cup {x}) = SumOver(f, {}) + f[x]
  BY FS_EmptySet, SumJoin
<1>2. {} \cup {x} = {x}
  OBVIOUS
<1>3. SumOver(f, {x}) = SumOver(f, {}) + f[x]
  BY <1>1, <1>2, Zenon
<1> QED BY <1>3, SumEmpty

(* One element leaves it.                                                   *)
LEMMA SumLeave ==
  ASSUME NEW f, NEW S, IsFiniteSet(S), NEW y \in S, \A x \in S : f[x] \in Int
  PROVE  SumOver(f, S \ {y}) = SumOver(f, S) - f[y]
<1>1. SumOver(f, S) = f[y] + SumOver(f, S \ {y}) /\ f[y] \in Int
  BY SumTakeOut
<1>2. IsFiniteSet(S \ {y})
  BY FS_Subset
<1>3. SumOver(f, S \ {y}) \in Int
  BY <1>2, SumTakeOut
<1> QED BY <1>1, <1>3

(* The elements of two disjoint sets are summed apart.                      *)
LEMMA SumUnion ==
  ASSUME NEW f, NEW S, NEW T, IsFiniteSet(S), IsFiniteSet(T), S \cap T = {},
         \A x \in S \cup T : f[x] \in Int
  PROVE  SumOver(f, S \cup T) = SumOver(f, S) + SumOver(f, T)
<1> DEFINE Bad == {U \in SUBSET T : SumOver(f, S \cup U) # SumOver(f, S) + SumOver(f, U)}
<1> SUFFICES ASSUME Bad # {} PROVE FALSE
  OBVIOUS
<1>1. PICK U \in Bad : \A V \in Bad : ~(V \subseteq U /\ V # U)
  <2>1. Bad \in SUBSET SUBSET T
    OBVIOUS
  <2> HIDE DEF Bad
  <2> QED BY <2>1, SmallestSubset
<1>2. SumOver(f, S) \in Int
  BY SumTakeOut
<1>3. U # {}
  <2>1. S \cup {} = S /\ SumOver(f, {}) = 0
    BY SumEmpty
  <2>2. SumOver(f, S \cup {}) = SumOver(f, S) + SumOver(f, {})
    BY <1>2, <2>1
  <2> QED BY <2>2
<1>4. PICK y \in U : TRUE
  BY <1>3
<1> DEFINE V == U \ {y}
<1>5. SumOver(f, S \cup V) = SumOver(f, S) + SumOver(f, V)
  BY <1>1, <1>4
<1>6. IsFiniteSet(V) /\ V \cup {y} = U /\ (S \cup V) \cup {y} = S \cup U
  BY FS_Subset
<1>7. IsFiniteSet(S \cup V)
  BY <1>6, FS_Union
<1>8. f[y] \in Int /\ SumOver(f, V) \in Int
  BY <1>6, SumTakeOut
<1>9. SumOver(f, V \cup {y}) = SumOver(f, V) + f[y]
  BY <1>6, SumJoin
<1>10. SumOver(f, (S \cup V) \cup {y}) = SumOver(f, S \cup V) + f[y]
  <2>1. y \notin S \cup V /\ \A x \in (S \cup V) \cup {y} : f[x] \in Int
    OBVIOUS
  <2> QED BY <1>7, <2>1, SumJoin
<1>11. SumOver(f, U) = SumOver(f, V) + f[y] /\ SumOver(f, S \cup U) = SumOver(f, S \cup V) + f[y]
  BY <1>6, <1>9, <1>10, Zenon
<1>12. SumOver(f, S \cup U) = SumOver(f, S) + SumOver(f, U)
  <2> HIDE DEF V
  <2> QED BY <1>2, <1>5, <1>8, <1>11
<1> QED BY <1>12

LEMMA SumNat ==
  ASSUME NEW f, NEW S, IsFiniteSet(S), \A x \in S : f[x] \in Nat
  PROVE  SumOver(f, S) \in Nat
<1> DEFINE Bad == {T \in SUBSET S : SumOver(f, T) \notin Nat}
<1> SUFFICES ASSUME Bad # {} PROVE FALSE
  OBVIOUS
<1>1. PICK T \in Bad : \A U \in Bad : ~(U \subseteq T /\ U # T)
  <2>1. Bad \in SUBSET SUBSET S
    OBVIOUS
  <2> HIDE DEF Bad
  <2> QED BY <2>1, SmallestSubset
<1>2. CASE T = {}
  BY <1>1, <1>2, SumEmpty
<1>3. CASE T # {}
  <2>1. IsFiniteSet(T)
    BY FS_Subset
  <2>2. Pick(T) \in T /\ SumOver(f, T) = f[Pick(T)] + SumOver(f, T \ {Pick(T)})
    BY <1>3, <2>1, SumPick
  <2>3. SumOver(f, T \ {Pick(T)}) \in Nat
    BY <1>1, <2>2
  <2>4. f[Pick(T)] \in Nat
    BY <2>2
  <2> QED BY <2>2, <2>3, <2>4
<1> QED BY <1>2, <1>3

LEMMA SumZero ==
  ASSUME NEW f, NEW S, IsFiniteSet(S), \A x \in S : f[x] = 0
  PROVE  SumOver(f, S) = 0
<1> DEFINE Bad == {T \in SUBSET S : SumOver(f, T) # 0}
<1> SUFFICES ASSUME Bad # {} PROVE FALSE
  OBVIOUS
<1>1. PICK T \in Bad : \A U \in Bad : ~(U \subseteq T /\ U # T)
  <2>1. Bad \in SUBSET SUBSET S
    OBVIOUS
  <2> HIDE DEF Bad
  <2> QED BY <2>1, SmallestSubset
<1>2. CASE T = {}
  BY <1>1, <1>2, SumEmpty
<1>3. CASE T # {}
  <2>1. IsFiniteSet(T)
    BY FS_Subset
  <2>2. Pick(T) \in T /\ SumOver(f, T) = f[Pick(T)] + SumOver(f, T \ {Pick(T)})
    BY <1>3, <2>1, SumPick
  <2>3. SumOver(f, T \ {Pick(T)}) = 0
    BY <1>1, <2>2
  <2> QED BY <2>2, <2>3
<1> QED BY <1>2, <1>3

=============================================================================
