----------------------------- MODULE FigureProofs -----------------------------
(***************************************************************************)
(* The figures of the back office and of the shops: what one query counts or *)
(* adds up, the others do too, for every number of shops, plans, orders,     *)
(* calls and moments.                                                       *)
(*                                                                          *)
(* A sum of the model is a fold that takes the values in an order nobody     *)
(* knows.  Its laws are proved first, each from a smallest set for which it  *)
(* would not hold.                                                          *)
(***************************************************************************)
EXTENDS ShopFigures, FiniteSetTheorems, WellFoundedInduction, TLAPS

---------------------------------------------------------------------------
(* Sums over finite sets *)

(* A family of subsets of a finite set has a smallest member: the induction used below. *)
LEMMA SmallestPart ==
  ASSUME NEW S, IsFiniteSet(S), NEW B, B \subseteq SUBSET S, B # {}
  PROVE  \E T \in B : IsFiniteSet(T) /\ \A U \in SUBSET T : U # T => U \notin B
<1>1. IsWellFoundedOn(StrictSubsetOrdering(S), FiniteSubsetsOf(S))
  BY FS_StrictSubsetOrderingWellFounded
<1>2. FiniteSubsetsOf(S) = SUBSET S
  BY FS_FiniteSubsetsOfFinite
<1>3. PICK T \in B : \A U \in B : ~(<<U, T>> \in StrictSubsetOrdering(S))
  BY <1>1, <1>2, WFMin
<1>4. ASSUME NEW U \in SUBSET T, U # T, U \in B PROVE FALSE
  BY <1>3, <1>4 DEF StrictSubsetOrdering
<1>5. IsFiniteSet(T)
  BY <1>3, FS_Subset
<1> QED BY <1>3, <1>4, <1>5

AnyOf(s) == CHOOSE x \in s : TRUE
SumStep(F, g, s) == IF s = {} THEN 0 ELSE F[AnyOf(s)] + g[s \ {AnyOf(s)}]
Folds(g, F, S) == g = [s \in SUBSET S |-> SumStep(F, g, s)]
FoldOf(F, S) == CHOOSE g : Folds(g, F, S)

LEMMA PickIsIn == \A s : s # {} => AnyOf(s) \in s
  BY DEF AnyOf

LEMMA FoldAt ==
  ASSUME NEW F, NEW S, NEW g, Folds(g, F, S), NEW s \in SUBSET S
  PROVE  g[s] = SumStep(F, g, s)
  BY DEF Folds

(* Two folds of the same values agree wherever both are defined. *)
LEMMA FoldsAgree ==
  ASSUME NEW F, NEW S, NEW T, NEW g, NEW h, IsFiniteSet(S), Folds(g, F, S), Folds(h, F, T)
  PROVE  \A s \in SUBSET (S \cap T) : g[s] = h[s]
<1> DEFINE B == {s \in SUBSET (S \cap T) : g[s] # h[s]}
<1> SUFFICES ASSUME B # {} PROVE FALSE
  OBVIOUS
<1>0. B \subseteq SUBSET S
  OBVIOUS
<1>1. PICK s \in B : \A u \in SUBSET s : u # s => u \notin B
  <2> HIDE DEF B
  <2> QED BY <1>0, SmallestPart
<1>2. s \in SUBSET S /\ s \in SUBSET T /\ g[s] # h[s]
  BY <1>1
<1>3. g[s] = SumStep(F, g, s) /\ h[s] = SumStep(F, h, s)
  BY <1>2, FoldAt
<1>4. s # {}
  BY <1>2, <1>3 DEF SumStep
<1>5. PICK u : u = s \ {AnyOf(s)}
  OBVIOUS
<1>6. u \in SUBSET s /\ u # s
  BY <1>4, <1>5, PickIsIn
<1>7. g[u] = h[u]
  BY <1>1, <1>2, <1>6
<1> QED BY <1>2, <1>3, <1>5, <1>7 DEF SumStep

(* Every finite set of values can be added up, one after the other. *)
LEMMA FoldExists ==
  ASSUME NEW F, NEW S, IsFiniteSet(S)
  PROVE  \E g : Folds(g, F, S)
<1> DEFINE B == {T \in SUBSET S : ~\E g : Folds(g, F, T)}
<1> SUFFICES ASSUME B # {} PROVE FALSE
  OBVIOUS
<1>0. B \subseteq SUBSET S
  OBVIOUS
<1>1. PICK T \in B : IsFiniteSet(T) /\ \A U \in SUBSET T : U # T => U \notin B
  <2> HIDE DEF B
  <2> QED BY <1>0, SmallestPart
<1>2. ASSUME NEW U \in SUBSET T, U # T PROVE Folds(FoldOf(F, U), F, U) /\ IsFiniteSet(U)
  BY <1>1, <1>2, FS_Subset DEF FoldOf
<1>3. PICK g : g = [s \in SUBSET T |-> SumStep(F, [u \in SUBSET T |-> FoldOf(F, u)[u]], s)]
  OBVIOUS
<1>4. ASSUME NEW s \in SUBSET T PROVE g[s] = SumStep(F, g, s)
  <2>1. CASE s = {}
    BY <2>1, <1>3 DEF SumStep
  <2>2. CASE s # {}
    <3>1. PICK u : u = s \ {AnyOf(s)}
      OBVIOUS
    <3>2. u \in SUBSET T /\ u # T /\ u \in SUBSET s
      BY <2>2, <3>1, PickIsIn
    <3>3. g[s] = F[AnyOf(s)] + FoldOf(F, u)[u]
      BY <2>2, <3>1, <3>2, <1>3 DEF SumStep
    <3>4. g[u] = SumStep(F, [w \in SUBSET T |-> FoldOf(F, w)[w]], u)
      BY <3>2, <1>3
    <3>5. FoldOf(F, u)[u] = SumStep(F, FoldOf(F, u), u)
      BY <1>2, <3>2, FoldAt
    <3>6. g[u] = FoldOf(F, u)[u]
      <4>1. CASE u = {}
        BY <4>1, <3>4, <3>5 DEF SumStep
      <4>2. CASE u # {}
        <5>1. PICK w : w = u \ {AnyOf(u)}
          OBVIOUS
        <5>2. w \in SUBSET T /\ w # T /\ w \in SUBSET (u \cap w)
          BY <4>2, <5>1, <3>2, PickIsIn
        <5>3. FoldOf(F, u)[w] = FoldOf(F, w)[w]
          BY <1>2, <3>2, <5>2, FoldsAgree
        <5> QED BY <4>2, <5>1, <5>2, <5>3, <3>4, <3>5 DEF SumStep
      <4> QED BY <4>1, <4>2
    <3> QED BY <2>2, <3>1, <3>3, <3>6 DEF SumStep
  <2> QED BY <2>1, <2>2
<1>5. g = [s \in SUBSET T |-> SumStep(F, g, s)]
  BY <1>3, <1>4
<1> QED BY <1>1, <1>5 DEF Folds

LEMMA SumIsFold ==
  ASSUME NEW F, NEW S
  PROVE  SumFunctionOnSet(F, S)
           = (CHOOSE g : g = [s \in SUBSET S |->
                IF s = {} THEN 0 ELSE F[CHOOSE x \in s : TRUE] + g[s \ {CHOOSE x \in s : TRUE}]])[S]
  BY Zenon DEF SumFunctionOnSet, FoldFunctionOnSet, MapThenFoldSet

LEMMA SumIsFoldOf ==
  ASSUME NEW F, NEW S
  PROVE  SumFunctionOnSet(F, S) = FoldOf(F, S)[S]
  BY SumIsFold DEF FoldOf, Folds, SumStep, AnyOf

(* The sum over no index is zero; else it is one value and the sum of the others. *)
LEMMA SumUnfolds ==
  ASSUME NEW F, NEW S, IsFiniteSet(S)
  PROVE  /\ S = {} => SumFunctionOnSet(F, S) = 0
         /\ S # {} => /\ AnyOf(S) \in S
                      /\ SumFunctionOnSet(F, S)
                           = F[AnyOf(S)] + SumFunctionOnSet(F, S \ {AnyOf(S)})
<1>1. Folds(FoldOf(F, S), F, S)
  BY FoldExists DEF FoldOf
<1>2. FoldOf(F, S)[S] = SumStep(F, FoldOf(F, S), S)
  BY <1>1, FoldAt
<1>3. CASE S = {}
  BY <1>3, <1>2, SumIsFoldOf DEF SumStep
<1>4. CASE S # {}
  <2>1. AnyOf(S) \in S
    BY <1>4, PickIsIn
  <2>2. PICK u : u = S \ {AnyOf(S)}
    OBVIOUS
  <2>3. IsFiniteSet(u) /\ u \in SUBSET (S \cap u)
    BY <2>2, FS_Subset
  <2>4. Folds(FoldOf(F, u), F, u)
    BY <2>3, FoldExists DEF FoldOf
  <2>5. FoldOf(F, S)[u] = FoldOf(F, u)[u]
    BY <1>1, <2>3, <2>4, FoldsAgree
  <2> QED BY <1>2, <1>4, <2>1, <2>2, <2>5, SumIsFoldOf DEF SumStep
<1> QED BY <1>3, <1>4

(* Nothing adds up to zero. *)
LEMMA SumOfNone == \A F : SumFunctionOnSet(F, {}) = 0
  BY FS_EmptySet, SumUnfolds

(* A sum of integers is one. *)
LEMMA SumIsInt ==
  ASSUME NEW S, IsFiniteSet(S), NEW F, \A x \in S : F[x] \in Int
  PROVE  SumFunctionOnSet(F, S) \in Int
<1> DEFINE B == {T \in SUBSET S : SumFunctionOnSet(F, T) \notin Int}
<1> SUFFICES ASSUME B # {} PROVE FALSE
  BY DEF B
<1>0. B \subseteq SUBSET S
  OBVIOUS
<1>1. PICK T \in B : IsFiniteSet(T) /\ \A U \in SUBSET T : U # T => U \notin B
  <2> HIDE DEF B
  <2> QED BY <1>0, SmallestPart
<1>2. T # {}
  <2> SUFFICES ASSUME T = {} PROVE FALSE
    OBVIOUS
  <2>1. \A J : SumFunctionOnSet(J, T) = 0
    BY SumOfNone
  <2> QED BY <2>1, <1>1
<1>3. PICK u : u = T \ {AnyOf(T)}
  OBVIOUS
<1>4. AnyOf(T) \in T /\ SumFunctionOnSet(F, T) = F[AnyOf(T)] + SumFunctionOnSet(F, u)
  BY <1>1, <1>2, <1>3, SumUnfolds
<1>5. u \in SUBSET T /\ u # T
  BY <1>3, <1>4
<1>6. SumFunctionOnSet(F, u) \in Int
  BY <1>1, <1>5
<1>7. F[AnyOf(T)] \in Int
  BY <1>4
<1> QED BY <1>1, <1>4, <1>6, <1>7

(* A sum of naturals is one. *)
LEMMA SumIsNat ==
  ASSUME NEW S, IsFiniteSet(S), NEW F, \A x \in S : F[x] \in Nat
  PROVE  SumFunctionOnSet(F, S) \in Nat
<1> DEFINE B == {T \in SUBSET S : SumFunctionOnSet(F, T) \notin Nat}
<1> SUFFICES ASSUME B # {} PROVE FALSE
  BY DEF B
<1>0. B \subseteq SUBSET S
  OBVIOUS
<1>1. PICK T \in B : IsFiniteSet(T) /\ \A U \in SUBSET T : U # T => U \notin B
  <2> HIDE DEF B
  <2> QED BY <1>0, SmallestPart
<1>2. T # {}
  <2> SUFFICES ASSUME T = {} PROVE FALSE
    OBVIOUS
  <2>1. \A J : SumFunctionOnSet(J, T) = 0
    BY SumOfNone
  <2> QED BY <2>1, <1>1
<1>3. PICK u : u = T \ {AnyOf(T)}
  OBVIOUS
<1>4. AnyOf(T) \in T /\ SumFunctionOnSet(F, T) = F[AnyOf(T)] + SumFunctionOnSet(F, u)
  BY <1>1, <1>2, <1>3, SumUnfolds
<1>5. u \in SUBSET T /\ u # T
  BY <1>3, <1>4
<1>6. SumFunctionOnSet(F, u) \in Nat
  BY <1>1, <1>5
<1>7. F[AnyOf(T)] \in Nat
  BY <1>4
<1> QED BY <1>1, <1>4, <1>6, <1>7

(* A sum can begin with any of its values. *)
LEMMA SumTakes ==
  ASSUME NEW S, IsFiniteSet(S), NEW F, \A x \in S : F[x] \in Int, NEW x \in S
  PROVE  SumFunctionOnSet(F, S) = F[x] + SumFunctionOnSet(F, S \ {x})
<1> DEFINE B == {T \in SUBSET S : \E y \in T :
                   SumFunctionOnSet(F, T) # F[y] + SumFunctionOnSet(F, T \ {y})}
<1> SUFFICES ASSUME B # {} PROVE FALSE
  BY DEF B
<1>0. B \subseteq SUBSET S
  OBVIOUS
<1>1. PICK T \in B : IsFiniteSet(T) /\ \A U \in SUBSET T : U # T => U \notin B
  <2> HIDE DEF B
  <2> QED BY <1>0, SmallestPart
<1>2. PICK y \in T : SumFunctionOnSet(F, T) # F[y] + SumFunctionOnSet(F, T \ {y})
  BY <1>1
<1>3. PICK z, u, v, w : z = AnyOf(T) /\ u = T \ {z} /\ v = T \ {y} /\ w = u \ {y}
  OBVIOUS
<1>4. z \in T /\ SumFunctionOnSet(F, T) = F[z] + SumFunctionOnSet(F, u)
  BY <1>1, <1>3, SumUnfolds
<1>5. z # y
  BY <1>2, <1>3, <1>4
<1>6. u \in SUBSET T /\ u # T /\ y \in u /\ v \in SUBSET T /\ v # T /\ z \in v /\ w = v \ {z}
  BY <1>3, <1>4, <1>5
<1>a. ASSUME NEW U \in SUBSET T, U # T, NEW e \in U
      PROVE  SumFunctionOnSet(F, U) = F[e] + SumFunctionOnSet(F, U \ {e})
  BY <1>1, <1>a
<1>7. SumFunctionOnSet(F, u) = F[y] + SumFunctionOnSet(F, w)
  BY <1>a, <1>3, <1>6
<1>8. SumFunctionOnSet(F, v) = F[z] + SumFunctionOnSet(F, w)
  BY <1>a, <1>6
<1>9. w \in SUBSET T /\ IsFiniteSet(w)
  BY <1>1, <1>3, FS_Subset
<1>10. SumFunctionOnSet(F, w) \in Int /\ F[y] \in Int /\ F[z] \in Int
  BY <1>1, <1>4, <1>9, SumIsInt
<1> QED BY <1>2, <1>3, <1>4, <1>7, <1>8, <1>10

(* One more index adds its value. *)
LEMMA SumWith ==
  ASSUME NEW S, IsFiniteSet(S), NEW F, NEW x, x \notin S, \A y \in S \cup {x} : F[y] \in Int
  PROVE  SumFunctionOnSet(F, S \cup {x}) = F[x] + SumFunctionOnSet(F, S)
<1>1. PICK T : T = S \cup {x}
  OBVIOUS
<1>2. IsFiniteSet(T) /\ x \in T /\ S = T \ {x} /\ \A y \in T : F[y] \in Int
  BY <1>1, FS_AddElement
<1> QED BY <1>1, <1>2, SumTakes

(* The sum depends on the values alone. *)
LEMMA SumSame ==
  ASSUME NEW S, IsFiniteSet(S), NEW F, NEW G, \A x \in S : F[x] = G[x]
  PROVE  SumFunctionOnSet(F, S) = SumFunctionOnSet(G, S)
<1> DEFINE B == {T \in SUBSET S : SumFunctionOnSet(F, T) # SumFunctionOnSet(G, T)}
<1> SUFFICES ASSUME B # {} PROVE FALSE
  BY DEF B
<1>0. B \subseteq SUBSET S
  OBVIOUS
<1>1. PICK T \in B : IsFiniteSet(T) /\ \A U \in SUBSET T : U # T => U \notin B
  <2> HIDE DEF B
  <2> QED BY <1>0, SmallestPart
<1>2. T # {}
  <2> SUFFICES ASSUME T = {} PROVE FALSE
    OBVIOUS
  <2>1. \A J : SumFunctionOnSet(J, T) = 0
    BY SumOfNone
  <2> QED BY <2>1, <1>1
<1>3. PICK u : u = T \ {AnyOf(T)}
  OBVIOUS
<1>4. /\ AnyOf(T) \in T /\ SumFunctionOnSet(F, T) = F[AnyOf(T)] + SumFunctionOnSet(F, u)
      /\ SumFunctionOnSet(G, T) = G[AnyOf(T)] + SumFunctionOnSet(G, u)
  BY <1>1, <1>2, <1>3, SumUnfolds
<1>5. u \in SUBSET T /\ u # T
  BY <1>3, <1>4
<1>6. SumFunctionOnSet(F, u) = SumFunctionOnSet(G, u)
  BY <1>1, <1>5
<1> QED BY <1>1, <1>4, <1>6

(* Sums are added value by value. *)
LEMMA SumAdds ==
  ASSUME NEW S, IsFiniteSet(S), NEW F, NEW G, NEW H,
         \A x \in S : F[x] \in Int /\ G[x] \in Int /\ H[x] = F[x] + G[x]
  PROVE  SumFunctionOnSet(H, S) = SumFunctionOnSet(F, S) + SumFunctionOnSet(G, S)
<1> DEFINE B == {T \in SUBSET S :
                   SumFunctionOnSet(H, T) # SumFunctionOnSet(F, T) + SumFunctionOnSet(G, T)}
<1> SUFFICES ASSUME B # {} PROVE FALSE
  BY DEF B
<1>0. B \subseteq SUBSET S
  OBVIOUS
<1>1. PICK T \in B : IsFiniteSet(T) /\ \A U \in SUBSET T : U # T => U \notin B
  <2> HIDE DEF B
  <2> QED BY <1>0, SmallestPart
<1>2. T # {}
  <2> SUFFICES ASSUME T = {} PROVE FALSE
    OBVIOUS
  <2>1. \A J : SumFunctionOnSet(J, T) = 0
    BY SumOfNone
  <2> QED BY <2>1, <1>1
<1>3. PICK u : u = T \ {AnyOf(T)}
  OBVIOUS
<1>4. /\ AnyOf(T) \in T /\ SumFunctionOnSet(F, T) = F[AnyOf(T)] + SumFunctionOnSet(F, u)
      /\ SumFunctionOnSet(G, T) = G[AnyOf(T)] + SumFunctionOnSet(G, u)
      /\ SumFunctionOnSet(H, T) = H[AnyOf(T)] + SumFunctionOnSet(H, u)
  BY <1>1, <1>2, <1>3, SumUnfolds
<1>5. u \in SUBSET T /\ u # T
  BY <1>3, <1>4
<1>6. SumFunctionOnSet(H, u) = SumFunctionOnSet(F, u) + SumFunctionOnSet(G, u)
  BY <1>1, <1>5
<1>7. IsFiniteSet(u) /\ \A x \in u : F[x] \in Int /\ G[x] \in Int
  BY <1>1, <1>5, FS_Subset
<1>8. SumFunctionOnSet(F, u) \in Int /\ SumFunctionOnSet(G, u) \in Int
  BY <1>7, SumIsInt
<1>9. F[AnyOf(T)] \in Int /\ G[AnyOf(T)] \in Int /\ H[AnyOf(T)] = F[AnyOf(T)] + G[AnyOf(T)]
  BY <1>1, <1>4
<1> QED BY <1>1, <1>4, <1>6, <1>8, <1>9

(* What is zero everywhere adds up to zero. *)
LEMMA SumOfZeros ==
  ASSUME NEW S, IsFiniteSet(S), NEW F, \A x \in S : F[x] = 0
  PROVE  SumFunctionOnSet(F, S) = 0
<1>1. \A x \in S : F[x] \in Int /\ F[x] = F[x] + F[x]
  OBVIOUS
<1>2. SumFunctionOnSet(F, S) \in Int
  BY <1>1, SumIsInt
<1>3. PICK G, H : G = F /\ H = F
  OBVIOUS
<1>4. \A x \in S : F[x] \in Int /\ G[x] \in Int /\ H[x] = F[x] + G[x]
  BY <1>1, <1>3
<1>5. SumFunctionOnSet(H, S) = SumFunctionOnSet(F, S) + SumFunctionOnSet(G, S)
  BY <1>4, SumAdds
<1>6. PICK t : t = SumFunctionOnSet(F, S)
  OBVIOUS
<1>7. t \in Int /\ t = t + t
  BY <1>2, <1>3, <1>5, <1>6
<1>8. \A i \in Int : i = i + i => i = 0
  OBVIOUS
<1> QED BY <1>6, <1>7, <1>8

(* The members of A with key d. *)
Keyed(A, K, d) == {a \in A : K[a] = d}

(* What is sorted by a key adds up key by key. *)
LEMMA SumByKey ==
  ASSUME NEW A, IsFiniteSet(A), NEW F, \A a \in A : F[a] \in Int,
         NEW S, IsFiniteSet(S), NEW K, \A a \in A : K[a] \in S,
         NEW N, \A d \in S : N[d] = SumFunctionOnSet(F, Keyed(A, K, d))
  PROVE  SumFunctionOnSet(N, S) = SumFunctionOnSet(F, A)
<1> DEFINE B == {T \in SUBSET A :
                   \E M : /\ \A d \in S : M[d] = SumFunctionOnSet(F, Keyed(T, K, d))
                          /\ SumFunctionOnSet(M, S) # SumFunctionOnSet(F, T)}
<1> SUFFICES ASSUME B # {} PROVE FALSE
  BY DEF B
<1>0. B \subseteq SUBSET A
  OBVIOUS
<1>1. PICK T \in B : IsFiniteSet(T) /\ \A U \in SUBSET T : U # T => U \notin B
  <2> HIDE DEF B
  <2> QED BY <1>0, SmallestPart
<1>2. PICK M : /\ \A d \in S : M[d] = SumFunctionOnSet(F, Keyed(T, K, d))
               /\ SumFunctionOnSet(M, S) # SumFunctionOnSet(F, T)
  BY <1>1
<1>3. T # {}
  <2> SUFFICES ASSUME T = {} PROVE FALSE
    OBVIOUS
  <2>1. ASSUME NEW d \in S PROVE M[d] = 0
    <3>1. Keyed(T, K, d) = {}
      BY DEF Keyed
    <3> QED BY <3>1, <1>2, SumOfNone
  <2> QED BY <2>1, <1>2, SumOfZeros, SumOfNone
<1>4. PICK x \in T : TRUE
  BY <1>3
<1>5. PICK u : u = T \ {x}
  OBVIOUS
<1>6. u \in SUBSET T /\ u # T /\ IsFiniteSet(u)
  BY <1>1, <1>5, FS_Subset
<1>7. SumFunctionOnSet(F, T) = F[x] + SumFunctionOnSet(F, u)
  <2>1. IsFiniteSet(T) /\ \A a \in T : F[a] \in Int
    BY <1>1
  <2> HIDE DEF B
  <2> QED BY <2>1, <1>4, <1>5, SumTakes
<1>8. PICK L : L = [d \in S |-> SumFunctionOnSet(F, Keyed(u, K, d))]
  OBVIOUS
<1>9. SumFunctionOnSet(L, S) = SumFunctionOnSet(F, u)
  BY <1>1, <1>6, <1>8
<1>10. PICK E : E = [d \in S |-> IF d = K[x] THEN F[x] ELSE 0]
  OBVIOUS
<1>11. ASSUME NEW d \in S PROVE L[d] \in Int /\ E[d] \in Int /\ M[d] = L[d] + E[d]
  <2>1. PICK c, e : c = Keyed(T, K, d) /\ e = Keyed(u, K, d)
    OBVIOUS
  <2>2. IsFiniteSet(c) /\ IsFiniteSet(e) /\ c \in SUBSET A /\ e \in SUBSET A
    BY <2>1, <1>1, <1>6, FS_Subset DEF Keyed
  <2>3. SumFunctionOnSet(F, e) \in Int
    BY <2>2, SumIsInt
  <2>4. L[d] = SumFunctionOnSet(F, e) /\ M[d] = SumFunctionOnSet(F, c)
    BY <2>1, <1>2, <1>8
  <2>5. CASE d = K[x]
    <3>1. x \in c /\ e = c \ {x}
      BY <2>1, <2>5, <1>5 DEF Keyed
    <3>a. \A a \in c : F[a] \in Int
      BY <2>2
    <3>2. SumFunctionOnSet(F, c) = F[x] + SumFunctionOnSet(F, e)
      <4> HIDE DEF B
      <4>1. IsFiniteSet(c)
        BY <2>2
      <4>2. x \in c /\ e = c \ {x}
        BY <3>1
      <4> QED BY <4>1, <4>2, <3>a, SumTakes
    <3> QED BY <3>2, <2>3, <2>4, <2>5, <1>1, <1>10
  <2>6. CASE d # K[x]
    <3>1. c = e
      BY <2>1, <2>6, <1>5 DEF Keyed
    <3> QED BY <3>1, <2>3, <2>4, <2>6, <1>10
  <2> QED BY <2>5, <2>6
<1>12. SumFunctionOnSet(M, S) = SumFunctionOnSet(L, S) + SumFunctionOnSet(E, S)
  BY <1>11, SumAdds
<1>13. SumFunctionOnSet(E, S) = F[x]
  <2>1. PICK k, r : k = K[x] /\ r = S \ {k}
    OBVIOUS
  <2>2. k \in S /\ IsFiniteSet(r) /\ r \in SUBSET S
    BY <2>1, <1>1, FS_Subset
  <2>a. \A d \in S : E[d] \in Int
    BY <1>11
  <2>3. SumFunctionOnSet(E, S) = E[k] + SumFunctionOnSet(E, r)
    <3> HIDE DEF B
    <3>1. k \in S /\ r = S \ {k}
      BY <2>1, <2>2
    <3> QED BY <3>1, <2>a, SumTakes
  <2>4. SumFunctionOnSet(E, r) = 0
    <3>1. \A d \in r : E[d] = 0
      BY <2>1, <1>10
    <3> QED BY <3>1, <2>2, SumOfZeros
  <2>5. E[k] = F[x] /\ F[x] \in Int
    BY <2>1, <2>2, <1>1, <1>10
  <2> QED BY <2>3, <2>4, <2>5
<1>14. SumFunctionOnSet(F, u) \in Int /\ F[x] \in Int
  BY <1>1, <1>6, SumIsInt
<1> QED BY <1>2, <1>7, <1>9, <1>12, <1>13, <1>14

(* The sum over one index is its value. *)
LEMMA SumOfOne ==
  ASSUME NEW F, NEW x, F[x] \in Int
  PROVE  SumFunctionOnSet(F, {x}) = F[x]
<1>1. PICK S : S = {x}
  OBVIOUS
<1>2. IsFiniteSet(S) /\ S \ {x} = {} /\ x \in S /\ \A y \in S : F[y] \in Int
  BY <1>1, FS_Singleton
<1>3. SumFunctionOnSet(F, S) = F[x] + SumFunctionOnSet(F, S \ {x})
  BY <1>2, SumTakes
<1>4. SumFunctionOnSet(F, S \ {x}) = 0
  BY <1>2, SumOfNone
<1> QED BY <1>1, <1>3, <1>4

(* Counting is adding up ones. *)
LEMMA CountIsSum ==
  ASSUME NEW S, IsFiniteSet(S), NEW F, \A x \in S : F[x] = 1
  PROVE  SumFunctionOnSet(F, S) = Count(S)
<1> DEFINE B == {T \in SUBSET S : SumFunctionOnSet(F, T) # Count(T)}
<1> SUFFICES ASSUME B # {} PROVE FALSE
  BY DEF B
<1>0. B \subseteq SUBSET S
  OBVIOUS
<1>1. PICK T \in B : IsFiniteSet(T) /\ \A U \in SUBSET T : U # T => U \notin B
  <2> HIDE DEF B
  <2> QED BY <1>0, SmallestPart
<1>2. T # {}
  <2> SUFFICES ASSUME T = {} PROVE FALSE
    OBVIOUS
  <2>1. SumFunctionOnSet(F, T) = 0 /\ Count(T) = 0
    BY SumOfNone, FS_EmptySet DEF Count
  <2> QED BY <2>1, <1>1
<1>3. PICK u : u = T \ {AnyOf(T)}
  OBVIOUS
<1>4. AnyOf(T) \in T /\ SumFunctionOnSet(F, T) = F[AnyOf(T)] + SumFunctionOnSet(F, u)
  BY <1>1, <1>2, <1>3, SumUnfolds
<1>5. u \in SUBSET T /\ u # T
  BY <1>3, <1>4
<1>6. SumFunctionOnSet(F, u) = Count(u)
  BY <1>1, <1>5
<1>7. Cardinality(u) = Cardinality(T) - 1
  <2> HIDE DEF B
  <2>1. IsFiniteSet(T)
    BY <1>1
  <2> QED BY <2>1, <1>3, <1>4, FS_RemoveElement
<1>8. Cardinality(T) \in Nat
  BY <1>1, FS_CardinalityType
<1>9. F[AnyOf(T)] = 1
  BY <1>4
<1>10. SumFunctionOnSet(F, T) = Count(T)
  BY <1>4, <1>6, <1>7, <1>8, <1>9 DEF Count
<1> QED BY <1>1, <1>10

(* What is sorted by a key is counted key by key. *)
LEMMA CountByKey ==
  ASSUME NEW A, IsFiniteSet(A), NEW S, IsFiniteSet(S), NEW K, \A a \in A : K[a] \in S,
         NEW N, \A d \in S : N[d] = Count(Keyed(A, K, d))
  PROVE  SumFunctionOnSet(N, S) = Count(A)
<1>1. PICK F : F = [a \in A |-> 1]
  OBVIOUS
<1>2. \A a \in A : F[a] \in Int /\ F[a] = 1
  BY <1>1
<1>3. ASSUME NEW d \in S PROVE N[d] = SumFunctionOnSet(F, Keyed(A, K, d))
  <2>1. PICK c : c = Keyed(A, K, d)
    OBVIOUS
  <2>2. IsFiniteSet(c) /\ \A a \in c : F[a] = 1
    BY <2>1, <1>2, FS_Subset DEF Keyed
  <2> QED BY <2>1, <2>2, CountIsSum
<1>4. SumFunctionOnSet(N, S) = SumFunctionOnSet(F, A)
  <2>1. \A a \in A : F[a] \in Int
    BY <1>2
  <2>2. \A d \in S : N[d] = SumFunctionOnSet(F, Keyed(A, K, d))
    BY <1>3
  <2> QED BY <2>1, <2>2, SumByKey
<1>5. SumFunctionOnSet(F, A) = Count(A)
  BY <1>2, CountIsSum
<1> QED BY <1>4, <1>5

(* The sum over a set is that over a part of it and over the rest. *)
LEMMA SumSplits ==
  ASSUME NEW S, IsFiniteSet(S), NEW F, \A x \in S : F[x] \in Int, NEW T, T \subseteq S
  PROVE  SumFunctionOnSet(F, S) = SumFunctionOnSet(F, T) + SumFunctionOnSet(F, S \ T)
<1> DEFINE B == {U \in SUBSET S : SumFunctionOnSet(F, U) # SumFunctionOnSet(F, U \cap T) + SumFunctionOnSet(F, U \ T)}
<1>a. SUFFICES ASSUME B # {} PROVE FALSE
  <2>1. S \notin B
    BY <1>a
  <2>2. S \cap T = T
    OBVIOUS
  <2> QED BY <2>1, <2>2
<1>0. B \subseteq SUBSET S
  OBVIOUS
<1>1. PICK V \in B : IsFiniteSet(V) /\ \A U \in SUBSET V : U # V => U \notin B
  <2> HIDE DEF B
  <2> QED BY <1>0, <1>a, SmallestPart
<1>2. /\ V \in SUBSET S /\ IsFiniteSet(V) /\ \A x \in V : F[x] \in Int
      /\ SumFunctionOnSet(F, V) # SumFunctionOnSet(F, V \cap T) + SumFunctionOnSet(F, V \ T)
  BY <1>1
<1>3. V # {}
  <2> SUFFICES ASSUME V = {} PROVE FALSE
    OBVIOUS
  <2>1. V \cap T = {} /\ V \ T = {}
    OBVIOUS
  <2>2. SumFunctionOnSet(F, {}) = 0
    BY SumOfNone
  <2> QED BY <1>2, <2>1, <2>2
<1>4. PICK x \in V : TRUE
  BY <1>3
<1>5. PICK u, a, b, c, d : u = V \ {x} /\ a = V \cap T /\ b = V \ T /\ c = u \cap T /\ d = u \ T
  OBVIOUS
<1>6. u \in SUBSET V /\ u # V /\ IsFiniteSet(u)
  BY <1>2, <1>5, FS_Subset
<1>7. SumFunctionOnSet(F, u) = SumFunctionOnSet(F, c) + SumFunctionOnSet(F, d)
  BY <1>1, <1>2, <1>5, <1>6
<1> HIDE DEF B
<1>8. SumFunctionOnSet(F, V) = F[x] + SumFunctionOnSet(F, u) /\ F[x] \in Int
  BY <1>2, <1>4, <1>5, SumTakes
<1>9. /\ a \in SUBSET V /\ b \in SUBSET V /\ c \in SUBSET V /\ d \in SUBSET V
  BY <1>5
<1>10. IsFiniteSet(a) /\ IsFiniteSet(b) /\ IsFiniteSet(c) /\ IsFiniteSet(d)
  BY <1>2, <1>9, FS_Subset
<1>11. /\ \A y \in a : F[y] \in Int
       /\ \A y \in b : F[y] \in Int
       /\ \A y \in c : F[y] \in Int
       /\ \A y \in d : F[y] \in Int
  BY <1>2, <1>9
<1>12. SumFunctionOnSet(F, c) \in Int /\ SumFunctionOnSet(F, d) \in Int
  BY <1>10, <1>11, SumIsInt
<1>13. CASE x \in T
  <2>1. x \in a /\ c = a \ {x} /\ d = b
    BY <1>4, <1>5, <1>13
  <2>2. SumFunctionOnSet(F, a) = F[x] + SumFunctionOnSet(F, c)
    BY <1>10, <1>11, <2>1, SumTakes
  <2>3. SumFunctionOnSet(F, b) = SumFunctionOnSet(F, d)
    BY <2>1
  <2> QED BY <1>2, <1>5, <1>7, <1>8, <1>12, <2>2, <2>3
<1>14. CASE x \notin T
  <2>1. x \in b /\ d = b \ {x} /\ c = a
    BY <1>4, <1>5, <1>14
  <2>2. SumFunctionOnSet(F, b) = F[x] + SumFunctionOnSet(F, d)
    BY <1>10, <1>11, <2>1, SumTakes
  <2>3. SumFunctionOnSet(F, a) = SumFunctionOnSet(F, c)
    BY <2>1
  <2> QED BY <1>2, <1>5, <1>7, <1>8, <1>12, <2>2, <2>3
<1> QED BY <1>13, <1>14

(* Where the rest is zero, a part adds up to the same. *)
LEMMA SumOverPart ==
  ASSUME NEW S, IsFiniteSet(S), NEW F, \A x \in S : F[x] \in Int, NEW T, T \subseteq S,
         \A x \in S \ T : F[x] = 0
  PROVE  SumFunctionOnSet(F, S) = SumFunctionOnSet(F, T)
<1>1. SumFunctionOnSet(F, S) = SumFunctionOnSet(F, T) + SumFunctionOnSet(F, S \ T)
  BY SumSplits
<1>2. IsFiniteSet(T) /\ IsFiniteSet(S \ T)
  BY FS_Subset
<1>3. SumFunctionOnSet(F, S \ T) = 0
  BY <1>2, SumOfZeros
<1>4. SumFunctionOnSet(F, T) \in Int
  BY <1>2, SumIsInt
<1>5. PICK s, t, z : s = SumFunctionOnSet(F, S) /\ t = SumFunctionOnSet(F, T) /\ z = SumFunctionOnSet(F, S \ T)
  OBVIOUS
<1>6. s = t + z /\ z = 0 /\ t \in Int
  BY <1>1, <1>3, <1>4, <1>5
<1>7. s = t
  BY <1>6
<1> QED BY <1>5, <1>7

(* A list of all the indices, each once, adds up to the same. *)
LEMMA SumOfList ==
  ASSUME NEW I, IsFiniteSet(I), NEW S, IsFiniteSet(S), NEW F, \A x \in S : F[x] \in Int,
         NEW q, \A i \in I : q[i] \in S, \A i, j \in I : q[i] = q[j] => i = j,
         \A x \in S : \E i \in I : q[i] = x,
         NEW G, \A i \in I : G[i] = F[q[i]]
  PROVE  SumFunctionOnSet(G, I) = SumFunctionOnSet(F, S)
<1>1. \A i \in I : G[i] \in Int
  OBVIOUS
<1>2. ASSUME NEW d \in S PROVE F[d] = SumFunctionOnSet(G, Keyed(I, q, d))
  <2>1. PICK k \in I : q[k] = d
    OBVIOUS
  <2>2. Keyed(I, q, d) = {k}
    BY <2>1 DEF Keyed
  <2>3. SumFunctionOnSet(G, {k}) = G[k]
    BY <1>1, SumOfOne
  <2> QED BY <2>1, <2>2, <2>3
<1> QED BY <1>1, <1>2, SumByKey

---------------------------------------------------------------------------
(* The history of the shops *)

(***************************************************************************)
(* revenueIn clips the time a plan ran to a period: the clipped times of two  *)
(* adjoining periods add up.                                                *)
(***************************************************************************)
LEMMA RunningAdds ==
  ASSUME NEW started \in Int, NEW churned \in Int,
         NEW a \in Int, NEW b \in Int, NEW c \in Int, a <= b, b <= c
  PROVE  RunningIn(started, churned, a, c) =
           RunningIn(started, churned, a, b) + RunningIn(started, churned, b, c)
BY DEF RunningIn, Greatest, Least

LEMMA RunningIsNat ==
  ASSUME NEW started \in Int, NEW churned \in Int, NEW a \in Int, NEW b \in Int
  PROVE  RunningIn(started, churned, a, b) \in Nat
BY DEF RunningIn, Greatest, Least

LEMMA PriceIsNat ==
  ASSUME NEW plan \in PlanOrNone
  PROVE  PriceOf(plan) \in Nat
BY DEF PriceOf, Price, PlanOrNone, PlanCodes

LEMMA Distributes ==
  ASSUME NEW k \in Nat, NEW x \in Nat, NEW y \in Nat
  PROVE  k * (x + y) = k * x + k * y
OBVIOUS

LEMMA NeverIsLate == Never \in Nat
BY SMT DEF Never

LEMMA MomentsAreInts ==
  /\ Moments \subseteq Int /\ Instants \subseteq Int
  /\ Moments \subseteq Nat /\ \A t \in Moments : t < Never
<1>1. Never \in Nat
  BY NeverIsLate
<1>2. ASSUME NEW t \in Moments PROVE t \in Nat /\ t < Never
  <2>1. t \in 0 .. Never - 1
    BY FiguresAssumption
  <2> QED BY SMT, <1>1, <2>1
<1> QED BY <1>1, <1>2 DEF Instants

LEMMA ShopFields ==
  ASSUME NEW r \in ShopRow
  PROVE  /\ r.plan \in PlanOrNone /\ r.started \in Int /\ r.churned \in Int
         /\ r.signup \in Moments /\ r.started \in Instants /\ r.churned \in Instants
BY MomentsAreInts DEF ShopRow

---------------------------------------------------------------------------
(* What each action changes *)

LEMMA ARowIsAShop ==
  ASSUME NEW r \in ShopRow
  PROVE  r # NoShop
<1>1. r.signup # Never
  <2>1. r.signup \in Nat /\ r.signup < Never
    BY MomentsAreInts, ShopFields
  <2> QED BY <2>1, NeverIsLate
<1>2. NoShop.signup = Never
  BY DEF NoShop
<1> QED BY <1>1, <1>2

LEMMA ShopStep ==
  ASSUME FiguresTypeOK, NEW m \in Merchants, NEW r \in ShopRow, SetShop(m, r)
  PROVE  FiguresTypeOK'
<1>1. owners' = [owners EXCEPT ![m] = r] /\ clock' = clock /\ placed' = placed /\ called' = called
  BY DEF SetShop
<1>2. owners' \in [Merchants -> ShopRow \cup {NoShop}]
  BY <1>1 DEF FiguresTypeOK
<1>3. ASSUME NEW o \in OrderRows, placed[o] # NoOrder
      PROVE  owners'[placed[o].shop] # NoShop
  <2>1. placed[o].shop \in Merchants /\ owners[placed[o].shop] # NoShop
    BY <1>3 DEF FiguresTypeOK, OrderEntry
  <2> QED BY <1>1, <2>1, ARowIsAShop DEF FiguresTypeOK
<1> QED BY <1>1, <1>2, <1>3 DEF FiguresTypeOK

LEMMA InitialTypes == FiguresInit => FiguresTypeOK
BY DEF FiguresInit, FiguresTypeOK, NoShop, NoOrder, NoEntry

LEMMA OwnRow ==
  ASSUME FiguresTypeOK, NEW m \in Merchants, There(m)
  PROVE  owners[m] \in ShopRow
BY DEF FiguresTypeOK, There

(* A sign-up, a payment, a cancellation, an onboarding and a promotion give the shop a whole row. *)
LEMMA ShopActionsKeepTypes ==
  ASSUME FiguresTypeOK, NEW m \in Merchants, ShopMoves(m)
  PROVE  FiguresTypeOK'
<1>1. clock \in Moments /\ clock \in Instants /\ Never \in Instants
  BY DEF FiguresTypeOK, Instants
<1>2. CASE SignsUp(m)
  <2>1. [NoShop EXCEPT !.signup = clock] \in ShopRow
    BY <1>1 DEF NoShop, ShopRow, PlanOrNone
  <2> QED BY <1>2, <2>1, ShopStep DEF SignsUp
<1>3. CASE Cancels(m)
  <2>1. There(m)
    BY <1>3 DEF Cancels, There, NoShop
  <2>2. [owners[m] EXCEPT !.churned = clock] \in ShopRow
    BY <1>1, <2>1, OwnRow DEF ShopRow
  <2> QED BY <1>3, <2>2, ShopStep DEF Cancels
<1>4. CASE JoinsTheTeam(m)
  <2>1. [owners[m] EXCEPT !.team = TRUE] \in ShopRow
    BY <1>4, OwnRow DEF ShopRow, JoinsTheTeam
  <2> QED BY <1>4, <2>1, ShopStep DEF JoinsTheTeam
<1>5. CASE \E plan \in Sold : Subscribes(m, plan)
  <2>1. PICK plan \in Sold : Subscribes(m, plan)
    BY <1>5
  <2>2. plan \in PlanOrNone
    BY FiguresAssumption DEF PaidPlans, PlanOrNone
  <2>3. [owners[m] EXCEPT !.plan = plan, !.started = clock, !.churned = Never] \in ShopRow
    BY <1>1, <2>1, <2>2, OwnRow DEF ShopRow, Subscribes
  <2> QED BY <2>1, <2>3, ShopStep DEF Subscribes
<1>6. CASE Completes(m)
  <2>1. [owners[m] EXCEPT !.onboarded = TRUE] \in ShopRow
    BY <1>6, OwnRow DEF ShopRow, Completes
  <2> QED BY <1>6, <2>1, ShopStep DEF Completes
<1> QED BY <1>2, <1>3, <1>4, <1>5, <1>6 DEF ShopMoves

LEMMA AnOrderIsThere ==
  ASSUME NEW m, NEW t
  PROVE  [shop |-> m, at |-> t] # NoOrder
<1>1. "at" \in DOMAIN [shop |-> m, at |-> t]
  OBVIOUS
<1>2. "at" \notin DOMAIN NoOrder
  BY DEF NoOrder
<1> QED BY <1>1, <1>2

LEMMA ACallIsThere ==
  ASSUME NEW call \in CallEntry
  PROVE  call # NoEntry
<1>1. "at" \in DOMAIN call
  BY DEF CallEntry
<1>2. "at" \notin DOMAIN NoEntry
  BY DEF NoEntry
<1> QED BY <1>1, <1>2

LEMMA OwnCall ==
  ASSUME FiguresTypeOK, NEW c \in CallRows, called[c] # NoEntry
  PROVE  called[c] \in CallEntry /\ called[c].order \in OrderRows /\ placed[called[c].order] # NoOrder
BY DEF FiguresTypeOK, CallEntry

LEMMA OwnOrder ==
  ASSUME FiguresTypeOK, NEW o \in OrderRows, placed[o] # NoOrder
  PROVE  placed[o] \in OrderEntry /\ placed[o].shop \in Merchants /\ owners[placed[o].shop] # NoShop
BY DEF FiguresTypeOK, OrderEntry

LEMMA OrderPlacedKeepsTypes ==
  ASSUME FiguresTypeOK, NEW m \in Merchants, NEW o \in OrderRows, OrderPlaced(m, o)
  PROVE  FiguresTypeOK'
<1>1. /\ placed' = [placed EXCEPT ![o] = [shop |-> m, at |-> clock]]
      /\ clock' = clock /\ owners' = owners /\ called' = called /\ owners[m] # NoShop
  BY DEF OrderPlaced, There
<1>2. [shop |-> m, at |-> clock] \in OrderEntry /\ [shop |-> m, at |-> clock] # NoOrder
  BY AnOrderIsThere DEF FiguresTypeOK, OrderEntry
<1>3. placed' \in [OrderRows -> OrderEntry \cup {NoOrder}]
  BY <1>1, <1>2 DEF FiguresTypeOK
<1>4. ASSUME NEW x \in OrderRows, placed'[x] # NoOrder PROVE owners[placed'[x].shop] # NoShop
  <2>1. CASE x = o
    BY <1>1, <2>1 DEF FiguresTypeOK
  <2>2. CASE x # o
    <3>1. placed'[x] = placed[x]
      BY <1>1, <2>2 DEF FiguresTypeOK
    <3> QED BY <1>4, <3>1, OwnOrder
  <2> QED BY <2>1, <2>2
<1>5. ASSUME NEW c \in CallRows, called[c] # NoEntry PROVE placed'[called[c].order] # NoOrder
  <2>1. called[c].order \in OrderRows /\ placed[called[c].order] # NoOrder
    BY <1>5, OwnCall
  <2> QED BY <1>1, <1>2, <2>1 DEF FiguresTypeOK
<1> QED BY <1>1, <1>3, <1>4, <1>5 DEF FiguresTypeOK

LEMMA CallInsertedKeepsTypes ==
  ASSUME FiguresTypeOK, NEW o \in OrderRows, NEW c \in CallRows, CallInserted(o, c)
  PROVE  FiguresTypeOK'
<1> DEFINE call == [order |-> o, at |-> clock, status |-> "pending"]
<1>1. /\ called' = [called EXCEPT ![c] = call]
      /\ clock' = clock /\ owners' = owners /\ placed' = placed /\ placed[o] # NoOrder
  BY DEF CallInserted
<1>2. call \in CallEntry /\ call.order = o
  BY DEF FiguresTypeOK, CallEntry, CallStatus
<1> HIDE DEF call
<1>3. called' \in [CallRows -> CallEntry \cup {NoEntry}]
  BY <1>1, <1>2 DEF FiguresTypeOK
<1>4. ASSUME NEW x \in CallRows, called'[x] # NoEntry PROVE placed[called'[x].order] # NoOrder
  <2>1. CASE x = c
    BY <1>1, <1>2, <2>1 DEF FiguresTypeOK
  <2>2. CASE x # c
    <3>1. called'[x] = called[x]
      BY <1>1, <2>2 DEF FiguresTypeOK
    <3> QED BY <1>4, <3>1, OwnCall
  <2> QED BY <2>1, <2>2
<1> QED BY <1>1, <1>3, <1>4 DEF FiguresTypeOK

LEMMA StatusWrittenChanges ==
  ASSUME FiguresTypeOK, NEW c \in CallRows, NEW status \in CallStatus, StatusWritten(c, status)
  PROVE  /\ clock' = clock /\ owners' = owners /\ placed' = placed
         /\ \A x \in CallRows : called'[x] = NoEntry <=> called[x] = NoEntry
         /\ \A x \in CallRows : called[x] # NoEntry =>
              /\ called'[x] \in CallEntry
              /\ called'[x].order = called[x].order /\ called'[x].at = called[x].at
         /\ called' \in [CallRows -> CallEntry \cup {NoEntry}]
<1>1. /\ called' = [called EXCEPT ![c].status = status] /\ called[c] # NoEntry
      /\ clock' = clock /\ owners' = owners /\ placed' = placed
  BY DEF StatusWritten
<1>2. called[c] \in CallEntry
  BY <1>1, OwnCall
<1>3. PICK call : call = [called[c] EXCEPT !.status = status]
  OBVIOUS
<1>4. call \in CallEntry /\ call.order = called[c].order /\ call.at = called[c].at
  BY <1>2, <1>3 DEF CallEntry
<1>5. called' = [called EXCEPT ![c] = call]
  BY <1>1, <1>3 DEF FiguresTypeOK
<1>6. called'[c] = call /\ \A x \in CallRows : x # c => called'[x] = called[x]
  BY <1>5 DEF FiguresTypeOK
<1>7. call # NoEntry
  BY <1>4, ACallIsThere
<1>8. called' \in [CallRows -> CallEntry \cup {NoEntry}]
  BY <1>4, <1>5 DEF FiguresTypeOK
<1> QED BY <1>1, <1>4, <1>6, <1>7, <1>8, OwnCall

LEMMA OrderDeletedChanges ==
  ASSUME FiguresTypeOK, NEW o \in OrderRows, OrderDeleted(o)
  PROVE  /\ clock' = clock /\ owners' = owners
         /\ placed'[o] = NoOrder /\ \A x \in OrderRows : x # o => placed'[x] = placed[x]
         /\ \A c \in CallRows : called'[c] =
              IF called[c] # NoEntry /\ called[c].order = o THEN NoEntry ELSE called[c]
         /\ placed' \in [OrderRows -> OrderEntry \cup {NoOrder}]
         /\ called' \in [CallRows -> CallEntry \cup {NoEntry}]
BY DEF OrderDeleted, FiguresTypeOK

LEMMA OrderDeletedKeepsTypes ==
  ASSUME FiguresTypeOK, NEW o \in OrderRows, OrderDeleted(o)
  PROVE  FiguresTypeOK'
<1>1. /\ clock' = clock /\ owners' = owners
      /\ placed'[o] = NoOrder /\ \A x \in OrderRows : x # o => placed'[x] = placed[x]
      /\ \A c \in CallRows : called'[c] =
           IF called[c] # NoEntry /\ called[c].order = o THEN NoEntry ELSE called[c]
      /\ placed' \in [OrderRows -> OrderEntry \cup {NoOrder}]
      /\ called' \in [CallRows -> CallEntry \cup {NoEntry}]
  BY OrderDeletedChanges
<1>2. ASSUME NEW x \in OrderRows, placed'[x] # NoOrder PROVE owners[placed'[x].shop] # NoShop
  BY <1>1, <1>2, OwnOrder
<1>3. ASSUME NEW c \in CallRows, called'[c] # NoEntry PROVE placed'[called'[c].order] # NoOrder
  <2>1. called'[c] = called[c] /\ called[c].order # o /\ called[c] # NoEntry
    BY <1>1, <1>3
  <2> QED BY <1>1, <2>1, OwnCall
<1> QED BY <1>1, <1>2, <1>3 DEF FiguresTypeOK

LEMMA NextKeepsTypes == FiguresTypeOK /\ [FiguresNext]_figureVars => FiguresTypeOK'
<1> SUFFICES ASSUME FiguresTypeOK, [FiguresNext]_figureVars PROVE FiguresTypeOK'
  OBVIOUS
<1>1. CASE \E m \in Merchants : ShopMoves(m)
  BY <1>1, ShopActionsKeepTypes
<1>2. CASE \E o \in OrderRows, m \in Merchants : OrderPlaced(m, o)
  BY <1>2, OrderPlacedKeepsTypes
<1>3. CASE \E o \in OrderRows, c \in CallRows : CallInserted(o, c)
  BY <1>3, CallInsertedKeepsTypes
<1>4. CASE \E c \in CallRows, status \in CallStatus : StatusWritten(c, status)
  <2>1. PICK c \in CallRows, status \in CallStatus : StatusWritten(c, status)
    BY <1>4
  <2>2. /\ clock' = clock /\ owners' = owners /\ placed' = placed
        /\ \A x \in CallRows : called'[x] = NoEntry <=> called[x] = NoEntry
        /\ \A x \in CallRows : called[x] # NoEntry => called'[x].order = called[x].order
        /\ called' \in [CallRows -> CallEntry \cup {NoEntry}]
    BY <2>1, StatusWrittenChanges
  <2>3. ASSUME NEW x \in CallRows, called'[x] # NoEntry PROVE placed[called'[x].order] # NoOrder
    BY <2>2, <2>3, OwnCall
  <2> QED BY <2>2, <2>3 DEF FiguresTypeOK
<1>5. CASE \E o \in OrderRows : OrderDeleted(o)
  BY <1>5, OrderDeletedKeepsTypes
<1>6. CASE TimePasses
  BY <1>6 DEF TimePasses, FiguresTypeOK
<1>7. CASE UNCHANGED figureVars
  BY <1>7 DEF figureVars, FiguresTypeOK
<1> QED BY <1>1, <1>2, <1>3, <1>4, <1>5, <1>6, <1>7 DEF FiguresNext, Writes

(***************************************************************************)
(* The tables hold what their columns allow, and their foreign keys hold:     *)
(* every call has its order and every order its shop, whatever is deleted    *)
(* when (the calls of an order go with it).                                  *)
(***************************************************************************)
THEOREM FiguresTypes == FiguresSpec => []FiguresTypeOK
BY InitialTypes, NextKeepsTypes, PTL DEF FiguresSpec

---------------------------------------------------------------------------
LEMMA TypesMakeRevenueSplit == FiguresTypeOK => RevenueSplits
<1> SUFFICES ASSUME FiguresTypeOK, NEW m \in Customers,
                    NEW a \in Moments, NEW b \in Moments, NEW c \in Moments,
                    a <= b, b <= c
             PROVE  RevenueIn(m, a, c) = RevenueIn(m, a, b) + RevenueIn(m, b, c)
  BY DEF RevenueSplits
<1> DEFINE price == PriceOf(owners[m].plan)
           time(x, y) == RunningIn(owners[m].started, owners[m].churned, x, y)
<1>1. owners[m] \in ShopRow
  BY OwnRow DEF Customers
<1>2. a \in Int /\ b \in Int /\ c \in Int
  BY MomentsAreInts
<1>3. price \in Nat
  BY <1>1, ShopFields, PriceIsNat
<1>4. time(a, b) \in Nat /\ time(b, c) \in Nat
  BY <1>1, <1>2, ShopFields, RunningIsNat
<1>5. time(a, c) = time(a, b) + time(b, c)
  <2>1. owners[m].started \in Int /\ owners[m].churned \in Int
    BY <1>1, ShopFields
  <2> QED BY <1>2, <2>1, RunningAdds
<1> HIDE DEF price, time
<1>6. price * time(a, c) = price * time(a, b) + price * time(b, c)
  BY <1>3, <1>4, <1>5, Distributes
<1> QED BY <1>6 DEF price, time, RevenueIn

(***************************************************************************)
(* revenueIn splits at every moment inside a period, for all histories of     *)
(* the shops: no report earns twice or loses what two shorter ones show.     *)
(***************************************************************************)
THEOREM RevenueSplitsAlways == FiguresSpec => []RevenueSplits
BY FiguresTypes, TypesMakeRevenueSplit, PTL

---------------------------------------------------------------------------
(* Retention figures: what a step can do to the shops, orders and calls they count *)

LEMMA ShopMoveAdds ==
  ASSUME FiguresTypeOK, NEW m \in Merchants, ShopMoves(m)
  PROVE  /\ clock' = clock /\ placed' = placed /\ called' = called
         /\ \A k \in Merchants : There(k) =>
              owners'[k].signup = owners[k].signup /\ (owners[k].team => owners'[k].team)
         /\ \A k \in Merchants : ~There(k) /\ There(k)' => owners'[k].signup = clock
<1>1. /\ clock' = clock /\ placed' = placed /\ called' = called
      /\ \A k \in Merchants : k # m => owners'[k] = owners[k]
  BY DEF FiguresTypeOK, ShopMoves, SignsUp, Cancels, JoinsTheTeam, Subscribes, Completes, SetShop
<1>2. CASE SignsUp(m)
  <2>1. owners'[m].signup = clock /\ ~There(m)
    BY <1>2 DEF SignsUp, SetShop, FiguresTypeOK, NoShop
  <2> QED BY <1>1, <2>1 DEF There
<1>3. CASE Cancels(m)
  <2>1. There(m)
    BY <1>3 DEF Cancels, There, NoShop
  <2>2. owners'[m].signup = owners[m].signup /\ owners'[m].team = owners[m].team
    BY <1>3, <2>1, OwnRow DEF Cancels, SetShop, FiguresTypeOK, ShopRow
  <2> QED BY <1>1, <2>1, <2>2 DEF There
<1>4. CASE JoinsTheTeam(m)
  <2>1. There(m) /\ owners'[m].signup = owners[m].signup /\ (owners[m].team => owners'[m].team)
    BY <1>4, OwnRow DEF JoinsTheTeam, SetShop, FiguresTypeOK, ShopRow
  <2> QED BY <1>1, <2>1 DEF There
<1>5. CASE \E plan \in Sold : Subscribes(m, plan)
  <2>1. There(m) /\ owners'[m].signup = owners[m].signup /\ (owners[m].team => owners'[m].team)
    BY <1>5, OwnRow DEF Subscribes, SetShop, FiguresTypeOK, ShopRow
  <2> QED BY <1>1, <2>1 DEF There
<1>6. CASE Completes(m)
  <2>1. There(m) /\ owners'[m].signup = owners[m].signup /\ (owners[m].team => owners'[m].team)
    BY <1>6, OwnRow DEF Completes, SetShop, FiguresTypeOK, ShopRow
  <2> QED BY <1>1, <2>1 DEF There
<1> QED BY <1>2, <1>3, <1>4, <1>5, <1>6 DEF ShopMoves

(* Orders and calls do not move: a step adds one that happens now, or takes one away. *)
OrdersStay ==
  \A x \in OrderRows :
    /\ placed[x] # NoOrder /\ placed'[x] # NoOrder => placed'[x] = placed[x]
    /\ placed[x] = NoOrder /\ placed'[x] # NoOrder => placed'[x].at = clock

CallsStay ==
  \A c \in CallRows :
    /\ called[c] # NoEntry =>
         \/ called'[c] = NoEntry /\ placed'[called[c].order] = NoOrder
         \/ called'[c] # NoEntry /\ called'[c].order = called[c].order /\ called'[c].at = called[c].at
    /\ called[c] = NoEntry /\ called'[c] # NoEntry => called'[c].at = clock

LEMMA OrderPlacedAdds ==
  ASSUME FiguresTypeOK, NEW m \in Merchants, NEW o \in OrderRows, OrderPlaced(m, o)
  PROVE  clock' = clock /\ owners' = owners /\ OrdersStay /\ CallsStay
<1>1. /\ placed' = [placed EXCEPT ![o] = [shop |-> m, at |-> clock]] /\ placed[o] = NoOrder
      /\ clock' = clock /\ owners' = owners /\ called' = called
  BY DEF OrderPlaced
<1>2. placed'[o].at = clock /\ \A x \in OrderRows : x # o => placed'[x] = placed[x]
  BY <1>1 DEF FiguresTypeOK
<1>3. OrdersStay
  BY <1>1, <1>2 DEF OrdersStay
<1> QED BY <1>1, <1>3 DEF CallsStay

LEMMA CallInsertedAdds ==
  ASSUME FiguresTypeOK, NEW o \in OrderRows, NEW c \in CallRows, CallInserted(o, c)
  PROVE  clock' = clock /\ owners' = owners /\ OrdersStay /\ CallsStay
<1>1. /\ called' = [called EXCEPT ![c] = [order |-> o, at |-> clock, status |-> "pending"]]
      /\ called[c] = NoEntry /\ clock' = clock /\ owners' = owners /\ placed' = placed
  BY DEF CallInserted
<1>2. called'[c].at = clock /\ \A x \in CallRows : x # c => called'[x] = called[x]
  BY <1>1 DEF FiguresTypeOK
<1>3. CallsStay
  BY <1>1, <1>2 DEF CallsStay
<1> QED BY <1>1, <1>3 DEF OrdersStay

LEMMA StatusWrittenStays ==
  ASSUME FiguresTypeOK, NEW c \in CallRows, NEW status \in CallStatus, StatusWritten(c, status)
  PROVE  clock' = clock /\ owners' = owners /\ OrdersStay /\ CallsStay
<1>1. /\ clock' = clock /\ owners' = owners /\ placed' = placed
      /\ \A x \in CallRows : called'[x] = NoEntry <=> called[x] = NoEntry
      /\ \A x \in CallRows : called[x] # NoEntry =>
           called'[x].order = called[x].order /\ called'[x].at = called[x].at
  BY StatusWrittenChanges
<1> QED BY <1>1 DEF OrdersStay, CallsStay

LEMMA OrderDeletedTakesAway ==
  ASSUME FiguresTypeOK, NEW o \in OrderRows, OrderDeleted(o)
  PROVE  clock' = clock /\ owners' = owners /\ OrdersStay /\ CallsStay
<1>1. /\ clock' = clock /\ owners' = owners
      /\ placed'[o] = NoOrder /\ \A x \in OrderRows : x # o => placed'[x] = placed[x]
      /\ \A c \in CallRows : called'[c] =
           IF called[c] # NoEntry /\ called[c].order = o THEN NoEntry ELSE called[c]
  BY OrderDeletedChanges
<1> QED BY <1>1 DEF OrdersStay, CallsStay

LEMMA FiguresStep ==
  ASSUME FiguresTypeOK, [FiguresNext]_figureVars
  PROVE  /\ clock <= clock' /\ clock' \in Nat /\ clock \in Nat
         /\ \A k \in Merchants : There(k) =>
              owners'[k].signup = owners[k].signup /\ (owners[k].team => owners'[k].team)
         /\ \A k \in Merchants : ~There(k) /\ There(k)' => owners'[k].signup = clock
         /\ OrdersStay /\ CallsStay
<1>1. clock \in Nat
  BY MomentsAreInts DEF FiguresTypeOK
<1>2. CASE \E m \in Merchants : ShopMoves(m)
  BY <1>1, <1>2, ShopMoveAdds DEF OrdersStay, CallsStay
<1>3. ASSUME clock' = clock, owners' = owners, OrdersStay, CallsStay
      PROVE  /\ clock <= clock' /\ clock' \in Nat
             /\ \A k \in Merchants : There(k) =>
                  owners'[k].signup = owners[k].signup /\ (owners[k].team => owners'[k].team)
             /\ \A k \in Merchants : ~There(k) /\ There(k)' => owners'[k].signup = clock
  BY <1>1, <1>3 DEF There
<1>4. CASE \E o \in OrderRows, m \in Merchants : OrderPlaced(m, o)
  BY <1>1, <1>3, <1>4, OrderPlacedAdds
<1>5. CASE \E o \in OrderRows, c \in CallRows : CallInserted(o, c)
  BY <1>1, <1>3, <1>5, CallInsertedAdds
<1>6. CASE \E c \in CallRows, status \in CallStatus : StatusWritten(c, status)
  BY <1>1, <1>3, <1>6, StatusWrittenStays
<1>7. CASE \E o \in OrderRows : OrderDeleted(o)
  BY <1>1, <1>3, <1>7, OrderDeletedTakesAway
<1>8. CASE TimePasses
  BY <1>1, <1>8, MomentsAreInts DEF TimePasses, There, OrdersStay, CallsStay
<1>9. CASE UNCHANGED figureVars
  BY <1>1, <1>9 DEF figureVars, There, OrdersStay, CallsStay
<1> QED BY <1>2, <1>4, <1>5, <1>6, <1>7, <1>8, <1>9 DEF FiguresNext, Writes

(* A cohort whose figure is shown is complete, and no member is in its week k any more. *)
LEMMA ShownIsOver ==
  ASSUME NEW signup \in Nat, NEW t \in Nat, NEW k \in {1, 2}, Cohort(signup) * Week + Week + (k + 1) * Week <= t + 1
  PROVE  Cohort(t) # Cohort(signup) /\ signup + (k + 1) * Week <= t
<1>1. /\ signup < (signup \div 14) * 14 + 14
      /\ t < (t \div 14) * 14 + 14
      /\ signup \div 14 \in Nat /\ t \div 14 \in Nat
  OBVIOUS
<1> QED BY <1>1 DEF Cohort, Week, Day

(* As long as no order is deleted a shop's activity only grows, by what happens now. *)
LEMMA ActivityGrows ==
  ASSUME FiguresTypeOK, FiguresTypeOK', OrdersStay, CallsStay, NEW m,
         \A o \in OrderRows : placed[o] # NoOrder => placed'[o] # NoOrder
  PROVE  Activity(m) \subseteq Activity(m)' /\ Activity(m)' \subseteq Activity(m) \cup {clock}
<1>1. ASSUME NEW o \in OrderRows, placed[o] # NoOrder PROVE placed'[o] = placed[o]
  BY <1>1 DEF OrdersStay
<1>2. ASSUME NEW o \in OrdersOf(m) PROVE o \in OrdersOf(m)' /\ placed'[o].at = placed[o].at
  BY <1>1 DEF OrdersOf
<1>3. ASSUME NEW o \in OrdersOf(m)' PROVE placed'[o].at = clock \/ (o \in OrdersOf(m) /\ placed[o].at = placed'[o].at)
  BY <1>1 DEF OrdersOf, OrdersStay
<1>4. ASSUME NEW c \in CallRows, called[c] # NoEntry
      PROVE  /\ called'[c] # NoEntry /\ called'[c].order = called[c].order /\ called'[c].at = called[c].at
             /\ ShopOf(c)' = ShopOf(c)
  <2>1. called[c].order \in OrderRows /\ placed[called[c].order] # NoOrder
    BY <1>4, OwnCall
  <2>2. placed'[called[c].order] = placed[called[c].order] /\ placed'[called[c].order] # NoOrder
    BY <1>1, <2>1
  <2>3. called'[c] # NoEntry /\ called'[c].order = called[c].order /\ called'[c].at = called[c].at
    BY <1>4, <2>2 DEF CallsStay
  <2> QED BY <2>2, <2>3 DEF ShopOf
<1>5. ASSUME NEW c \in CallsOf(m) PROVE c \in CallsOf(m)' /\ called'[c].at = called[c].at
  BY <1>4 DEF CallsOf, Called
<1>6. ASSUME NEW c \in CallsOf(m)' PROVE called'[c].at = clock \/ (c \in CallsOf(m) /\ called[c].at = called'[c].at)
  <2>1. c \in CallRows /\ called'[c] # NoEntry /\ ShopOf(c)' = m
    BY DEF CallsOf, Called
  <2>2. CASE called[c] = NoEntry
    BY <2>1, <2>2 DEF CallsStay
  <2>3. CASE called[c] # NoEntry
    BY <1>4, <2>1, <2>3 DEF CallsOf, Called
  <2> QED BY <2>2, <2>3
<1> QED BY <1>2, <1>3, <1>5, <1>6 DEF Activity

LEMMA FiguresStayFinal ==
  ASSUME FiguresTypeOK, [FiguresNext]_figureVars,
         NEW w \in Cohorts, NEW k \in {1, 2}, Ready(w, k),
         \A o \in OrderRows : placed[o] # NoOrder => placed'[o] # NoOrder,
         Customers \subseteq Customers'
  PROVE  Share(w, k)' = Share(w, k)
<1>1. /\ clock <= clock' /\ clock' \in Nat /\ clock \in Nat
      /\ \A m \in Merchants : There(m) =>
           owners'[m].signup = owners[m].signup /\ (owners[m].team => owners'[m].team)
      /\ \A m \in Merchants : ~There(m) /\ There(m)' => owners'[m].signup = clock
      /\ OrdersStay /\ CallsStay /\ FiguresTypeOK'
  BY FiguresStep, NextKeepsTypes
<1>2. \A m \in Customers : m \in Merchants /\ There(m) /\ owners[m].signup \in Nat
  BY OwnRow, MomentsAreInts DEF Customers, ShopRow
<1>3. PICK one \in Customers : w = Cohort(owners[one].signup)
  BY DEF Cohorts
<1>4. w \in Nat /\ w * Week + Week + (k + 1) * Week <= clock + 1
  <2>1. owners[one].signup \in Nat
    BY <1>2, <1>3
  <2>2. w \in Nat
    BY <1>3, <2>1 DEF Cohort, Week, Day
  <2> QED BY <2>2 DEF Ready, CohortStart, Now
<1>5. Cohort(clock) # w
  BY <1>1, <1>2, <1>3, <1>4, ShownIsOver
<1>6. ASSUME NEW m \in Customers, Cohort(owners[m].signup) = w
      PROVE  owners[m].signup + (k + 1) * Week <= clock
  BY <1>1, <1>2, <1>4, <1>6, ShownIsOver
<1>7. Ready(w, k)'
  <2>1. w * Week + Week + (k + 1) * Week \in Nat
    BY <1>4 DEF Week, Day
  <2>2. w * Week + Week + (k + 1) * Week <= clock' + 1
    BY <1>1, <1>4, <2>1
  <2> QED BY <2>2 DEF Ready, CohortStart, Now
<1>8. ASSUME NEW m \in Merchants
      PROVE  m \in Members(w)' <=> m \in Members(w)
  <2>1. CASE m \in Customers
    <3>1. m \in Customers' /\ owners'[m].signup = owners[m].signup
      BY <1>1, <1>2, <2>1
    <3> QED BY <2>1, <3>1 DEF Members
  <2>2. CASE m \in Customers' /\ m \notin Customers
    <3>1. There(m)' /\ ~owners'[m].team /\ (There(m) => owners[m].team)
      BY <2>2 DEF Customers
    <3>2. owners'[m].signup = clock
      BY <1>1, <3>1
    <3> QED BY <1>5, <2>2, <3>2 DEF Members
  <2>3. CASE m \notin Customers' /\ m \notin Customers
    BY <2>3 DEF Members
  <2> QED BY <2>1, <2>2, <2>3
<1>9. Members(w)' = Members(w)
  <2>1. Members(w) \subseteq Merchants /\ Members(w)' \subseteq Merchants
    BY DEF Members, Customers
  <2> QED BY <1>8, <2>1
<1>10. ASSUME NEW m \in Members(w)
       PROVE  ActiveInWeek(m, k)' <=> ActiveInWeek(m, k)
  <2> DEFINE from == owners[m].signup + k * Week
             to == owners[m].signup + (k + 1) * Week
  <2>1. /\ m \in Customers /\ owners'[m].signup = owners[m].signup
        /\ owners[m].signup + (k + 1) * Week <= clock
    BY <1>1, <1>2, <1>6 DEF Members
  <2>2. ~In(clock, from, to)
    <3>1. (k + 1) * Week \in Nat /\ owners[m].signup \in Nat
      BY <1>2, <2>1 DEF Week, Day
    <3> QED BY <1>1, <2>1, <3>1 DEF In
  <2>3. ActiveInWeek(m, k) <=> \E x \in Activity(m) : In(x, from, to)
    BY DEF ActiveInWeek
  <2>4. ActiveInWeek(m, k)' <=> \E x \in Activity(m)' : In(x, from, to)
    BY <2>1 DEF ActiveInWeek
  <2>5. Activity(m) \subseteq Activity(m)' /\ Activity(m)' \subseteq Activity(m) \cup {clock}
    BY <1>1, ActivityGrows
  <2> HIDE DEF from, to
  <2> QED BY <2>2, <2>3, <2>4, <2>5
<1>11. Retained(w, k)' = Retained(w, k)
  BY <1>9, <1>10 DEF Retained
<1> QED BY <1>7, <1>9, <1>11 DEF Share, Count

(***************************************************************************)
(* A retention figure of the back office is final once it is shown, for any *)
(* number of shops and orders and any history of them: its cohort is         *)
(* complete and the week it counts is over for every member.                 *)
(***************************************************************************)
THEOREM ShownFiguresAreFinal == FiguresSpec => CohortFiguresFinal
<1>1. FiguresTypeOK /\ [FiguresNext]_figureVars =>
        [\A w \in Cohorts, k \in {1, 2} :
           /\ Ready(w, k)
           /\ \A o \in OrderRows : placed[o] # NoOrder => placed'[o] # NoOrder
           /\ Customers \subseteq Customers'
           => Share(w, k)' = Share(w, k)]_figureVars
  BY FiguresStayFinal
<1> QED BY <1>1, FiguresTypes, PTL DEF FiguresSpec, CohortFiguresFinal

---------------------------------------------------------------------------
(* The reports of the back office count the same rows *)

LEMMA CountSplits ==
  ASSUME NEW S, IsFiniteSet(S), NEW A, NEW B, S = A \cup B, A \cap B = {}
  PROVE  Count(S) = Count(A) + Count(B) /\ Count(S) \in Nat /\ Count(A) \in Nat /\ Count(B) \in Nat
<1>1. A \in SUBSET S /\ B \in SUBSET S
  OBVIOUS
<1>2. IsFiniteSet(A) /\ IsFiniteSet(B)
  BY <1>1, FS_Subset
<1>3. Cardinality(A) \in Nat /\ Cardinality(B) \in Nat /\ Cardinality(S) \in Nat
  BY <1>2, FS_CardinalityType
<1>4. Cardinality(A \cup B) = Cardinality(A) + Cardinality(B) - Cardinality(A \cap B)
  BY <1>2, FS_Union
<1>5. Cardinality(A \cap B) = 0
  BY FS_EmptySet
<1> QED BY <1>3, <1>4, <1>5 DEF Count

LEMMA CountOfPart ==
  ASSUME NEW S, IsFiniteSet(S), NEW T, T \subseteq S
  PROVE  Count(T) <= Count(S) /\ Count(S) \in Nat /\ Count(T) \in Nat /\ IsFiniteSet(T)
<1>1. T \in SUBSET S
  OBVIOUS
<1>2. IsFiniteSet(T) /\ Cardinality(T) <= Cardinality(S)
  BY <1>1, FS_Subset
<1> QED BY <1>2, FS_CardinalityType DEF Count

LEMMA CustomersAreMany ==
  FiguresTypeOK => /\ IsFiniteSet(Customers)
                   /\ \A m \in Customers : owners[m] \in ShopRow /\ owners[m].signup \in Int
<1> SUFFICES ASSUME FiguresTypeOK
             PROVE  /\ IsFiniteSet(Customers)
                    /\ \A m \in Customers : owners[m] \in ShopRow /\ owners[m].signup \in Int
  OBVIOUS
<1>1. Customers \in SUBSET Merchants /\ IsFiniteSet(Merchants)
  BY FiguresAssumption DEF Customers
<1>2. ASSUME NEW m \in Customers
      PROVE  owners[m] \in ShopRow /\ owners[m].signup \in Int
  <2>1. owners[m] \in ShopRow
    BY OwnRow DEF Customers
  <2> QED BY <2>1, ShopFields, MomentsAreInts
<1> QED BY <1>1, <1>2, FS_Subset

(* The periods that can be asked for end after they began. *)
LEMMA PeriodsEndLater ==
  ASSUME FiguresTypeOK, NEW p \in Query
  PROVE  p.from \in Int /\ p.to \in Int /\ p.from <= p.to
<1>1. clock \in Nat /\ \A x \in Moments : DayOf(x) \in Int
  BY MomentsAreInts DEF FiguresTypeOK, DayOf, Day
<1>2. ASSUME NEW n \in {7, 30}
      PROVE  Preset(n).from \in Int /\ Preset(n).to \in Int /\ Preset(n).from <= Preset(n).to
  BY <1>1 DEF Preset, Day, DayOf, Now
<1>3. ASSUME NEW a \in Int, NEW b \in Int, ValidCustom(a, b)
      PROVE  Custom(a, b).from \in Int /\ Custom(a, b).to \in Int /\ Custom(a, b).from <= Custom(a, b).to
  BY <1>1, <1>3 DEF ValidCustom, Custom, Day, Now, Least
<1>4. CASE p \in {Preset(7), Preset(30)}
  BY <1>2, <1>4
<1>5. CASE p \notin {Preset(7), Preset(30)}
  <2>1. PICK a \in Int, b \in Int : p = Custom(a, b) /\ ValidCustom(a, b)
    BY <1>1, <1>5 DEF Query
  <2> QED BY <1>3, <2>1
<1> QED BY <1>4, <1>5

(* Who had signed up by the end had done so by the start, or signed up in between. *)
LEMMA SignupsAddUp ==
  ASSUME FiguresTypeOK, NEW a \in Int, NEW b \in Int, a <= b
  PROVE  Count(SignedUpBefore(b)) = Count(SignedUpBefore(a)) + Count({m \in Customers : In(owners[m].signup, a, b)})
<1>1. SignedUpBefore(b) = SignedUpBefore(a) \cup {m \in Customers : In(owners[m].signup, a, b)}
  BY CustomersAreMany DEF SignedUpBefore, In
<1>2. SignedUpBefore(a) \cap {m \in Customers : In(owners[m].signup, a, b)} = {}
  BY CustomersAreMany DEF SignedUpBefore, In
<1>3. IsFiniteSet(SignedUpBefore(b))
  BY CustomersAreMany, CountOfPart DEF SignedUpBefore
<1> QED BY <1>1, <1>2, <1>3, CountSplits

(* The plan mix counts every merchant once. *)
LEMMA MixAddsUp ==
  ASSUME FiguresTypeOK, NEW t
  PROVE  /\ PlanMix(t)["starter"] + PlanMix(t)["growth"] + PlanMix(t)["pro"] = Count(PaidAt(t))
         /\ Count(PaidAt(t)) + PlanMix(t)["free"] = Count(SignedUpBefore(t))
<1> DEFINE On(c) == {m \in SignedUpBefore(t) : PlanAt(m, t) = c}
<1>1. ASSUME NEW m \in SignedUpBefore(t)
      PROVE  PlanAt(m, t) \in {"free", "starter", "growth", "pro"}
  <2>1. owners[m].plan \in PlanOrNone
    BY CustomersAreMany, ShopFields DEF SignedUpBefore
  <2> QED BY <2>1 DEF PlanAt, PlanOrNone, PlanCodes
<1>2. IsFiniteSet(SignedUpBefore(t)) /\ IsFiniteSet(PaidAt(t))
  BY CustomersAreMany, CountOfPart DEF SignedUpBefore, PaidAt
<1>3. Count(SignedUpBefore(t)) = Count(PaidAt(t)) + Count(On("free")) /\ Count(PaidAt(t)) \in Nat
      /\ Count(On("free")) \in Nat
  <2>1. SignedUpBefore(t) = PaidAt(t) \cup On("free") /\ PaidAt(t) \cap On("free") = {}
    BY DEF PaidAt
  <2> HIDE DEF On
  <2> QED BY <1>2, <2>1, CountSplits
<1>4. Count(PaidAt(t)) = Count(On("starter")) + Count(On("growth") \cup On("pro")) /\ Count(On("starter")) \in Nat
  <2>1. PaidAt(t) = On("starter") \cup (On("growth") \cup On("pro"))
        /\ On("starter") \cap (On("growth") \cup On("pro")) = {}
    BY <1>1 DEF PaidAt
  <2> HIDE DEF On
  <2> QED BY <1>2, <2>1, CountSplits
<1>5. /\ Count(On("growth") \cup On("pro")) = Count(On("growth")) + Count(On("pro"))
      /\ Count(On("growth")) \in Nat /\ Count(On("pro")) \in Nat
  <2>1. On("growth") \cap On("pro") = {} /\ On("growth") \cup On("pro") \subseteq SignedUpBefore(t)
    OBVIOUS
  <2> HIDE DEF On
  <2>2. PICK both : both = On("growth") \cup On("pro")
    OBVIOUS
  <2>3. IsFiniteSet(both)
    BY <1>2, <2>1, <2>2, CountOfPart
  <2>4. /\ Count(both) = Count(On("growth")) + Count(On("pro"))
        /\ Count(On("growth")) \in Nat /\ Count(On("pro")) \in Nat
    BY <2>1, <2>2, <2>3, CountSplits
  <2> QED BY <2>2, <2>4
<1>6. \A c \in PlanCodes : PlanMix(t)[c] = Count(On(c))
  BY DEF PlanMix
<1> HIDE DEF On
<1> QED BY <1>3, <1>4, <1>5, <1>6 DEF PlanCodes

(* Calls follow orders, and two calls are more than one. *)
LEMMA FunnelNarrows ==
  ASSUME FiguresTypeOK, NEW p
  PROVE  /\ Funnel(p)[1] = Count({m \in Customers : In(owners[m].signup, p.from, p.to)})
         /\ Funnel(p)[3] >= Funnel(p)[4] /\ Funnel(p)[4] >= Funnel(p)[5]
<1> DEFINE joined == {m \in Customers : In(owners[m].signup, p.from, p.to)}
           ended(m) == {c \in CallsOf(m) : Over(c)}
           ordered == {m \in joined : OrdersOf(m) # {}}
           phoned == {m \in joined : ended(m) # {}}
           often == {m \in joined : Count(ended(m)) >= 2}
<1>1. Funnel(p)[1] = Count(joined) /\ Funnel(p)[3] = Count(ordered) /\ Funnel(p)[4] = Count(phoned)
      /\ Funnel(p)[5] = Count(often)
  BY DEF Funnel
<1>2. IsFiniteSet(joined)
  BY CustomersAreMany, CountOfPart
<1>3. ordered \subseteq joined /\ phoned \subseteq ordered
  <2>1. ASSUME NEW m, NEW c \in CallsOf(m) PROVE OrdersOf(m) # {}
    <3>1. c \in CallRows /\ called[c] # NoEntry /\ placed[called[c].order].shop = m
      BY DEF CallsOf, Called, ShopOf
    <3>2. called[c].order \in OrderRows /\ placed[called[c].order] # NoOrder
      BY <3>1, OwnCall
    <3> QED BY <3>1, <3>2 DEF OrdersOf
  <2> QED BY <2>1
<1>4. often \subseteq phoned
  <2>1. Count({}) = 0
    BY FS_EmptySet DEF Count
  <2> QED BY <2>1
<1> HIDE DEF joined, ordered, phoned, often
<1>5. IsFiniteSet(ordered) /\ IsFiniteSet(phoned)
  BY <1>2, <1>3, CountOfPart
<1>6. Count(phoned) <= Count(ordered) /\ Count(often) <= Count(phoned) /\ Count(ordered) \in Nat
      /\ Count(phoned) \in Nat /\ Count(often) \in Nat
  BY <1>3, <1>4, <1>5, CountOfPart
<1>7. Count(ordered) >= Count(phoned) /\ Count(phoned) >= Count(often)
  BY <1>6
<1>8. Count(joined) = Count({m \in Customers : In(owners[m].signup, p.from, p.to)})
  BY DEF joined
<1> QED BY <1>1, <1>7, <1>8

(***************************************************************************)
(* The overview of the back office agrees with itself for any number of       *)
(* shops and orders: sign-ups are the growth of the total, each merchant is   *)
(* on one plan of the mix, and calls follow orders in the funnel.            *)
(***************************************************************************)
THEOREM OverviewAlwaysAgrees == FiguresSpec => []OverviewAgrees
<1>1. FiguresTypeOK => OverviewAgrees
  <2> SUFFICES ASSUME FiguresTypeOK, NEW p \in Asked
               PROVE  LET k == Overview(p)
                          f == Funnel(p)
                          mix(t) == PlanMix(t)
                      IN  /\ k.value.total = k.previous.total + k.value.signups
                          /\ \A e \in {<<k.value, mix(p.to)>>, <<k.previous, mix(p.from)>>} :
                               /\ e[2]["starter"] + e[2]["growth"] + e[2]["pro"] = e[1].paid
                               /\ e[1].paid + e[2]["free"] = e[1].total
                          /\ f[1] = k.value.signups /\ f[3] >= f[4] /\ f[4] >= f[5]
    BY DEF OverviewAgrees
  <2>1. p \in Query
    BY DEF Asked
  <2>2. p.from \in Int /\ p.to \in Int /\ p.from <= p.to
    BY <2>1, PeriodsEndLater
  <2>3. /\ Overview(p).value.total = Count(SignedUpBefore(p.to))
        /\ Overview(p).previous.total = Count(SignedUpBefore(p.from))
        /\ Overview(p).value.paid = Count(PaidAt(p.to)) /\ Overview(p).previous.paid = Count(PaidAt(p.from))
        /\ Overview(p).value.signups = Count({m \in Customers : In(owners[m].signup, p.from, p.to)})
    BY DEF Overview
  <2>4. Overview(p).value.total = Overview(p).previous.total + Overview(p).value.signups
    BY <2>2, <2>3, SignupsAddUp
  <2>5. /\ PlanMix(p.to)["starter"] + PlanMix(p.to)["growth"] + PlanMix(p.to)["pro"] = Overview(p).value.paid
        /\ Overview(p).value.paid + PlanMix(p.to)["free"] = Overview(p).value.total
    BY <2>3, MixAddsUp
  <2>6. /\ PlanMix(p.from)["starter"] + PlanMix(p.from)["growth"] + PlanMix(p.from)["pro"] = Overview(p).previous.paid
        /\ Overview(p).previous.paid + PlanMix(p.from)["free"] = Overview(p).previous.total
    BY <2>3, MixAddsUp
  <2>7. Funnel(p)[1] = Overview(p).value.signups /\ Funnel(p)[3] >= Funnel(p)[4] /\ Funnel(p)[4] >= Funnel(p)[5]
    BY <2>3, FunnelNarrows
  <2> QED BY <2>4, <2>5, <2>6, <2>7
<1> QED BY <1>1, FiguresTypes, PTL

LEMMA OrderIsMade ==
  ASSUME FiguresTypeOK, NEW o \in OrderRows, placed[o] # NoOrder
  PROVE  placed[o].shop \in Merchants /\ placed[o].at \in Nat
BY OwnOrder, MomentsAreInts DEF OrderEntry

LEMMA CallIsMade ==
  ASSUME FiguresTypeOK, NEW c \in CallRows, called[c] # NoEntry
  PROVE  called[c].at \in Nat
BY OwnCall, MomentsAreInts DEF CallEntry

(* Orders and calls are not made in the future. *)
NothingAhead ==
  /\ \A o \in OrderRows : placed[o] # NoOrder => placed[o].at <= clock
  /\ \A c \in CallRows : called[c] # NoEntry => called[c].at <= clock

LEMMA StaysBehind == FiguresSpec => []NothingAhead
<1>1. FiguresInit => NothingAhead
  BY DEF FiguresInit, NothingAhead
<1>2. FiguresTypeOK /\ FiguresTypeOK' /\ NothingAhead /\ [FiguresNext]_figureVars => NothingAhead'
  <2> SUFFICES ASSUME FiguresTypeOK, FiguresTypeOK', NothingAhead, [FiguresNext]_figureVars
               PROVE  NothingAhead'
    OBVIOUS
  <2>1. clock <= clock' /\ clock' \in Nat /\ clock \in Nat /\ OrdersStay /\ CallsStay
    BY FiguresStep
  <2>2. ASSUME NEW t \in Nat, t <= clock PROVE t <= clock'
    BY <2>1, <2>2
  <2>3. ASSUME NEW o \in OrderRows, placed'[o] # NoOrder PROVE placed'[o].at <= clock'
    <3>1. CASE placed[o] = NoOrder
      BY <2>1, <2>3, <3>1 DEF OrdersStay
    <3>2. CASE placed[o] # NoOrder
      <4>1. placed'[o] = placed[o] /\ placed[o].at <= clock
        BY <2>1, <2>3, <3>2 DEF OrdersStay, NothingAhead
      <4> QED BY <2>2, <3>2, <4>1, OrderIsMade
    <3> QED BY <3>1, <3>2
  <2>4. ASSUME NEW c \in CallRows, called'[c] # NoEntry PROVE called'[c].at <= clock'
    <3>1. CASE called[c] = NoEntry
      BY <2>1, <2>4, <3>1 DEF CallsStay
    <3>2. CASE called[c] # NoEntry
      <4>1. called'[c].at = called[c].at /\ called[c].at <= clock
        BY <2>1, <2>4, <3>2 DEF CallsStay, NothingAhead
      <4> QED BY <2>2, <3>2, <4>1, CallIsMade
    <3> QED BY <3>1, <3>2
  <2> QED BY <2>3, <2>4 DEF NothingAhead
<1> QED BY <1>1, <1>2, FiguresTypes, PTL DEF FiguresSpec

LEMMA LatestMoment ==
  ASSUME NEW T \in SUBSET Nat, T # {}, NEW top \in Nat, \A t \in T : t <= top
  PROVE  Max(T) \in T
<1> DEFINE gaps == {top - t : t \in T}
<1>1. gaps \subseteq Nat /\ gaps # {}
  <2>1. ASSUME NEW t \in T
        PROVE  top - t \in Nat
    <3>1. t \in Nat /\ t <= top
      OBVIOUS
    <3> QED BY <3>1
  <2> QED BY <2>1
<1>2. PICK g \in gaps : \A h \in gaps : ~(<<h, g>> \in OpToRel(<, Nat))
  <2> HIDE DEF gaps
  <2> QED BY <1>1, WFMin, NatLessThanWellFounded
<1>3. \A h \in gaps : ~(h < g)
  <2> SUFFICES ASSUME NEW h \in gaps, h < g PROVE FALSE
    OBVIOUS
  <2>1. g \in Nat /\ h \in Nat
    BY <1>1
  <2>2. <<h, g>> \in Nat \X Nat
    BY <2>1
  <2>3. <<h, g>> \in OpToRel(<, Nat)
    BY <2>2 DEF OpToRel
  <2> QED BY <1>2, <2>3
<1>4. PICK t \in T : g = top - t
  OBVIOUS
<1>5. ASSUME NEW u \in T
      PROVE  t >= u
  <2>1. ~(top - u < top - t)
    BY <1>3, <1>4
  <2>2. u \in Nat /\ t \in Nat
    OBVIOUS
  <2> QED BY <2>1, <2>2
<1> QED BY <1>4, <1>5 DEF Max

LEMMA LatestIsThen ==
  ASSUME NEW T \in SUBSET Nat, NEW top \in Nat, \A t \in T : t <= top
  PROVE  Latest(T) \in Int /\ (Latest(T) = -Never \/ (Latest(T) \in T /\ Latest(T) \in Nat))
<1>1. CASE T = {}
  BY <1>1, NeverIsLate DEF Latest
<1>2. CASE T # {}
  <2>1. Max(T) \in T
    BY <1>2, LatestMoment
  <2>2. Latest(T) = Max(T)
    BY <1>2, Zenon DEF Latest
  <2>3. PICK x : x = Max(T)
    OBVIOUS
  <2>4. x \in T /\ x \in Nat /\ Latest(T) = x
    BY <2>1, <2>2, <2>3
  <2>5. x \in Int
    BY <2>4
  <2> QED BY <2>4, <2>5, Zenon
<1> QED BY <1>1, <1>2

LEMMA LastActivityIsThen ==
  ASSUME FiguresTypeOK, NothingAhead, NEW m \in Merchants
  PROVE  /\ LastActivity(m) \in Int
         /\ LastActivity(m) = -Never \/ (LastActivity(m) \in Activity(m) /\ LastActivity(m) <= clock)
<1>1. PICK T, U : T = {placed[o].at : o \in OrdersOf(m)} /\ U = {called[c].at : c \in CallsOf(m)}
  OBVIOUS
<1>2. clock \in Nat
  BY MomentsAreInts DEF FiguresTypeOK
<1>3. T \in SUBSET Nat /\ \A t \in T : t <= clock
  BY <1>1, OrderIsMade DEF NothingAhead, OrdersOf
<1>4. U \in SUBSET Nat /\ \A t \in U : t <= clock
  BY <1>1, CallIsMade DEF NothingAhead, CallsOf, Called
<1>5. PICK a, b : a = Latest(T) /\ b = Latest(U)
  OBVIOUS
<1>6. a \in Int /\ (a = -Never \/ (a \in T /\ a \in Nat))
  BY <1>2, <1>3, <1>5, LatestIsThen
<1>7. b \in Int /\ (b = -Never \/ (b \in U /\ b \in Nat))
  BY <1>2, <1>4, <1>5, LatestIsThen
<1>8. LastActivity(m) = Greatest(a, b)
  BY <1>1, <1>5 DEF LastActivity
<1>9. Greatest(a, b) \in {a, b} /\ (Greatest(a, b) = a \/ Greatest(a, b) = b)
  BY DEF Greatest
<1>10. T \subseteq Activity(m) /\ U \subseteq Activity(m)
  BY <1>1 DEF Activity
<1> QED BY <1>3, <1>4, <1>6, <1>7, <1>8, <1>9, <1>10

LEMMA ResultsAreBounded ==
  ASSUME NEW part \in Nat, NEW whole \in Nat, part <= whole
  PROVE  Results(part, whole) \in 0 .. 30
<1>1. CASE whole = 0
  BY <1>1 DEF Results
<1>2. CASE whole # 0
  <2> DEFINE q == (60 * part + whole) \div (2 * whole)
  <2>1. 2 * whole \in Nat \ {0} /\ 60 * part + whole \in Nat /\ 60 * part + whole <= 61 * whole
    BY <1>2
  <2>2. q \in Nat /\ (2 * whole) * q <= 60 * part + whole
    BY <2>1
  <2>3. Results(part, whole) = q
    BY <1>2 DEF Results
  <2> HIDE DEF q
  <2>4. q <= 30
    <3> SUFFICES ASSUME q >= 31 PROVE FALSE
      BY <2>2
    <3>1. PICK d \in Nat : q = 31 + d
      BY <2>2
    <3>2. (2 * whole) * q = 62 * whole + (2 * whole) * d
      BY <3>1
    <3>3. (2 * whole) * d \in Nat
      BY <2>1
    <3> QED BY <1>2, <2>1, <2>2, <3>2, <3>3
  <2> QED BY <2>2, <2>3, <2>4
<1> QED BY <1>1, <1>2

(***************************************************************************)
(* The health score of a merchant lies in 0 to 100 and agrees with its status *)
(* for any history of orders and calls: who is dormant has no full recency,   *)
(* who is active has, and is one of the active merchants of the overview.     *)
(***************************************************************************)
THEOREM HealthAlwaysTellsStatus == FiguresSpec => []HealthTellsStatus
<1>1. FiguresTypeOK /\ NothingAhead => HealthTellsStatus
  <2> SUFFICES ASSUME FiguresTypeOK, NothingAhead, NEW m \in Customers
               PROVE  /\ HealthScore(m, Preset(30)) \in 0 .. 100
                      /\ m \in Dormant => HealthScore(m, Preset(30)) <= 85
                      /\ MerchantStatus(m) = "active" =>
                           HealthScore(m, Preset(30)) >= 25 /\ m \in ActiveBefore(Now)
    BY DEF HealthTellsStatus
  <2>1. m \in Merchants /\ clock \in Nat /\ LastActivity(m) \in Int
    BY LastActivityIsThen, MomentsAreInts DEF Customers, FiguresTypeOK
  <2> DEFINE made30 == CallsIn(m, Preset(30).from, Preset(30).to)
             idle == clock - LastActivity(m)
  <2>2. PICK a : a = Recency(idle)
    OBVIOUS
  <2>3. PICK b : b = Results(Count(EndedAs(made30, "confirmed")), Count(made30))
    OBVIOUS
  <2>4. PICK c : c = Momentum(Count(CallsIn(m, clock - 14 * Day, Never)),
                              Count(CallsIn(m, clock - 28 * Day, clock - 14 * Day)))
    OBVIOUS
  <2>5. PICK d \in {0, 10} : d = IF owners[m].onboarded THEN 10 ELSE 0
    OBVIOUS
  <2>6. HealthScore(m, Preset(30)) = a + b + c + d
    BY <2>2, <2>3, <2>4, <2>5 DEF HealthScore
  <2>7. b \in 0 .. 30
    <3>1. made30 \subseteq CallRows /\ EndedAs(made30, "confirmed") \subseteq made30
      BY DEF CallsIn, CallsOf, Called, EndedAs
    <3> HIDE DEF made30
    <3>2. IsFiniteSet(made30) /\ Count(made30) \in Nat
      BY <3>1, FiguresAssumption, CountOfPart
    <3>3. /\ Count(EndedAs(made30, "confirmed")) <= Count(made30)
          /\ Count(EndedAs(made30, "confirmed")) \in Nat
      BY <3>1, <3>2, CountOfPart
    <3> QED BY <2>3, <3>2, <3>3, ResultsAreBounded
  <2>8. c \in {0, 10, 20}
    BY <2>4 DEF Momentum
  <2>9. idle \in Int
    BY <2>1
  <2>10. MerchantStatus(m) = "dormant" => idle >= 14 * Day
    BY DEF MerchantStatus
  <2>11. MerchantStatus(m) = "active" => ~(idle >= 14 * Day)
    BY DEF MerchantStatus
  <2>16. ASSUME ~(idle >= 14 * Day) PROVE m \in ActiveBefore(Now)
    <3>1. PICK x \in Int : x = LastActivity(m)
      BY <2>1
    <3>2. x > clock - 28
      BY <2>1, <2>16, <3>1 DEF Day
    <3>3. x # -Never
      BY <2>1, <3>2, SMT DEF Never
    <3>4. x \in Activity(m) /\ x <= clock
      BY <2>1, <3>1, <3>3, LastActivityIsThen
    <3>5. In(x, Now - 30 * Day, Now)
      BY <2>1, <3>2, <3>4 DEF In, Now, Day
    <3> QED BY <3>4, <3>5 DEF ActiveBefore
  <2> HIDE DEF made30, idle
  <2>12. a \in {0, 10, 25, 40}
    BY <2>2 DEF Recency
  <2>13. (idle >= 14 * Day => a <= 25) /\ (~(idle >= 14 * Day) => a >= 25)
    BY <2>2, <2>9 DEF Recency, Day
  <2>14. m \in Dormant => a <= 25
    BY <2>10, <2>13 DEF Dormant
  <2>15. MerchantStatus(m) = "active" => a >= 25 /\ m \in ActiveBefore(Now)
    BY <2>11, <2>13, <2>16
  <2> QED BY <2>5, <2>6, <2>7, <2>8, <2>12, <2>14, <2>15
<1> QED BY <1>1, FiguresTypes, StaysBehind, PTL

-----------------------------------------------------------------------------
(* The figures of one shop *)

PlacedOrder == [at : Moments, status : SaleStatus]

(* What happened, happened until now; who has no order has no calls. *)
ShopInv ==
  /\ clock \in Moments /\ ShopFiguresTypeOK
  /\ \A o \in ShopOrders : IF Known(o) THEN sales[o].at <= clock ELSE dials[o] = <<>>
  /\ \A o \in ShopOrders : \A n \in DOMAIN dials[o] : dials[o][n].at <= clock

LEMMA ShopStarts == clock \in Moments /\ ShopFiguresInit => ShopInv
<1> SUFFICES ASSUME clock \in Moments, ShopFiguresInit PROVE ShopInv
  OBVIOUS
<1>1. <<>> \in BoundedSeq(Dial, MaxDials)
  <2>1. <<>> \in [1 .. 0 -> Dial]
    OBVIOUS
  <2>2. 0 \in 0 .. MaxDials
    BY ShopFiguresAssumption
  <2> QED BY <2>1, <2>2 DEF BoundedSeq, SeqOf
<1> QED BY <1>1 DEF ShopInv, ShopFiguresInit, ShopFiguresTypeOK, NoOrder, Known

(* The calls of an order, by number. *)
LEMMA SomeCalls ==
  ASSUME NEW d
  PROVE  d \in BoundedSeq(Dial, MaxDials) <=> \E m \in 0 .. MaxDials : d \in [1 .. m -> Dial]
BY DEF BoundedSeq, SeqOf

LEMMA CallsHaveLength ==
  ASSUME NEW m \in Nat, NEW d \in [1 .. m -> Dial]
  PROVE  d \in Seq(Dial) /\ Len(d) = m /\ DOMAIN d = 1 .. m
OBVIOUS

(* What a step does to one order. *)
LEMMA ShopMoveKeeps ==
  ASSUME ShopInv, NEW o \in ShopOrders, clock' = clock,
         NEW s \in PlacedOrder \cup {NoOrder}, NEW d \in BoundedSeq(Dial, MaxDials),
         sales' = [sales EXCEPT ![o] = s], dials' = [dials EXCEPT ![o] = d],
         s # NoOrder => s.at <= clock, s = NoOrder => d = <<>>,
         \A n \in DOMAIN d : d[n].at <= clock
  PROVE  ShopInv'
<1>1. clock' \in Moments /\ ShopFiguresTypeOK'
  BY DEF ShopInv, ShopFiguresTypeOK, PlacedOrder
<1>2. ASSUME NEW p \in ShopOrders
      PROVE  /\ IF Known(p)' THEN sales'[p].at <= clock' ELSE dials'[p] = <<>>
             /\ \A n \in DOMAIN dials'[p] : dials'[p][n].at <= clock'
  <2>1. CASE p = o
    <3>1. sales'[p] = s /\ dials'[p] = d
      BY <2>1 DEF ShopInv, ShopFiguresTypeOK
    <3> QED BY <3>1 DEF Known
  <2>2. CASE p # o
    <3>1. sales'[p] = sales[p] /\ dials'[p] = dials[p]
      BY <2>2 DEF ShopInv, ShopFiguresTypeOK
    <3> QED BY <3>1 DEF Known, ShopInv
  <2> QED BY <2>1, <2>2
<1> QED BY <1>1, <1>2 DEF ShopInv

LEMMA ASaleIsThere ==
  ASSUME NEW s \in PlacedOrder
  PROVE  s # NoOrder
<1>1. "at" \in DOMAIN s
  BY DEF PlacedOrder
<1>2. "at" \notin DOMAIN NoOrder
  BY DEF NoOrder
<1> QED BY <1>1, <1>2

(* What an order and its calls are. *)
LEMMA ShopTables ==
  ASSUME ShopInv, NEW o \in ShopOrders
  PROVE  /\ clock \in Nat /\ sales[o] \in PlacedOrder \cup {NoOrder} /\ dials[o] \in BoundedSeq(Dial, MaxDials)
         /\ sales = [sales EXCEPT ![o] = sales[o]] /\ dials = [dials EXCEPT ![o] = dials[o]]
         /\ Known(o) => sales[o] \in PlacedOrder /\ sales[o].at <= clock
         /\ ~Known(o) => dials[o] = <<>>
         /\ \A n \in DOMAIN dials[o] : dials[o][n].at <= clock
         /\ sales \in [ShopOrders -> PlacedOrder \cup {NoOrder}]
         /\ dials \in [ShopOrders -> BoundedSeq(Dial, MaxDials)]
<1>1. clock \in Nat
  BY MomentsAreInts DEF ShopInv
<1>2. /\ sales \in [ShopOrders -> PlacedOrder \cup {NoOrder}]
      /\ dials \in [ShopOrders -> BoundedSeq(Dial, MaxDials)]
  BY DEF ShopInv, ShopFiguresTypeOK, PlacedOrder
<1>3. /\ Known(o) => sales[o].at <= clock
      /\ ~Known(o) => dials[o] = <<>>
      /\ \A n \in DOMAIN dials[o] : dials[o][n].at <= clock
  BY DEF ShopInv
<1>4. sales = [sales EXCEPT ![o] = sales[o]] /\ dials = [dials EXCEPT ![o] = dials[o]]
  BY <1>2
<1>5. Known(o) => sales[o] \in PlacedOrder
  BY <1>2 DEF Known
<1> QED BY <1>1, <1>2, <1>3, <1>4, <1>5

(* The calls of the shop are finitely many. *)
LEMMA CallsAreMany ==
  ASSUME ShopInv
  PROVE  /\ IsFiniteSet(AllCalls)
         /\ \A o \in ShopOrders : IsFiniteSet({o} \X DOMAIN dials[o])
<1>1. ASSUME NEW o \in ShopOrders PROVE IsFiniteSet({o} \X DOMAIN dials[o])
  <2>1. PICK m \in 0 .. MaxDials : dials[o] \in [1 .. m -> Dial]
    BY ShopTables, SomeCalls
  <2>2. m \in Int /\ IsFiniteSet(1 .. m)
    BY <2>1, FS_Interval, ShopFiguresAssumption
  <2>3. IsFiniteSet({o} \X (1 .. m))
    BY <2>2, FS_Singleton, FS_Product
  <2> QED BY <2>1, <2>3
<1>2. PICK parts : parts = {{o} \X DOMAIN dials[o] : o \in ShopOrders}
  OBVIOUS
<1>3. \A part \in parts : IsFiniteSet(part)
  BY <1>1, <1>2
<1>4. IsFiniteSet(parts)
  <2>1. PICK f : f = [o \in ShopOrders |-> {o} \X DOMAIN dials[o]]
    OBVIOUS
  <2>2. f \in Surjection(ShopOrders, parts)
    BY <2>1, <1>2 DEF Surjection
  <2> QED BY <2>2, FS_Surjection, ShopFiguresAssumption
<1>5. IsFiniteSet(UNION parts)
  BY <1>3, <1>4, FS_UNION
<1> QED BY <1>1, <1>2, <1>5 DEF AllCalls

(* Another call of an order is within the bound. *)
LEMMA OneMoreCall ==
  ASSUME ShopInv, NEW o \in ShopOrders, Cardinality(AllCalls) < MaxDials, NEW c \in Dial
  PROVE  /\ Append(dials[o], c) \in BoundedSeq(Dial, MaxDials)
         /\ c.at <= clock => \A n \in DOMAIN Append(dials[o], c) : Append(dials[o], c)[n].at <= clock
<1>1. PICK m \in 0 .. MaxDials : dials[o] \in [1 .. m -> Dial]
  BY ShopTables, SomeCalls
<1>2. m \in Nat /\ MaxDials \in Nat
  BY <1>1, ShopFiguresAssumption
<1>3. IsFiniteSet(1 .. m) /\ Cardinality(1 .. m) = m
  BY <1>2, FS_Interval
<1>4. Cardinality({o} \X (1 .. m)) = m
  <2>1. IsFiniteSet({o}) /\ Cardinality({o}) = 1
    BY FS_Singleton
  <2>2. Cardinality({o} \X (1 .. m)) = 1 * m
    BY <1>3, <2>1, FS_Product
  <2> QED BY <1>2, <2>2
<1>5. m < MaxDials
  <2>1. {o} \X (1 .. m) \in SUBSET AllCalls
    BY <1>1 DEF AllCalls
  <2>2. m <= Cardinality(AllCalls) /\ Cardinality(AllCalls) \in Nat
    BY <1>4, <2>1, CallsAreMany, FS_Subset, FS_CardinalityType
  <2> QED BY <1>2, <2>2
<1>6. PICK d : d = Append(dials[o], c)
  OBVIOUS
<1>7. /\ d \in [1 .. m + 1 -> Dial] /\ d[m + 1] = c
      /\ \A n \in 1 .. m : d[n] = dials[o][n]
  <2>1. PICK q : q = dials[o]
    OBVIOUS
  <2>2. q \in Seq(Dial) /\ Len(q) = m /\ DOMAIN q = 1 .. m /\ q \in [1 .. m -> Dial]
    BY <1>1, <1>2, <2>1, CallsHaveLength
  <2>3. d = Append(q, c)
    BY <1>6, <2>1
  <2>4. d \in Seq(Dial) /\ Len(d) = m + 1
    BY <1>2, <2>2, <2>3
  <2>5. d[m + 1] = c /\ \A n \in 1 .. m : d[n] = q[n]
    BY <1>2, <2>2, <2>3
  <2>6. d \in [1 .. m + 1 -> Dial]
    BY <1>2, <2>4
  <2> QED BY <2>1, <2>5, <2>6
<1>8. m + 1 \in 0 .. MaxDials
  BY <1>2, <1>5
<1>9. ASSUME c.at <= clock, NEW n \in DOMAIN d PROVE d[n].at <= clock
  <2>1. n \in 1 .. m \/ n = m + 1
    BY <1>2, <1>7
  <2>2. CASE n \in 1 .. m
    BY <1>1, <1>7, <2>2, ShopTables
  <2> QED BY <1>7, <1>9, <2>1, <2>2
<1> QED BY <1>6, <1>7, <1>8, <1>9, SomeCalls

(* The last call of an order is at its end. *)
LEMMA LastCall ==
  ASSUME ShopInv, NEW o \in ShopOrders, dials[o] # <<>>
  PROVE  \E m \in Nat : /\ m \in 0 .. MaxDials /\ m \in 1 .. m /\ Len(dials[o]) = m
                        /\ dials[o] \in [1 .. m -> Dial] /\ dials[o][m].at <= clock
<1>1. PICK m \in 0 .. MaxDials : dials[o] \in [1 .. m -> Dial]
  BY ShopTables, SomeCalls
<1>2. m \in Nat /\ Len(dials[o]) = m
  BY <1>1, ShopFiguresAssumption, CallsHaveLength
<1>3. m \in 1 .. m
  BY <1>1, <1>2
<1>4. dials[o][m].at <= clock
  BY <1>1, <1>3, ShopTables
<1> QED BY <1>1, <1>2, <1>3, <1>4

(* Every move of an order keeps the history in order. *)
LEMMA SaleMovesKeep ==
  ASSUME ShopInv, NEW o \in ShopOrders, SaleMoves(o), clock' = clock
  PROVE  ShopInv'
<1>1. /\ clock \in Nat /\ sales[o] \in PlacedOrder \cup {NoOrder} /\ dials[o] \in BoundedSeq(Dial, MaxDials)
      /\ sales = [sales EXCEPT ![o] = sales[o]] /\ dials = [dials EXCEPT ![o] = dials[o]]
      /\ Known(o) => sales[o] \in PlacedOrder /\ sales[o].at <= clock
      /\ ~Known(o) => dials[o] = <<>>
      /\ \A n \in DOMAIN dials[o] : dials[o][n].at <= clock
      /\ clock \in Moments
  BY ShopTables DEF ShopInv
<1>2. <<>> \in BoundedSeq(Dial, MaxDials) /\ \A n \in DOMAIN <<>> : <<>>[n].at <= clock
  <2>1. <<>> \in [1 .. 0 -> Dial] /\ 0 \in 0 .. MaxDials /\ DOMAIN <<>> = {}
    BY ShopFiguresAssumption
  <2> QED BY <2>1, SomeCalls
<1>3. ASSUME Known(o), NEW status \in SaleStatus
      PROVE  \E s \in PlacedOrder : SetStatus(o, status) = [sales EXCEPT ![o] = s] /\ s.at <= clock /\ s # NoOrder
  <2>1. PICK s : s = [sales[o] EXCEPT !.status = status]
    OBVIOUS
  <2>2. s \in PlacedOrder /\ s.at = sales[o].at
    BY <1>1, <1>3, <2>1 DEF PlacedOrder
  <2>3. SetStatus(o, status) = [sales EXCEPT ![o] = s]
    BY <1>3, <2>1, ShopTables DEF SetStatus
  <2> QED BY <1>1, <1>3, <2>2, <2>3, ASaleIsThere
<1>4. CASE Places(o)
  <2>1. PICK s : s = [at |-> clock, status |-> "pending"]
    OBVIOUS
  <2>2. s \in PlacedOrder /\ s.at = clock
    BY <1>1, <2>1 DEF PlacedOrder, SaleStatus
  <2>3. sales' = [sales EXCEPT ![o] = s] /\ dials' = [dials EXCEPT ![o] = dials[o]]
    BY <1>1, <1>4, <2>1 DEF Places
  <2>4. s.at <= clock /\ s # NoOrder
    BY <1>1, <2>2, ASaleIsThere
  <2> QED BY <1>1, <2>2, <2>3, <2>4, ShopMoveKeeps
<1>5. CASE Dials(o)
  <2>1. Known(o) /\ Cardinality(AllCalls) < MaxDials /\ sales' = SetStatus(o, "pending")
    BY <1>5 DEF Dials
  <2>2. PICK c : c = [at |-> clock, status |-> "pending", review |-> FALSE]
    OBVIOUS
  <2>3. c \in Dial /\ c.at <= clock
    BY <1>1, <2>2 DEF Dial
  <2>4. PICK d : d = Append(dials[o], c)
    OBVIOUS
  <2>5. d \in BoundedSeq(Dial, MaxDials) /\ \A n \in DOMAIN d : d[n].at <= clock
    BY <2>1, <2>3, <2>4, OneMoreCall
  <2>6. dials' = [dials EXCEPT ![o] = d]
    BY <1>5, <2>2, <2>4 DEF Dials
  <2>7. PICK s \in PlacedOrder : sales' = [sales EXCEPT ![o] = s] /\ s.at <= clock /\ s # NoOrder
    BY <1>3, <2>1 DEF SaleStatus
  <2> QED BY <2>5, <2>6, <2>7, ShopMoveKeeps
<1>6. ASSUME NEW s \in PlacedOrder, s.at <= clock, sales' = [sales EXCEPT ![o] = s], s # NoOrder,
             NEW m \in Nat, m \in 0 .. MaxDials, m \in 1 .. m, dials[o] \in [1 .. m -> Dial],
             dials[o][m].at <= clock, NEW c \in Dial, c.at = dials[o][m].at,
             dials' = [dials EXCEPT ![o][m] = c]
      PROVE  ShopInv'
  <2>1. PICK d : d = [dials[o] EXCEPT ![m] = c]
    OBVIOUS
  <2>2. d \in [1 .. m -> Dial] /\ \A n \in 1 .. m : d[n].at <= clock
    BY <1>1, <1>6, <2>1
  <2>3. d \in BoundedSeq(Dial, MaxDials) /\ \A n \in DOMAIN d : d[n].at <= clock
    BY <1>6, <2>2, SomeCalls
  <2>4. dials' = [dials EXCEPT ![o] = d]
    BY <1>1, <1>6, <2>1, ShopTables
  <2> QED BY <1>6, <2>3, <2>4, ShopMoveKeeps
<1>7. ASSUME InCall(o), sales' = sales \/ \E status \in SaleStatus : sales' = SetStatus(o, status),
             NEW status \in {"pending"} \cup CallEndings, NEW r \in BOOLEAN, EndDial(o, status, r)
      PROVE  ShopInv'
  <2>1. dials[o] # <<>> /\ Known(o)
    BY <1>1, <1>7 DEF InCall
  <2>2. PICK m \in Nat : /\ m \in 0 .. MaxDials /\ m \in 1 .. m /\ Len(dials[o]) = m
                         /\ dials[o] \in [1 .. m -> Dial] /\ dials[o][m].at <= clock
    BY <2>1, LastCall
  <2>3. PICK s \in PlacedOrder : sales' = [sales EXCEPT ![o] = s] /\ s.at <= clock /\ s # NoOrder
    <3>1. CASE sales' = sales
      BY <1>1, <2>1, <3>1, ASaleIsThere
    <3>2. CASE \E st \in SaleStatus : sales' = SetStatus(o, st)
      BY <1>3, <2>1, <3>2
    <3> QED BY <1>7, <3>1, <3>2
  <2>4. PICK c : c = [dials[o][m] EXCEPT !.status = status, !.review = r]
    OBVIOUS
  <2>5. c \in Dial /\ c.at = dials[o][m].at
    BY <1>7, <2>2, <2>4 DEF Dial
  <2>6. dials' = [dials EXCEPT ![o][m] = c]
    BY <1>7, <2>2, <2>4, ShopTables DEF EndDial
  <2> QED BY <1>6, <2>2, <2>3, <2>5, <2>6
<1>8. "confirmed" \in SaleStatus /\ "cancelled" \in SaleStatus /\ "unreachable" \in SaleStatus
      /\ CallEndings = {"confirmed", "failed", "no_answer"} /\ TRUE \in BOOLEAN /\ FALSE \in BOOLEAN
  BY DEF SaleStatus, CallEndings
<1>9. CASE Undecided(o)
  <2>1. InCall(o) /\ (sales' = sales \/ \E status \in SaleStatus : sales' = SetStatus(o, status))
    BY <1>8, <1>9 DEF Undecided, GivenUp
  <2>2. EndDial(o, "failed", TRUE) \/ \E s \in {"failed", "no_answer"} : EndDial(o, s, FALSE)
    BY <1>9 DEF Undecided
  <2>3. CASE EndDial(o, "failed", TRUE)
    BY <1>7, <1>8, <2>1, <2>3
  <2>4. CASE \E s \in {"failed", "no_answer"} : EndDial(o, s, FALSE)
    BY <1>7, <1>8, <2>1, <2>4
  <2> QED BY <2>2, <2>3, <2>4
<1>10. CASE Expires(o)
  <2>1. InCall(o) /\ (sales' = sales \/ \E status \in SaleStatus : sales' = SetStatus(o, status))
    BY <1>8, <1>10 DEF Expires, GivenUp
  <2>2. EndDial(o, "no_answer", FALSE)
    BY <1>10 DEF Expires
  <2> QED BY <1>7, <1>8, <2>1, <2>2
<1>11. ASSUME NEW status \in {"confirmed", "cancelled"}, NEW ending \in CallEndings, Decided(o, status, ending)
       PROVE  ShopInv'
  <2>1. InCall(o) /\ (sales' = sales \/ \E st \in SaleStatus : sales' = SetStatus(o, st))
    BY <1>8, <1>11 DEF Decided
  <2>2. EndDial(o, ending, FALSE) \/ EndDial(o, "failed", FALSE)
    BY <1>11 DEF Decided
  <2> QED BY <1>7, <1>8, <2>1, <2>2
<1>12. CASE Removed(o)
  <2>1. sales' = [sales EXCEPT ![o] = NoOrder] /\ dials' = [dials EXCEPT ![o] = <<>>]
    BY <1>12 DEF Removed
  <2> QED BY <1>2, <2>1, ShopMoveKeeps
<1>13. CASE StaffRecords(o)
  <2>1. dials[o] # <<>> /\ sales' = sales
    BY <1>13 DEF StaffRecords
  <2>2. PICK status \in {"pending"} \cup CallEndings :
          dials' = [dials EXCEPT ![o][Len(dials[o])] = [@ EXCEPT !.status = status]]
    BY <1>13 DEF StaffRecords
  <2>3. Known(o) /\ sales' = [sales EXCEPT ![o] = sales[o]]
    BY <1>1, <2>1
  <2>4. PICK m \in Nat : /\ m \in 0 .. MaxDials /\ m \in 1 .. m /\ Len(dials[o]) = m
                         /\ dials[o] \in [1 .. m -> Dial] /\ dials[o][m].at <= clock
    BY <2>1, LastCall
  <2>5. PICK c : c = [dials[o][m] EXCEPT !.status = status]
    OBVIOUS
  <2>6. c \in Dial /\ c.at = dials[o][m].at
    BY <2>4, <2>5 DEF Dial
  <2>7. dials' = [dials EXCEPT ![o][m] = c]
    BY <2>2, <2>4, <2>5, ShopTables
  <2> QED BY <1>1, <1>6, <2>3, <2>4, <2>6, <2>7, ASaleIsThere
<1>14. CASE \E s \in SaleStatus : StaffSets(o, s)
  <2>1. PICK s \in PlacedOrder : sales' = [sales EXCEPT ![o] = s] /\ s.at <= clock /\ s # NoOrder
    BY <1>3, <1>14 DEF StaffSets
  <2>2. dials' = [dials EXCEPT ![o] = dials[o]]
    BY <1>1, <1>14 DEF StaffSets
  <2> QED BY <1>1, <2>1, <2>2, ShopMoveKeeps
<1> QED BY <1>4, <1>5, <1>8, <1>9, <1>10, <1>11, <1>12, <1>13, <1>14 DEF SaleMoves

LEMMA ShopNextKeeps == ShopInv /\ [ShopFiguresNext]_shopFigureVars => ShopInv'
<1> SUFFICES ASSUME ShopInv, [ShopFiguresNext]_shopFigureVars PROVE ShopInv'
  OBVIOUS
<1>1. CASE (\E o \in ShopOrders : SaleMoves(o)) /\ UNCHANGED clock
  BY <1>1, SaleMovesKeep
<1>2. ASSUME NEW t \in ShopMoments, t > clock, clock' = t, UNCHANGED <<sales, dials>> PROVE ShopInv'
  <2>1. t \in Moments /\ t \in Nat /\ clock \in Nat
    BY MomentsAreInts, ShopFiguresAssumption DEF ShopInv
  <2>2. clock' \in Moments /\ ShopFiguresTypeOK'
    BY <1>2, <2>1 DEF ShopInv, ShopFiguresTypeOK
  <2>3. ASSUME NEW o \in ShopOrders
        PROVE  /\ IF Known(o)' THEN sales'[o].at <= clock' ELSE dials'[o] = <<>>
               /\ \A n \in DOMAIN dials'[o] : dials'[o][n].at <= clock'
    <3>1. Known(o) => sales[o].at \in Nat /\ sales[o].at <= clock
      BY ShopTables, MomentsAreInts DEF PlacedOrder
    <3>2. ASSUME NEW n \in DOMAIN dials[o] PROVE dials[o][n].at \in Nat /\ dials[o][n].at <= clock
      <4>1. PICK m \in 0 .. MaxDials : dials[o] \in [1 .. m -> Dial]
        BY ShopTables, SomeCalls
      <4>2. dials[o][n] \in Dial
        BY <3>2, <4>1
      <4> QED BY <3>2, <4>2, ShopTables, MomentsAreInts DEF Dial
    <3>3. ~Known(o) => dials[o] = <<>>
      BY ShopTables
    <3> QED BY <1>2, <2>1, <3>1, <3>2, <3>3 DEF Known
  <2> QED BY <2>2, <2>3 DEF ShopInv
<1>3. CASE UNCHANGED shopFigureVars
  BY <1>3 DEF shopFigureVars, ShopInv, ShopFiguresTypeOK, Known
<1> QED BY <1>1, <1>2, <1>3 DEF ShopFiguresNext

(* The history of a shop is in order at every moment. *)
THEOREM ShopFiguresTypes == ShopFiguresSpec => []ShopInv
<1>1. clock \in Moments /\ ShopFiguresInit => ShopInv
  BY ShopStarts
<1> QED BY <1>1, ShopNextKeeps, PTL DEF ShopFiguresSpec

(* Days, hours and attempts are finitely many. *)
LEMMA RangesAreFinite ==
  ASSUME NEW a \in Int, NEW b \in Int, NEW S, S = a .. b
  PROVE  IsFiniteSet(S)
BY FS_Interval

(* An order and a call are of the past, and what they say is known. *)
LEMMA SaleIsPast ==
  ASSUME ShopInv, NEW o \in ShopOrders, Known(o)
  PROVE  sales[o].at \in Nat /\ sales[o].at <= clock /\ sales[o].at < Never /\ sales[o].status \in SaleStatus
<1>1. sales[o] \in PlacedOrder /\ sales[o].at <= clock
  BY ShopTables
<1>2. sales[o].at \in Moments /\ sales[o].status \in SaleStatus
  BY <1>1 DEF PlacedOrder
<1> QED BY <1>1, <1>2, MomentsAreInts

LEMMA CallIsPast ==
  ASSUME ShopInv, NEW c \in AllCalls
  PROVE  /\ c[1] \in ShopOrders /\ c[2] \in 1 .. MaxDials
         /\ TheCall(c).at \in Nat /\ TheCall(c).at <= clock /\ TheCall(c).at < Never
         /\ TheCall(c).status \in {"pending"} \cup CallEndings
<1>1. PICK o \in ShopOrders : c \in {o} \X DOMAIN dials[o]
  BY DEF AllCalls
<1>2. PICK m \in 0 .. MaxDials : dials[o] \in [1 .. m -> Dial]
  BY ShopTables, SomeCalls
<1>3. c[1] = o /\ c[2] \in 1 .. m
  BY <1>1, <1>2
<1>4. TheCall(c) \in Dial /\ TheCall(c).at <= clock
  BY <1>2, <1>3, ShopTables DEF TheCall
<1>5. TheCall(c).at \in Moments /\ TheCall(c).status \in {"pending"} \cup CallEndings
  BY <1>4 DEF Dial
<1>6. c[2] \in 1 .. MaxDials
  BY <1>2, <1>3, ShopFiguresAssumption
<1> QED BY <1>3, <1>4, <1>5, <1>6, MomentsAreInts

(* Nothing is in the future: a period without an end ends now. *)
LEMMA NothingIsLater ==
  ASSUME ShopInv, NEW from
  PROVE  SalesIn(from, Never) = SalesIn(from, Now) /\ DialsIn(from, Never) = DialsIn(from, Now)
<1>1. clock \in Nat
  BY MomentsAreInts DEF ShopInv
<1>2. ASSUME NEW o \in ShopOrders, Known(o) PROVE In(sales[o].at, from, Never) <=> In(sales[o].at, from, Now)
  BY <1>1, <1>2, SaleIsPast DEF In, Now
<1>3. ASSUME NEW c \in AllCalls PROVE In(TheCall(c).at, from, Never) <=> In(TheCall(c).at, from, Now)
  BY <1>1, <1>3, CallIsPast DEF In, Now
<1> QED BY <1>2, <1>3 DEF SalesIn, DialsIn

(* Sets of orders and of calls can be counted. *)
LEMMA ShopCounts ==
  ASSUME ShopInv
  PROVE  /\ \A S \in SUBSET ShopOrders : IsFiniteSet(S) /\ Count(S) \in Nat
         /\ \A C \in SUBSET AllCalls : IsFiniteSet(C) /\ Count(C) \in Nat
<1>1. IsFiniteSet(ShopOrders) /\ IsFiniteSet(AllCalls)
  BY CallsAreMany, ShopFiguresAssumption
<1> QED BY <1>1, CountOfPart

(* What is counted by a key adds up to the count of all, however it ended. *)
LEMMA EndedByKey ==
  ASSUME ShopInv, NEW A \in SUBSET AllCalls, NEW S, IsFiniteSet(S), NEW K, \A c \in A : K[c] \in S,
         NEW T, NEW N, DOMAIN N = S, \A d \in S : N[d] = Count(EndedWith(Keyed(A, K, d), T))
  PROVE  SumFunction(N) = Count(EndedWith(A, T))
<1>1. PICK B : B = EndedWith(A, T)
  OBVIOUS
<1>2. B \in SUBSET AllCalls /\ \A c \in B : K[c] \in S
  BY <1>1 DEF EndedWith
<1>3. IsFiniteSet(B)
  BY <1>2, ShopCounts
<1>4. \A d \in S : EndedWith(Keyed(A, K, d), T) = Keyed(B, K, d)
  BY <1>1 DEF EndedWith, Keyed
<1>5. \A d \in S : N[d] = Count(Keyed(B, K, d))
  BY <1>4
<1>6. SumFunctionOnSet(N, S) = Count(B)
  BY <1>2, <1>3, <1>5, CountByKey
<1> QED BY <1>1, <1>6 DEF SumFunction

LEMMA TalliesAddUp ==
  ASSUME ShopInv, NEW A \in SUBSET AllCalls, NEW S, IsFiniteSet(S), NEW K, \A c \in A : K[c] \in S,
         NEW f, DOMAIN f = S,
         \A d \in S : /\ f[d]["calls"] = Count(Keyed(A, K, d))
                      /\ f[d]["confirmed"] = Count(EndedWith(Keyed(A, K, d), {"confirmed"}))
  PROVE  /\ SumFunction([d \in DOMAIN f |-> f[d]["calls"]]) = Count(A)
         /\ SumFunction([d \in DOMAIN f |-> f[d]["confirmed"]]) = Count(EndedWith(A, {"confirmed"}))
<1>1. PICK N, C : N = [d \in S |-> f[d]["calls"]] /\ C = [d \in S |-> f[d]["confirmed"]]
  OBVIOUS
<1>2. (\A d \in S : N[d] = Count(Keyed(A, K, d))) /\ DOMAIN N = S
  BY <1>1
<1>3. IsFiniteSet(A)
  BY ShopCounts
<1>4. SumFunctionOnSet(N, S) = Count(A)
  BY <1>2, <1>3, CountByKey
<1>5. (\A d \in S : C[d] = Count(EndedWith(Keyed(A, K, d), {"confirmed"}))) /\ DOMAIN C = S
  BY <1>1
<1>6. SumFunction(C) = Count(EndedWith(A, {"confirmed"}))
  BY <1>5, EndedByKey
<1> QED BY <1>1, <1>2, <1>4, <1>6 DEF SumFunction

(* Hours and attempts. *)
LEMMA UntilNow ==
  ASSUME ShopInv, NEW from, NEW A, A = Finished(from, Never)
  PROVE  /\ A = Finished(from, Now) /\ A \in SUBSET AllCalls
         /\ EndedWith(A, AnsweredEndings) = EndedWith(DialsIn(from, Now), AnsweredEndings)
         /\ EndedWith(A, {"confirmed"}) = EndedWith(DialsIn(from, Now), {"confirmed"})
<1>1. A = Finished(from, Now) /\ A \in SUBSET AllCalls
  BY NothingIsLater DEF Finished, EndedWith, DialsIn
<1> QED BY <1>1 DEF Finished, EndedWith, AnsweredEndings, CallEndings

LEMMA HoursAddUp ==
  ASSUME ShopInv, NEW from, NEW f, f = ByHour(from)
  PROVE  /\ SumFunction([d \in DOMAIN f |-> f[d]["calls"]]) = Count(Finished(from, Now))
         /\ SumFunction([d \in DOMAIN f |-> f[d]["answered"]]) = Count(EndedWith(DialsIn(from, Now), AnsweredEndings))
         /\ SumFunction([d \in DOMAIN f |-> f[d]["confirmed"]]) = Count(EndedWith(DialsIn(from, Now), {"confirmed"}))
<1>1. PICK A : A = Finished(from, Never)
  OBVIOUS
<1>2. /\ A = Finished(from, Now) /\ A \in SUBSET AllCalls
      /\ EndedWith(A, AnsweredEndings) = EndedWith(DialsIn(from, Now), AnsweredEndings)
      /\ EndedWith(A, {"confirmed"}) = EndedWith(DialsIn(from, Now), {"confirmed"})
  BY <1>1, UntilNow
<1>3. PICK K, S : K = [c \in AllCalls |-> TheCall(c).at % Day] /\ S = 0 .. Day - 1
  OBVIOUS
<1>4. ASSUME NEW t \in Nat PROVE t % Day \in 0 .. Day - 1
  <2>1. t % 2 \in 0 .. 1
    BY SMT
  <2> QED BY <2>1 DEF Day
<1>5. \A c \in A : K[c] \in S
  BY <1>2, <1>3, <1>4, CallIsPast
<1>6. IsFiniteSet(S)
  <2>1. 0 \in Int /\ Day - 1 \in Int
    BY DEF Day
  <2> QED BY <1>3, <2>1, RangesAreFinite
<1>7. DOMAIN f = S
  BY <1>3 DEF ByHour
<1>8. ASSUME NEW h \in S
      PROVE  /\ f[h]["calls"] = Count(Keyed(A, K, h))
             /\ f[h]["answered"] = Count(EndedWith(Keyed(A, K, h), AnsweredEndings))
             /\ f[h]["confirmed"] = Count(EndedWith(Keyed(A, K, h), {"confirmed"}))
  <2>1. {c \in A : TheCall(c).at % Day = h} = Keyed(A, K, h)
    BY <1>2, <1>3 DEF Keyed
  <2>2. f[h] = LET here == {c \in A : TheCall(c).at % Day = h}
               IN  [calls |-> Count(here), answered |-> Count(EndedWith(here, AnsweredEndings)),
                    confirmed |-> Count(EndedWith(here, {"confirmed"}))]
    BY <1>1, <1>3 DEF ByHour
  <2> QED BY <2>1, <2>2
<1>9. PICK N : N = [d \in S |-> f[d]["answered"]]
  OBVIOUS
<1>10. SumFunction(N) = Count(EndedWith(A, AnsweredEndings))
  <2>1. DOMAIN N = S /\ \A d \in S : N[d] = Count(EndedWith(Keyed(A, K, d), AnsweredEndings))
    BY <1>8, <1>9
  <2> QED BY <1>2, <1>5, <1>6, <2>1, EndedByKey
<1>11. /\ SumFunction([d \in DOMAIN f |-> f[d]["calls"]]) = Count(A)
       /\ SumFunction([d \in DOMAIN f |-> f[d]["confirmed"]]) = Count(EndedWith(A, {"confirmed"}))
  BY <1>2, <1>5, <1>6, <1>7, <1>8, TalliesAddUp
<1> QED BY <1>2, <1>7, <1>9, <1>10, <1>11

LEMMA AttemptsAddUp ==
  ASSUME ShopInv, NEW from, NEW f, f = ByAttempt(from)
  PROVE  /\ SumFunction([d \in DOMAIN f |-> f[d]["calls"]]) = Count(Finished(from, Now))
         /\ SumFunction([d \in DOMAIN f |-> f[d]["confirmed"]]) = Count(EndedWith(DialsIn(from, Now), {"confirmed"}))
<1>1. PICK A : A = Finished(from, Never)
  OBVIOUS
<1>2. /\ A = Finished(from, Now) /\ A \in SUBSET AllCalls
      /\ EndedWith(A, {"confirmed"}) = EndedWith(DialsIn(from, Now), {"confirmed"})
  BY <1>1, UntilNow
<1>3. PICK K, S : K = [c \in AllCalls |-> c[2]] /\ S = 1 .. MaxDials
  OBVIOUS
<1>5. \A c \in A : K[c] \in S
  BY <1>2, <1>3, CallIsPast
<1>6. IsFiniteSet(S)
  BY <1>3, RangesAreFinite, ShopFiguresAssumption
<1>7. DOMAIN f = S
  BY <1>3 DEF ByAttempt
<1>8. ASSUME NEW n \in S
      PROVE  /\ f[n]["calls"] = Count(Keyed(A, K, n))
             /\ f[n]["confirmed"] = Count(EndedWith(Keyed(A, K, n), {"confirmed"}))
  <2>1. {c \in A : c[2] = n} = Keyed(A, K, n)
    BY <1>2, <1>3 DEF Keyed
  <2>2. f[n] = LET here == {c \in A : c[2] = n}
               IN  [calls |-> Count(here), confirmed |-> Count(EndedWith(here, {"confirmed"}))]
    BY <1>1, <1>3 DEF ByAttempt
  <2> QED BY <2>1, <2>2
<1>11. /\ SumFunction([d \in DOMAIN f |-> f[d]["calls"]]) = Count(A)
       /\ SumFunction([d \in DOMAIN f |-> f[d]["confirmed"]]) = Count(EndedWith(A, {"confirmed"}))
  BY <1>2, <1>5, <1>6, <1>7, <1>8, TalliesAddUp
<1> QED BY <1>2, <1>11

LEMMA WeekdaysAddUp ==
  ASSUME ShopInv, NEW from, NEW f, f = ByWeekday(from)
  PROVE  /\ SumFunction([d \in DOMAIN f |-> f[d]["orders"]]) = Count(SalesIn(from, Now))
         /\ SumFunction([d \in DOMAIN f |-> f[d]["confirmed"]])
              = Count(WithStatus(SalesIn(from, Now), "confirmed"))
<1>1. PICK A, K, S : /\ A = SalesIn(from, Never) /\ S = 0 .. 6
                     /\ K = [o \in ShopOrders |-> Weekday(sales[o].at)]
  OBVIOUS
<1>2. A = SalesIn(from, Now) /\ A \in SUBSET ShopOrders
  BY <1>1, NothingIsLater DEF SalesIn
<1>3. PICK B : B = WithStatus(A, "confirmed")
  OBVIOUS
<1>4. B \subseteq A /\ B \in SUBSET ShopOrders
  BY <1>2, <1>3 DEF WithStatus
<1>5. ASSUME NEW o \in A PROVE K[o] \in S
  <2>1. sales[o].at \in Nat /\ o \in ShopOrders
    BY <1>1, <1>5, SaleIsPast DEF SalesIn
  <2>2. ASSUME NEW t \in Nat PROVE Weekday(t) \in 0 .. 6
    BY SMT DEF Weekday, DayOf, Day
  <2> QED BY <1>1, <2>1, <2>2
<1>6. IsFiniteSet(S) /\ IsFiniteSet(A) /\ IsFiniteSet(B) /\ \A o \in B : K[o] \in S
  <2>1. IsFiniteSet(S)
    <3>1. 0 \in Int /\ 6 \in Int
      OBVIOUS
    <3> QED BY <1>1, <3>1, RangesAreFinite
  <2>2. IsFiniteSet(A) /\ IsFiniteSet(B)
    BY <1>2, <1>4, ShopCounts
  <2> QED BY <1>4, <1>5, <2>1, <2>2
<1>7. DOMAIN f = S
  BY <1>1 DEF ByWeekday
<1>8. \A w \in S : /\ {o \in A : Weekday(sales[o].at) = w} = Keyed(A, K, w)
                   /\ WithStatus(Keyed(A, K, w), "confirmed") = Keyed(B, K, w)
  BY <1>1, <1>2, <1>3 DEF Keyed, WithStatus
<1>9. \A w \in S : f[w]["orders"] = Count(Keyed(A, K, w)) /\ f[w]["confirmed"] = Count(Keyed(B, K, w))
  BY <1>1, <1>8 DEF ByWeekday
<1>10. PICK N, C : N = [d \in S |-> f[d]["orders"]] /\ C = [d \in S |-> f[d]["confirmed"]]
  OBVIOUS
<1>11. \A d \in S : N[d] = Count(Keyed(A, K, d))
  BY <1>9, <1>10
<1>12. \A d \in S : C[d] = Count(Keyed(B, K, d))
  BY <1>9, <1>10
<1>13. SumFunctionOnSet(N, S) = Count(A)
  BY <1>5, <1>6, <1>11, CountByKey
<1>14. SumFunctionOnSet(C, S) = Count(B)
  BY <1>6, <1>12, CountByKey
<1> QED BY <1>2, <1>3, <1>7, <1>10, <1>13, <1>14 DEF SumFunction

(* The outcomes of the calls: those that were answered, and all of them. *)
LEMMA OutcomesAdd ==
  ASSUME ShopInv, NEW from
  PROVE  /\ CallOutcomes(from)["confirmed"] = Count(EndedWith(DialsIn(from, Now), {"confirmed"}))
         /\ Count(EndedWith(DialsIn(from, Now), AnsweredEndings))
              = CallOutcomes(from)["confirmed"] + CallOutcomes(from)["failed"]
         /\ Count(EndedWith(DialsIn(from, Now), {"failed", "no_answer"})) + CallOutcomes(from)["confirmed"]
              = Count(Finished(from, Now))
<1>1. PICK D, ok, ko, out, answered, finished :
        /\ D = DialsIn(from, Now) /\ ok = EndedWith(D, {"confirmed"}) /\ ko = EndedWith(D, {"failed"})
        /\ out = EndedWith(D, {"failed", "no_answer"}) /\ answered = EndedWith(D, AnsweredEndings)
        /\ finished = Finished(from, Now)
  OBVIOUS
<1>2. /\ answered \in SUBSET AllCalls /\ answered = ok \cup ko /\ ok \cap ko = {}
      /\ finished \in SUBSET AllCalls /\ finished = out \cup ok /\ out \cap ok = {}
  BY <1>1 DEF EndedWith, DialsIn, Finished, AnsweredEndings, CallEndings
<1>3. IsFiniteSet(answered) /\ IsFiniteSet(finished)
  BY <1>2, ShopCounts
<1>4. Count(answered) = Count(ok) + Count(ko)
  BY <1>2, <1>3, CountSplits
<1>5. Count(finished) = Count(out) + Count(ok)
  BY <1>2, <1>3, CountSplits
<1>6. CallOutcomes(from)["confirmed"] = Count(ok) /\ CallOutcomes(from)["failed"] = Count(ko)
  BY <1>1, NothingIsLater DEF CallOutcomes, CallEndings
<1> QED BY <1>1, <1>4, <1>5, <1>6

(* Two windows that adjoin count what the whole counts. *)
LEMMA WindowsAdjoin ==
  ASSUME ShopInv, NEW a \in Int, NEW b \in Int, NEW c \in Int, a <= b, b <= c
  PROVE  \A k \in {"orders", "confirmed", "cancelled", "finished", "answered", "confirming"} :
           WindowTotals(a, c)[k] = WindowTotals(b, c)[k] + WindowTotals(a, b)[k]
<1>1. ASSUME NEW t \in Nat PROVE /\ In(t, a, c) <=> (In(t, a, b) \/ In(t, b, c))
                                /\ ~(In(t, a, b) /\ In(t, b, c))
  BY DEF In
<1>2. /\ SalesIn(a, c) = SalesIn(b, c) \cup SalesIn(a, b) /\ SalesIn(b, c) \cap SalesIn(a, b) = {}
      /\ SalesIn(a, c) \in SUBSET ShopOrders
  BY <1>1, SaleIsPast DEF SalesIn
<1>3. /\ DialsIn(a, c) = DialsIn(b, c) \cup DialsIn(a, b) /\ DialsIn(b, c) \cap DialsIn(a, b) = {}
      /\ DialsIn(a, c) \in SUBSET AllCalls
  BY <1>1, CallIsPast DEF DialsIn
<1>4. ASSUME NEW s
      PROVE  Count(WithStatus(SalesIn(a, c), s))
               = Count(WithStatus(SalesIn(b, c), s)) + Count(WithStatus(SalesIn(a, b), s))
  <2>1. PICK S, A, B : /\ S = WithStatus(SalesIn(a, c), s) /\ A = WithStatus(SalesIn(b, c), s)
                       /\ B = WithStatus(SalesIn(a, b), s)
    OBVIOUS
  <2>2. S \in SUBSET ShopOrders /\ S = A \cup B /\ A \cap B = {}
    BY <1>2, <2>1 DEF WithStatus
  <2>3. IsFiniteSet(S)
    BY <2>2, ShopCounts
  <2>4. Count(S) = Count(A) + Count(B)
    BY <2>2, <2>3, CountSplits
  <2> QED BY <2>1, <2>4
<1>5. ASSUME NEW T
      PROVE  Count(EndedWith(DialsIn(a, c), T))
               = Count(EndedWith(DialsIn(b, c), T)) + Count(EndedWith(DialsIn(a, b), T))
  <2>1. PICK S, A, B : /\ S = EndedWith(DialsIn(a, c), T) /\ A = EndedWith(DialsIn(b, c), T)
                       /\ B = EndedWith(DialsIn(a, b), T)
    OBVIOUS
  <2>2. S \in SUBSET AllCalls /\ S = A \cup B /\ A \cap B = {}
    BY <1>3, <2>1 DEF EndedWith
  <2>3. IsFiniteSet(S)
    BY <2>2, ShopCounts
  <2>4. Count(S) = Count(A) + Count(B)
    BY <2>2, <2>3, CountSplits
  <2> QED BY <2>1, <2>4
<1>6. Count(SalesIn(a, c)) = Count(SalesIn(b, c)) + Count(SalesIn(a, b))
  <2>1. PICK S, A, B : S = SalesIn(a, c) /\ A = SalesIn(b, c) /\ B = SalesIn(a, b)
    OBVIOUS
  <2>2. S \in SUBSET ShopOrders /\ S = A \cup B /\ A \cap B = {}
    BY <1>2, <2>1
  <2>3. IsFiniteSet(S)
    BY <2>2, ShopCounts
  <2>4. Count(S) = Count(A) + Count(B)
    BY <2>2, <2>3, CountSplits
  <2> QED BY <2>1, <2>4
<1>7. PICK S, A, B :
        /\ S = {x \in EndedWith(AllCalls, {"confirmed"}) : x[1] \in SalesIn(a, c)}
        /\ A = {x \in EndedWith(AllCalls, {"confirmed"}) : x[1] \in SalesIn(b, c)}
        /\ B = {x \in EndedWith(AllCalls, {"confirmed"}) : x[1] \in SalesIn(a, b)}
  OBVIOUS
<1>8. Count(S) = Count(A) + Count(B)
  <2>1. S \in SUBSET AllCalls /\ S = A \cup B /\ A \cap B = {}
    BY <1>2, <1>7 DEF EndedWith
  <2> QED BY <2>1, ShopCounts, CountSplits
<1>9. PICK w, v, u : w = WindowTotals(a, c) /\ v = WindowTotals(b, c) /\ u = WindowTotals(a, b)
  OBVIOUS
<1>10. w["orders"] = v["orders"] + u["orders"]
  BY <1>6, <1>9 DEF WindowTotals
<1>11. w["confirmed"] = v["confirmed"] + u["confirmed"] /\ w["cancelled"] = v["cancelled"] + u["cancelled"]
  BY <1>4, <1>9 DEF WindowTotals
<1>12. w["finished"] = v["finished"] + u["finished"] /\ w["answered"] = v["answered"] + u["answered"]
  BY <1>5, <1>9 DEF WindowTotals, Finished
<1>13. w["confirming"] = v["confirming"] + u["confirming"]
  BY <1>7, <1>8, <1>9 DEF WindowTotals
<1> QED BY <1>9, <1>10, <1>11, <1>12, <1>13

(* The first midnight of the last n local days lies inside the rolling window. *)
LEMMA MidnightIsLater ==
  ASSUME NEW t \in Nat, NEW n \in Nat
  PROVE  /\ Day * (DayOf(t) - (n - 1)) >= t + 1 - n * Day
         /\ Day * (DayOf(t) - (n - 1)) \in Int /\ t + 1 - n * Day \in Int
         /\ DayOf(t) \in Int /\ n - 1 \in Int
<1>1. 2 * (t \div 2 - (n - 1)) >= t + 1 - n * 2 /\ t \div 2 \in Int
  BY SMT
<1> QED BY <1>1 DEF Day, DayOf

(* A moment is on one of the last n days when it is after their first midnight and not to come. *)
LEMMA OnLocalDays ==
  ASSUME NEW t \in Nat, NEW now \in Nat, t <= now, NEW n \in Nat
  PROVE  /\ DayOf(t) \in DayOf(now) - (n - 1) .. DayOf(now) <=> Day * (DayOf(now) - (n - 1)) <= t
         /\ t < now + 1
<1>1. PICK a, b : a = t \div 2 /\ b = now \div 2
  OBVIOUS
<1>2. /\ a \in Int /\ b \in Int /\ a <= b
      /\ 2 * a <= t /\ t < 2 * a + 2
  BY <1>1, SMT
<1>3. a \in b - (n - 1) .. b <=> 2 * (b - (n - 1)) <= t
  BY <1>2, SMT
<1> QED BY <1>1, <1>3 DEF Day, DayOf

LEMMA LocalDaysAreFew ==
  ASSUME ShopInv, NEW n \in Nat, NEW S, S = LocalDays(n)
  PROVE  IsFiniteSet(S)
<1>1. clock \in Nat
  BY MomentsAreInts DEF ShopInv
<1>2. PICK a, b : a = DayOf(clock) - (n - 1) /\ b = DayOf(clock)
  OBVIOUS
<1>3. a \in Int /\ b \in Int
  BY <1>1, <1>2, MidnightIsLater
<1>4. S = a .. b
  BY <1>2 DEF LocalDays
<1> QED BY <1>3, <1>4, RangesAreFinite

(* The chart of the daily outcomes counts the orders since its first midnight. *)
LEMMA DaysAddUp ==
  ASSUME ShopInv, NEW n \in Nat, NEW f, f = DailyOutcomes(n), NEW s \in SaleStatus \ {"unreachable"}
  PROVE  SumFunction([d \in DOMAIN f |-> f[d][s]])
           = Count(WithStatus(SalesIn(Day * (DayOf(clock) - (n - 1)), Now), s))
<1>1. PICK A, K, S : /\ A = WithStatus(SalesIn(Day * (DayOf(clock) - (n - 1)), Now), s)
                     /\ K = [o \in ShopOrders |-> DayOf(sales[o].at)] /\ S = LocalDays(n)
  OBVIOUS
<1>2. clock \in Nat
  BY MomentsAreInts DEF ShopInv
<1>3. ASSUME NEW o \in ShopOrders, Known(o)
      PROVE  DayOf(sales[o].at) \in S <=> In(sales[o].at, Day * (DayOf(clock) - (n - 1)), Now)
  <2>1. PICK t \in Nat : t = sales[o].at /\ t <= clock
    BY <1>3, SaleIsPast
  <2>2. DayOf(t) \in S <=> Day * (DayOf(clock) - (n - 1)) <= t
    BY <1>1, <1>2, <2>1, OnLocalDays DEF LocalDays
  <2>3. t < Now
    BY <1>2, <2>1 DEF Now
  <2> QED BY <2>1, <2>2, <2>3 DEF In
<1>4. A \in SUBSET ShopOrders /\ \A o \in A : K[o] \in S
  BY <1>1, <1>3 DEF WithStatus, SalesIn
<1>5. IsFiniteSet(A)
  BY <1>4, ShopCounts
<1>6. IsFiniteSet(S)
  BY <1>1, LocalDaysAreFew
<1>7. DOMAIN f = S
  BY <1>1 DEF DailyOutcomes
<1>8. ASSUME NEW d \in S PROVE f[d][s] = Count(Keyed(A, K, d))
  <2>1. PICK here : here = WithStatus({o \in ShopOrders : Known(o) /\ DayOf(sales[o].at) = d}, s)
    OBVIOUS
  <2>2. here = Keyed(A, K, d)
    BY <1>1, <1>3, <1>8, <2>1 DEF WithStatus, SalesIn, Keyed
  <2>3. f[d][s] = Count(here)
    BY <1>1, <1>8, <2>1 DEF DailyOutcomes
  <2> QED BY <2>2, <2>3
<1>9. PICK N : N = [d \in S |-> f[d][s]]
  OBVIOUS
<1>10. \A d \in S : N[d] = Count(Keyed(A, K, d))
  BY <1>8, <1>9
<1>11. SumFunctionOnSet(N, S) = Count(A)
  BY <1>4, <1>5, <1>6, <1>10, CountByKey
<1> QED BY <1>1, <1>7, <1>9, <1>11 DEF SumFunction

LEMMA WeekAddsUp ==
  ASSUME ShopInv
  PROVE  SumFunction(Week7) = Count(EndedWith(DialsIn(Day * (DayOf(clock) - (7 - 1)), Now), {"confirmed"}))
<1>1. PICK A, K, S, f : /\ A = EndedWith(DialsIn(Day * (DayOf(clock) - (7 - 1)), Now), {"confirmed"})
                     /\ K = [c \in AllCalls |-> DayOf(TheCall(c).at)] /\ S = LocalDays(7) /\ f = Week7
  OBVIOUS
<1>2. clock \in Nat /\ 7 \in Nat
  BY MomentsAreInts DEF ShopInv
<1>3. ASSUME NEW c \in AllCalls
      PROVE  DayOf(TheCall(c).at) \in S <=> In(TheCall(c).at, Day * (DayOf(clock) - (7 - 1)), Now)
  <2>1. PICK t \in Nat : t = TheCall(c).at /\ t <= clock
    BY <1>3, CallIsPast
  <2>2. DayOf(t) \in S <=> Day * (DayOf(clock) - (7 - 1)) <= t
    BY <1>1, <1>2, <2>1, OnLocalDays DEF LocalDays
  <2>3. t < Now
    BY <1>2, <2>1 DEF Now
  <2> QED BY <2>1, <2>2, <2>3 DEF In
<1>4. A \in SUBSET AllCalls /\ \A c \in A : K[c] \in S
  BY <1>1, <1>3 DEF EndedWith, DialsIn
<1>5. IsFiniteSet(A)
  BY <1>4, ShopCounts
<1>6. IsFiniteSet(S)
  BY <1>1, <1>2, LocalDaysAreFew
<1>7. DOMAIN f = S
  BY <1>1 DEF Week7
<1>8. ASSUME NEW d \in S PROVE f[d] = Count(Keyed(A, K, d))
  <2>1. PICK here : here = {c \in EndedWith(AllCalls, {"confirmed"}) : DayOf(TheCall(c).at) = d}
    OBVIOUS
  <2>2. here = Keyed(A, K, d)
    BY <1>1, <1>3, <1>8, <2>1 DEF EndedWith, DialsIn, Keyed
  <2>3. f[d] = Count(here)
    BY <1>1, <1>8, <2>1 DEF Week7
  <2> QED BY <2>2, <2>3
<1>9. \A d \in S : f[d] = Count(Keyed(A, K, d))
  BY <1>8
<1>10. SumFunctionOnSet(f, S) = Count(A)
  BY <1>4, <1>5, <1>6, <1>9, CountByKey
<1> QED BY <1>1, <1>7, <1>10 DEF SumFunction

(* What is pending on the daily chart is shown as pending by the report. *)
LEMMA PendingIsShown ==
  ASSUME ShopInv, NEW n \in Nat
  PROVE  Count(WithStatus(SalesIn(Day * (DayOf(clock) - (n - 1)), Now), "pending"))
           <= PendingShown(WindowTotals(Since(n), Now))
<1>1. PICK W, ok, ko, rest, open, half, mid :
        /\ W = SalesIn(Since(n), Now) /\ ok = WithStatus(W, "confirmed") /\ ko = WithStatus(W, "cancelled")
        /\ half = ok \cup ko /\ rest = W \ half
        /\ mid = Day * (DayOf(clock) - (n - 1))
        /\ open = WithStatus(SalesIn(mid, Now), "pending")
  OBVIOUS
<1>2. clock \in Nat
  BY MomentsAreInts DEF ShopInv
<1>3. Since(n) \in Int /\ mid \in Int /\ Since(n) <= mid
  <2>1. PICK b : b = clock + 1 - n * Day
    OBVIOUS
  <2>2. Since(n) = b
    BY <1>2, <2>1 DEF Since, Now, Day
  <2>3. PICK m : m = Day * (DayOf(clock) - (n - 1))
    OBVIOUS
  <2>4. m >= b /\ m \in Int /\ b \in Int
    BY <1>2, <2>1, <2>3, MidnightIsLater
  <2> QED BY <1>1, <2>2, <2>3, <2>4
<1>4. ASSUME NEW o \in ShopOrders, Known(o), In(sales[o].at, mid, Now) PROVE In(sales[o].at, Since(n), Now)
  BY <1>2, <1>3, <1>4, SaleIsPast DEF In
<1>5. W \in SUBSET ShopOrders /\ half \in SUBSET ShopOrders
  BY <1>1 DEF SalesIn, WithStatus
<1>6. open \subseteq rest /\ rest \subseteq ShopOrders
  BY <1>1, <1>4, <1>5 DEF SalesIn, WithStatus
<1>7. W = rest \cup half /\ rest \cap half = {} /\ ok \cap ko = {}
  BY <1>1 DEF WithStatus
<1>8. IsFiniteSet(W) /\ IsFiniteSet(half) /\ IsFiniteSet(rest)
  BY <1>5, <1>6, ShopCounts
<1>9. Count(W) = Count(rest) + Count(half) /\ Count(rest) \in Nat /\ Count(half) \in Nat
  BY <1>7, <1>8, CountSplits
<1>10. Count(half) = Count(ok) + Count(ko) /\ Count(ok) \in Nat /\ Count(ko) \in Nat
  <2>1. half = ok \cup ko /\ ok \cap ko = {} /\ IsFiniteSet(half)
    BY <1>1, <1>7, <1>8
  <2> QED BY <2>1, CountSplits
<1>11. Count(open) <= Count(rest) /\ Count(open) \in Nat
  BY <1>6, <1>8, CountOfPart
<1>12. PICK w : w = WindowTotals(Since(n), Now)
  OBVIOUS
<1>13. w.orders = Count(W) /\ w.confirmed = Count(ok) /\ w.cancelled = Count(ko)
  BY <1>1, <1>12 DEF WindowTotals
<1>14. PendingShown(w) = Count(W) - Count(ok) - Count(ko)
  BY <1>13 DEF PendingShown
<1>15. Count(W) - Count(ok) - Count(ko) = Count(rest)
  BY <1>9, <1>10
<1> QED BY <1>1, <1>11, <1>12, <1>14, <1>15

(* The list of calls counts by status what it lists. *)
LEMMA ListAddsUp ==
  ASSUME ShopInv, NEW from
  PROVE  SumFunction(CallOutcomes(from)) = Count(DialsIn(from, Never))
<1>1. PICK A, K, S, f : /\ A = DialsIn(from, Never) /\ K = [c \in AllCalls |-> TheCall(c).status]
                        /\ S = CallEndings \cup {"pending"} /\ f = CallOutcomes(from)
  OBVIOUS
<1>2. A \in SUBSET AllCalls
  BY <1>1 DEF DialsIn
<1>3. IsFiniteSet(A)
  BY <1>2, ShopCounts
<1>4. \A c \in A : K[c] \in S
  BY <1>1, <1>2, CallIsPast
<1>5. IsFiniteSet(S)
  <2>1. S = {"confirmed", "failed", "no_answer", "pending"}
    BY <1>1 DEF CallEndings
  <2>2. IsFiniteSet({"confirmed"}) /\ IsFiniteSet({"failed"}) /\ IsFiniteSet({"no_answer"})
        /\ IsFiniteSet({"pending"})
    BY FS_Singleton
  <2>3. IsFiniteSet({"confirmed"} \cup {"failed"}) /\ IsFiniteSet({"no_answer"} \cup {"pending"})
    BY <2>2, FS_Union
  <2>4. IsFiniteSet(({"confirmed"} \cup {"failed"}) \cup ({"no_answer"} \cup {"pending"}))
    BY <2>3, FS_Union
  <2>5. S = ({"confirmed"} \cup {"failed"}) \cup ({"no_answer"} \cup {"pending"})
    BY <2>1
  <2> QED BY <2>4, <2>5
<1>6. \A s \in S : EndedWith(A, {s}) = Keyed(A, K, s)
  BY <1>1, <1>2 DEF EndedWith, Keyed
<1>7. DOMAIN f = S /\ \A s \in S : f[s] = Count(EndedWith(A, {s}))
  BY <1>1 DEF CallOutcomes
<1>8. \A s \in S : f[s] = Count(Keyed(A, K, s))
  BY <1>6, <1>7
<1>9. SumFunctionOnSet(f, S) = Count(A)
  BY <1>2, <1>3, <1>4, <1>5, <1>8, CountByKey
<1> QED BY <1>1, <1>7, <1>9 DEF SumFunction

(* Today's calls were made in this month. *)
LEMMA TodayIsThisMonth ==
  ASSUME ShopInv
  PROVE  Count(DialsIn(Day * DayOf(clock), Never)) <= UsedThisMonth
<1>1. clock \in Nat
  BY MomentsAreInts DEF ShopInv
<1>2. PICK a, b : a = 2 * (clock \div 2) /\ b = clock - (clock % 60)
  OBVIOUS
<1>3. a \in Int /\ b \in Int /\ b <= a
  <2>1. 2 * (clock \div 2) >= clock - (clock % 60) /\ clock \div 2 \in Int /\ clock % 60 \in Int
    BY <1>1, SMT
  <2> QED BY <1>1, <1>2, <2>1
<1>4. Day * DayOf(clock) = a /\ clock - (clock % (30 * Day)) = b
  BY <1>2 DEF Day, DayOf
<1>5. DialsIn(a, Never) \subseteq DialsIn(b, Never)
  BY <1>3, CallIsPast DEF DialsIn, In
<1>6. IsFiniteSet(DialsIn(b, Never))
  BY ShopCounts DEF DialsIn
<1>7. Count(DialsIn(a, Never)) <= Count(DialsIn(b, Never))
  BY <1>5, <1>6, CountOfPart
<1> QED BY <1>4, <1>7 DEF UsedThisMonth

LEMMA ReportTells ==
  ASSUME ShopInv, NEW days \in {7, 30}
  PROVE  LET r == Report(days)
             out == CallOutcomes(Since(days))
             both == WindowTotals(Since(2 * days), Now)
             sum(f, k) == SumFunction([d \in DOMAIN f |-> f[d][k]])
         IN  /\ \A f \in {ByHour(Since(days)), ByAttempt(Since(days))} :
                    sum(f, "calls") = r.value.finished /\ sum(f, "confirmed") = out["confirmed"]
             /\ sum(ByHour(Since(days)), "answered") = r.value.answered
             /\ r.value.answered = out["confirmed"] + out["failed"]
             /\ sum(ByWeekday(Since(days)), "orders") = r.value.orders
             /\ sum(ByWeekday(Since(days)), "confirmed") = r.value.confirmed
             /\ \A k \in DOMAIN both : both[k] = r.value[k] + r.previous[k]
             /\ \A s \in {"confirmed", "cancelled"} :
                  sum(DailyOutcomes(days), s)
                    = Count(WithStatus(SalesIn(Day * (DayOf(clock) - (days - 1)), Now), s))
             /\ sum(DailyOutcomes(days), "pending") <= PendingShown(r.value)
<1>1. PICK from, prev : from = Since(days) /\ prev = Since(days) - days * Day
  OBVIOUS
<1>2. PICK v, u, out : v = WindowTotals(from, Now) /\ u = WindowTotals(prev, from) /\ out = CallOutcomes(from)
  OBVIOUS
<1>3. Report(days).value = v /\ Report(days).previous = u
  BY <1>1, <1>2 DEF Report
<1>4. /\ v.orders = Count(SalesIn(from, Now)) /\ v.confirmed = Count(WithStatus(SalesIn(from, Now), "confirmed"))
      /\ v.finished = Count(Finished(from, Now))
      /\ v.answered = Count(EndedWith(DialsIn(from, Now), AnsweredEndings))
  BY <1>2 DEF WindowTotals
<1>5. /\ \A f \in {ByHour(from), ByAttempt(from)} :
            /\ SumFunction([d \in DOMAIN f |-> f[d]["calls"]]) = v.finished
            /\ SumFunction([d \in DOMAIN f |-> f[d]["confirmed"]]) = out["confirmed"]
      /\ SumFunction([d \in DOMAIN ByHour(from) |-> ByHour(from)[d]["answered"]]) = v.answered
  BY <1>2, <1>4, HoursAddUp, AttemptsAddUp, OutcomesAdd
<1>6. v.answered = out["confirmed"] + out["failed"]
  BY <1>2, <1>4, OutcomesAdd
<1>7. PICK f : f = ByWeekday(from)
  OBVIOUS
<1>8. /\ SumFunction([d \in DOMAIN f |-> f[d]["orders"]]) = v.orders
      /\ SumFunction([d \in DOMAIN f |-> f[d]["confirmed"]]) = v.confirmed
  BY <1>4, <1>7, WeekdaysAddUp
<1>9. PICK both : both = WindowTotals(Since(2 * days), Now)
  OBVIOUS
<1>10. /\ Since(2 * days) = prev /\ prev \in Int /\ from \in Int /\ Now \in Int
       /\ prev <= from /\ from <= Now
  <2>1. clock \in Nat
    BY MomentsAreInts DEF ShopInv
  <2> QED BY <1>1, <2>1 DEF Since, Now, Day
<1>11. \A k \in DOMAIN both : both[k] = v[k] + u[k]
  <2>1. DOMAIN both = {"orders", "confirmed", "cancelled", "finished", "answered", "confirming"}
    BY <1>9 DEF WindowTotals
  <2> QED BY <1>2, <1>9, <1>10, <2>1, WindowsAdjoin
<1>12. PICK g, mid : g = DailyOutcomes(days) /\ mid = Day * (DayOf(clock) - (days - 1))
  OBVIOUS
<1>13. days \in Nat
  OBVIOUS
<1>14. \A s \in SaleStatus \ {"unreachable"} :
          SumFunction([d \in DOMAIN g |-> g[d][s]]) = Count(WithStatus(SalesIn(mid, Now), s))
  BY <1>12, <1>13, DaysAddUp
<1>15. "confirmed" \in SaleStatus \ {"unreachable"} /\ "cancelled" \in SaleStatus \ {"unreachable"}
       /\ "pending" \in SaleStatus \ {"unreachable"}
  BY DEF SaleStatus
<1>16. \A s \in {"confirmed", "cancelled"} :
          SumFunction([d \in DOMAIN g |-> g[d][s]]) = Count(WithStatus(SalesIn(mid, Now), s))
  BY <1>14, <1>15
<1>17. SumFunction([d \in DOMAIN g |-> g[d]["pending"]]) <= PendingShown(v)
  <2>1. SumFunction([d \in DOMAIN g |-> g[d]["pending"]]) = Count(WithStatus(SalesIn(mid, Now), "pending"))
    BY <1>14, <1>15
  <2>2. Count(WithStatus(SalesIn(mid, Now), "pending")) <= PendingShown(v)
    BY <1>1, <1>2, <1>12, <1>13, PendingIsShown
  <2> QED BY <2>1, <2>2
<1> QED BY <1>1, <1>2, <1>3, <1>5, <1>6, <1>7, <1>8, <1>9, <1>11, <1>12, <1>16, <1>17, Zenon

LEMMA SummaryTells ==
  ASSUME ShopInv
  PROVE  LET r == Report(30)
         IN  /\ Summary.value.total = r.value.orders /\ Summary.previous.total = r.previous.orders
             /\ Summary.value.cancelled = r.value.cancelled
             /\ Summary.value.failed + CallOutcomes(Since(30))["confirmed"] = r.value.finished
<1>1. PICK a, b, s : a = Since(30) /\ b = Since(60) /\ s = Summary
  OBVIOUS
<1>2. b = a - 30 * Day
  <2>1. clock \in Nat
    BY MomentsAreInts DEF ShopInv
  <2> QED BY <1>1, <2>1 DEF Since, Now, Day
<1>3. PICK v, u : v = WindowTotals(a, Now) /\ u = WindowTotals(b, a)
  OBVIOUS
<1>4. Report(30).value = v /\ Report(30).previous = u
  BY <1>1, <1>2, <1>3 DEF Report
<1>5. s.value = Stats(a, Never) /\ s.previous = Stats(b, a)
  BY <1>1 DEF Summary
<1>6. /\ v.orders = Count(SalesIn(a, Now)) /\ v.cancelled = Count(WithStatus(SalesIn(a, Now), "cancelled"))
      /\ v.finished = Count(Finished(a, Now)) /\ u.orders = Count(SalesIn(b, a))
  BY <1>3 DEF WindowTotals
<1>7. /\ s.value.total = Count(SalesIn(a, Never)) /\ s.previous.total = Count(SalesIn(b, a))
      /\ s.value.cancelled = Count(WithStatus(SalesIn(a, Never), "cancelled"))
      /\ s.value.failed = Count(EndedWith(DialsIn(a, Never), {"failed", "no_answer"}))
  BY <1>5 DEF Stats
<1>8. s.value.failed + CallOutcomes(a)["confirmed"] = v.finished
  BY <1>6, <1>7, NothingIsLater, OutcomesAdd
<1>9. s.value.total = v.orders /\ s.value.cancelled = v.cancelled /\ s.previous.total = u.orders
  BY <1>6, <1>7, NothingIsLater
<1> QED BY <1>1, <1>4, <1>8, <1>9

LEMMA ListTells ==
  ASSUME ShopInv
  PROVE  /\ \A range \in {"today", "7d", "30d", "all"} :
              LET listed == Listing(range, "")
              IN  /\ listed.total = listed.all
                  /\ \A s \in CallEndings \cup {"pending"} : Listing(range, s).total = listed.counts[s]
         /\ Listing("today", "").total <= UsedThisMonth
<1>1. ASSUME NEW range PROVE Listing(range, "").total = Count(DialsIn(RangeStart(range), Never))
  BY DEF Listing
<1>2. ASSUME NEW range
      PROVE  /\ Listing(range, "").total = Listing(range, "").all
             /\ \A s \in CallEndings \cup {"pending"} : Listing(range, s).total = Listing(range, "").counts[s]
  <2>1. PICK from, list, counts : from = RangeStart(range) /\ list = Listing(range, "") /\ counts = CallOutcomes(from)
    OBVIOUS
  <2>2. list.counts = counts /\ list.all = SumFunction(counts) /\ list.total = Count(DialsIn(from, Never))
    BY <2>1 DEF Listing
  <2>3. list.total = list.all
    BY <2>1, <2>2, ListAddsUp
  <2>4. ASSUME NEW s \in CallEndings \cup {"pending"} PROVE Listing(range, s).total = list.counts[s]
    <3>1. s # ""
      BY DEF CallEndings
    <3>2. Listing(range, s).total = Count(EndedWith(DialsIn(from, Never), {s}))
      BY <2>1, <3>1 DEF Listing
    <3>3. counts[s] = Count(EndedWith(DialsIn(from, Never), {s}))
      BY <2>1 DEF CallOutcomes
    <3> QED BY <2>2, <3>2, <3>3
  <2> QED BY <2>1, <2>3, <2>4
<1>3. RangeStart("today") = Day * DayOf(clock)
  BY DEF RangeStart
<1>4. Listing("today", "").total <= UsedThisMonth
  BY <1>1, <1>3, TodayIsThisMonth
<1> QED BY <1>2, <1>4

LEMMA ShopFiguresTell == ShopInv => FiguresTell
<1> SUFFICES ASSUME ShopInv PROVE FiguresTell
  OBVIOUS
<1> QED BY ReportTells, SummaryTells, WeekAddsUp, ListTells, Zenon DEF FiguresTell

(***************************************************************************)
(* The figures of a shop agree at every moment of every history of its       *)
(* orders and calls, for any number of orders, attempts and moments: reports, *)
(* dashboard, week's chart and call list count the same rows.                *)
(***************************************************************************)
THEOREM ShopFiguresAlwaysAgree == ShopFiguresSpec => []ShopFiguresAgree
<1>1. ShopInv => ShopFiguresAgree
  BY ShopFiguresTell DEF ShopFiguresAgree
<1> QED BY <1>1, ShopFiguresTypes, PTL

(* The orders and the calls of a period, their shops and their days. *)
OrdersHere(p) ==
  {o \in OrderRows : placed[o] # NoOrder /\ placed[o].shop \in Customers /\ In(placed[o].at, p.from, p.to)}
CallsHere(a, b) ==
  {c \in Called : ShopOf(c) \in Customers /\ Over(c) /\ In(called[c].at, a, b)}
OrderShop == [o \in OrderRows |-> placed[o].shop]
OrderDay == [o \in OrderRows |-> DayOf(placed[o].at)]
CallShop == [c \in CallRows |-> ShopOf(c)]
CallDay == [c \in CallRows |-> DayOf(called[c].at)]
CallHour == [c \in CallRows |-> <<Weekday(called[c].at), called[c].at % Day>>]

(* A moment of a period is on one of its days. *)
LEMMA OnDays ==
  ASSUME NEW t \in Nat, NEW a \in Int, NEW b \in Int, a <= t, t < b
  PROVE  DayOf(t) \in DayOf(a) .. DayOf(b - 1)
<1>1. t \div 2 \in (a \div 2) .. ((b - 1) \div 2)
  BY SMT
<1> QED BY <1>1 DEF DayOf, Day

LEMMA DaysAreFew ==
  ASSUME NEW p, p.from \in Int, p.to \in Int, NEW S, S = Days(p)
  PROVE  IsFiniteSet(S) /\ DayOf(p.from) \in Int /\ DayOf(p.to - 1) \in Int
<1>1. PICK a, b : a = p.from \div 2 /\ b = (p.to - 1) \div 2
  OBVIOUS
<1>2. a \in Int /\ b \in Int
  BY <1>1, SMT
<1>3. DayOf(p.from) = a /\ DayOf(p.to - 1) = b /\ S = a .. b
  BY <1>1 DEF Days, DayOf, Day
<1>4. IsFiniteSet(S)
  BY <1>2, <1>3, RangesAreFinite
<1> QED BY <1>2, <1>3, <1>4

LEMMA HereIsFinite ==
  ASSUME NEW p, NEW a, NEW b
  PROVE  /\ OrdersHere(p) \subseteq OrderRows /\ CallsHere(a, b) \subseteq CallRows
         /\ IsFiniteSet(OrdersHere(p)) /\ IsFiniteSet(CallsHere(a, b))
         /\ \A T \in SUBSET OrdersHere(p) : IsFiniteSet(T)
         /\ \A T \in SUBSET CallsHere(a, b) : IsFiniteSet(T)
<1>1. OrdersHere(p) \subseteq OrderRows /\ CallsHere(a, b) \subseteq CallRows
  BY DEF OrdersHere, CallsHere, Called
<1>2. IsFiniteSet(OrderRows) /\ IsFiniteSet(CallRows)
  BY FiguresAssumption
<1>3. IsFiniteSet(OrdersHere(p)) /\ IsFiniteSet(CallsHere(a, b))
  BY <1>1, <1>2, FS_Subset
<1> QED BY <1>1, <1>3, FS_Subset

(* The orders and calls of a shop are those with its key. *)
LEMMA OfOneShop ==
  ASSUME FiguresTypeOK, NEW p, NEW a, NEW b, NEW m \in Customers
  PROVE  /\ OrdersIn(m, p.from, p.to) = Keyed(OrdersHere(p), OrderShop, m)
         /\ CallsIn(m, a, b) = Keyed(CallsHere(a, b), CallShop, m)
<1>1. OrdersIn(m, p.from, p.to) = Keyed(OrdersHere(p), OrderShop, m)
  BY DEF OrdersIn, OrdersOf, Keyed, OrdersHere, OrderShop
<1>2. CallsIn(m, a, b) = Keyed(CallsHere(a, b), CallShop, m)
  BY DEF CallsIn, CallsOf, Called, Keyed, CallsHere, CallShop
<1> QED BY <1>1, <1>2

(* The keys of the orders and calls are customers and days of the period. *)
LEMMA KeysOfOrders ==
  ASSUME FiguresTypeOK, NEW p, p.from \in Int, p.to \in Int, NEW o \in OrdersHere(p)
  PROVE  OrderShop[o] \in Customers /\ OrderDay[o] \in Days(p)
<1>1. /\ o \in OrderRows /\ placed[o] # NoOrder /\ placed[o].shop \in Customers
      /\ In(placed[o].at, p.from, p.to)
  BY DEF OrdersHere
<1>2. PICK t \in Nat : t = placed[o].at
  BY <1>1, OrderIsMade
<1>3. DayOf(t) \in Days(p)
  BY <1>1, <1>2, OnDays DEF In, Days
<1> QED BY <1>1, <1>2, <1>3 DEF OrderShop, OrderDay

LEMMA KeysOfCalls ==
  ASSUME FiguresTypeOK, NEW p, p.from \in Int, p.to \in Int, NEW c \in CallsHere(p.from, p.to)
  PROVE  CallShop[c] \in Customers /\ CallDay[c] \in Days(p)
<1>1. /\ c \in CallRows /\ called[c] # NoEntry /\ ShopOf(c) \in Customers
      /\ In(called[c].at, p.from, p.to)
  BY DEF CallsHere, Called
<1>2. PICK t \in Nat : t = called[c].at
  BY <1>1, CallIsMade
<1>3. DayOf(t) \in Days(p)
  BY <1>1, <1>2, OnDays DEF In, Days
<1> QED BY <1>1, <1>2, <1>3 DEF CallShop, CallDay

(* By day and by shop the orders and calls of a period are counted. *)
LEMMA CountByDay ==
  ASSUME NEW p, p.from \in Int, p.to \in Int, NEW A, IsFiniteSet(A), NEW K, \A x \in A : K[x] \in Days(p),
         NEW N, \A d \in Days(p) : N[d] = Count(Keyed(A, K, d))
  PROVE  SumFunctionOnSet(N, Days(p)) = Count(A)
<1>1. PICK S : S = Days(p)
  OBVIOUS
<1>2. IsFiniteSet(S)
  BY <1>1, DaysAreFew
<1>3. (\A x \in A : K[x] \in S) /\ \A d \in S : N[d] = Count(Keyed(A, K, d))
  BY <1>1
<1>4. SumFunctionOnSet(N, S) = Count(A)
  BY <1>2, <1>3, CountByKey
<1> QED BY <1>1, <1>4

LEMMA OrdersByShop ==
  ASSUME FiguresTypeOK, NEW p, p.from \in Int, p.to \in Int, NEW O \in SUBSET OrdersHere(p),
         NEW N, \A m \in Customers : N[m] = Count(Keyed(O, OrderShop, m))
  PROVE  SumFunctionOnSet(N, Customers) = Count(O)
<1>2. IsFiniteSet(Customers) /\ IsFiniteSet(O)
  BY CustomersAreMany, HereIsFinite
<1>3. \A o \in O : OrderShop[o] \in Customers
  BY KeysOfOrders
<1> QED BY <1>2, <1>3, CountByKey

LEMMA CallsByShop ==
  ASSUME FiguresTypeOK, NEW a, NEW b, NEW C \in SUBSET CallsHere(a, b),
         NEW N, \A m \in Customers : N[m] = Count(Keyed(C, CallShop, m))
  PROVE  SumFunctionOnSet(N, Customers) = Count(C)
<1>2. IsFiniteSet(Customers) /\ IsFiniteSet(C)
  BY CustomersAreMany, HereIsFinite
<1>3. \A c \in C : CallShop[c] \in Customers
  BY HereIsFinite DEF CallsHere, CallShop
<1> QED BY <1>2, <1>3, CountByKey

(* A day of the usage report. *)
LEMMA UsageOfADay ==
  ASSUME FiguresTypeOK, NEW p, NEW d \in Days(p)
  PROVE  /\ UsageDaily(p)[d].orders = Count(Keyed(OrdersHere(p), OrderDay, d))
         /\ UsageDaily(p)[d].calls = Count(Keyed(CallsHere(p.from, p.to), CallDay, d))
<1>1. {o \in OrdersHere(p) : DayOf(placed[o].at) = d} = Keyed(OrdersHere(p), OrderDay, d)
  BY HereIsFinite DEF Keyed, OrderDay
<1>2. {c \in CallsHere(p.from, p.to) : DayOf(called[c].at) = d} = Keyed(CallsHere(p.from, p.to), CallDay, d)
  BY HereIsFinite DEF Keyed, CallDay
<1>3. /\ UsageDaily(p)[d].orders = Count({o \in OrdersHere(p) : DayOf(placed[o].at) = d})
      /\ UsageDaily(p)[d].calls = Count({c \in CallsHere(p.from, p.to) : DayOf(called[c].at) = d})
  BY DEF UsageDaily, OrdersHere, CallsHere
<1> QED BY <1>1, <1>2, <1>3

(* The totals of a period, by shop. *)
LEMMA TotalsCount ==
  ASSUME FiguresTypeOK, NEW p, p.from \in Int, p.to \in Int
  PROVE  /\ UsageTotals(p).calls = Count(CallsHere(p.from, p.to))
         /\ UsageTotals(p).callsPrev = Count(CallsHere(p.prevFrom, p.prevTo))
         /\ UsageTotals(p).orders = Count(OrdersHere(p))
<1>1. PICK N, C, D : /\ N = [m \in Customers |-> Count(OrdersIn(m, p.from, p.to))]
                     /\ C = [m \in Customers |-> Count(CallsIn(m, p.from, p.to))]
                     /\ D = [m \in Customers |-> Count(CallsIn(m, p.prevFrom, p.prevTo))]
  OBVIOUS
<1>2. \A m \in Customers : N[m] = Count(Keyed(OrdersHere(p), OrderShop, m))
  BY <1>1, OfOneShop
<1>3. \A m \in Customers : C[m] = Count(Keyed(CallsHere(p.from, p.to), CallShop, m))
  BY <1>1, OfOneShop
<1>4. \A m \in Customers : D[m] = Count(Keyed(CallsHere(p.prevFrom, p.prevTo), CallShop, m))
  BY <1>1, OfOneShop
<1>5. SumFunctionOnSet(N, Customers) = Count(OrdersHere(p))
  BY <1>2, OrdersByShop
<1>6. SumFunctionOnSet(C, Customers) = Count(CallsHere(p.from, p.to))
  BY <1>3, CallsByShop
<1>7. SumFunctionOnSet(D, Customers) = Count(CallsHere(p.prevFrom, p.prevTo))
  BY <1>4, CallsByShop
<1> QED BY <1>1, <1>5, <1>6, <1>7 DEF UsageTotals, SumFunction

(* The quality report filters the calls itself, and parts them by outcome. *)
LEMMA QualityCounts ==
  ASSUME FiguresTypeOK, NEW a, NEW b
  PROVE  /\ Quality(a, b).calls = Count(CallsHere(a, b))
         /\ Quality(a, b).confirmed = Count(EndedAs(CallsHere(a, b), "confirmed"))
         /\ Quality(a, b).confirmed + Quality(a, b).refused + Quality(a, b).noAnswer = Quality(a, b).calls
<1>1. PICK calls : calls = CallsHere(a, b)
  OBVIOUS
<1>2. calls = {c \in Called : Over(c) /\ a <= called[c].at /\ called[c].at < b /\ ShopOf(c) \in Customers}
  BY <1>1 DEF CallsHere, In
<1>3. PICK x, y, z : x = EndedAs(calls, "confirmed") /\ y = EndedAs(calls, "failed") /\ z = EndedAs(calls, "no_answer")
  OBVIOUS
<1>4. /\ Quality(a, b).calls = Count(calls) /\ Quality(a, b).confirmed = Count(x)
      /\ Quality(a, b).refused = Count(y) /\ Quality(a, b).noAnswer = Count(z)
  BY <1>2, <1>3 DEF Quality
<1>5. ASSUME NEW c \in calls PROVE called[c].status \in CallEndings
  <2>1. c \in CallRows /\ called[c] # NoEntry /\ called[c].status # "pending"
    BY <1>2 DEF Called, Over
  <2> QED BY <2>1, OwnCall DEF CallEntry, CallStatus
<1>6. /\ calls = x \cup (y \cup z) /\ x \cap (y \cup z) = {} /\ y \cap z = {}
  BY <1>3, <1>5 DEF EndedAs, CallEndings
<1>7. IsFiniteSet(calls)
  BY <1>1, HereIsFinite
<1>8. PICK both : both = y \cup z
  OBVIOUS
<1>9. /\ Count(calls) = Count(x) + Count(both) /\ Count(x) \in Nat /\ Count(both) \in Nat
  BY <1>6, <1>7, <1>8, CountSplits
<1>10. IsFiniteSet(both)
  <2>1. both \in SUBSET calls
    BY <1>6, <1>8
  <2> QED BY <1>7, <2>1, FS_Subset
<1>11. Count(both) = Count(y) + Count(z) /\ Count(y) \in Nat /\ Count(z) \in Nat
  <2>1. both = y \cup z /\ y \cap z = {}
    BY <1>6, <1>8
  <2> QED BY <1>10, <2>1, CountSplits
<1>12. Count(x) + Count(y) + Count(z) = Count(calls)
  BY <1>9, <1>11
<1> QED BY <1>1, <1>3, <1>4, <1>12

(* The heatmap has an hour for each call, and counts it there. *)
LEMMA HeatmapCounts ==
  ASSUME FiguresTypeOK, NEW p
  PROVE  LET heat == Heatmap(p) IN
         /\ SumFunction([w \in DOMAIN heat |-> heat[w].calls]) = Count(CallsHere(p.from, p.to))
         /\ SumFunction([w \in DOMAIN heat |-> heat[w].confirmed])
              = Count(EndedAs(CallsHere(p.from, p.to), "confirmed"))
<1>1. PICK A, S, heat : /\ A = CallsHere(p.from, p.to) /\ heat = Heatmap(p)
                        /\ S = {CallHour[c] : c \in A}
  OBVIOUS
<1>2. \A c \in A : CallHour[c] = <<Weekday(called[c].at), called[c].at % Day>>
  BY <1>1, HereIsFinite DEF CallHour
<1>3. S = {<<Weekday(called[c].at), called[c].at % Day>> : c \in A}
  BY <1>1, <1>2
<1>4. heat = [w \in S |->
                LET here == {c \in A : <<Weekday(called[c].at), called[c].at % Day>> = w}
                IN  [calls |-> Count(here), confirmed |-> Count(EndedAs(here, "confirmed"))]]
  BY <1>1, <1>3 DEF Heatmap, CallsHere
<1>5. \A w \in S : {c \in A : <<Weekday(called[c].at), called[c].at % Day>> = w} = Keyed(A, CallHour, w)
  BY <1>2 DEF Keyed
<1>6. DOMAIN heat = S /\ \A w \in S : /\ heat[w].calls = Count(Keyed(A, CallHour, w))
                                      /\ heat[w].confirmed = Count(EndedAs(Keyed(A, CallHour, w), "confirmed"))
  BY <1>4, <1>5
<1>7. IsFiniteSet(A) /\ IsFiniteSet(S) /\ \A c \in A : CallHour[c] \in S
  <2>1. IsFiniteSet(A)
    BY <1>1, HereIsFinite
  <2>2. PICK F \in Surjection(A, S) : F = [c \in A |-> CallHour[c]]
    BY <1>1 DEF Surjection
  <2> QED BY <1>1, <2>1, <2>2, FS_Surjection
<1>8. PICK N, C, B : /\ N = [w \in S |-> heat[w].calls] /\ C = [w \in S |-> heat[w].confirmed]
                     /\ B = EndedAs(A, "confirmed")
  OBVIOUS
<1>9. SumFunctionOnSet(N, S) = Count(A)
  <2>1. \A w \in S : N[w] = Count(Keyed(A, CallHour, w))
    BY <1>6, <1>8
  <2> QED BY <1>7, <2>1, CountByKey
<1>10. SumFunctionOnSet(C, S) = Count(B)
  <2>1. \A w \in S : EndedAs(Keyed(A, CallHour, w), "confirmed") = Keyed(B, CallHour, w)
    BY <1>8 DEF EndedAs, Keyed
  <2>2. \A w \in S : C[w] = Count(Keyed(B, CallHour, w))
    BY <1>6, <1>8, <2>1
  <2>3. B \in SUBSET A
    BY <1>8 DEF EndedAs
  <2>4. IsFiniteSet(B) /\ \A c \in B : CallHour[c] \in S
    BY <1>7, <2>3, FS_Subset
  <2> QED BY <1>7, <2>2, <2>4, CountByKey
<1> QED BY <1>1, <1>6, <1>8, <1>9, <1>10 DEF SumFunction

(* A day's bar is the bars of the merchants. *)
LEMMA MerchantDaysAddUp ==
  ASSUME FiguresTypeOK, NEW p, p.from \in Int, p.to \in Int, NEW d \in Days(p)
  PROVE  /\ UsageDaily(p)[d].orders = SumFunction([m \in Customers |-> MerchantDaily(m, p)[d].orders])
         /\ UsageDaily(p)[d].calls = SumFunction([m \in Customers |-> MerchantDaily(m, p)[d].calls])
<1>1. PICK A, O, C : /\ A = CallsHere(p.from, p.to) /\ O = Keyed(OrdersHere(p), OrderDay, d)
                     /\ C = Keyed(A, CallDay, d)
  OBVIOUS
<1>2. O \in SUBSET OrdersHere(p) /\ C \in SUBSET A /\ A \subseteq CallRows /\ OrdersHere(p) \subseteq OrderRows
  BY <1>1, HereIsFinite DEF Keyed
<1>3. PICK N, K : /\ N = [m \in Customers |-> MerchantDaily(m, p)[d].orders]
                  /\ K = [m \in Customers |-> MerchantDaily(m, p)[d].calls]
  OBVIOUS
<1>4. ASSUME NEW m \in Customers PROVE N[m] = Count(Keyed(O, OrderShop, m))
  <2>1. {o \in OrdersIn(m, p.from, p.to) : DayOf(placed[o].at) = d} = Keyed(O, OrderShop, m)
    BY <1>1, <1>2, OfOneShop DEF Keyed, OrderDay
  <2>2. MerchantDaily(m, p)[d].orders = Count({o \in OrdersIn(m, p.from, p.to) : DayOf(placed[o].at) = d})
    BY DEF MerchantDaily
  <2> QED BY <1>3, <2>1, <2>2
<1>5. ASSUME NEW m \in Customers PROVE K[m] = Count(Keyed(C, CallShop, m))
  <2>1. PICK here : here = {c \in CallsOf(m) : In(called[c].at, p.from, p.to) /\ DayOf(called[c].at) = d}
    OBVIOUS
  <2>2. {c \in here : Over(c)} = Keyed(C, CallShop, m)
    BY <1>1, <1>2, <2>1 DEF CallsOf, Called, CallsHere, Keyed, CallDay, CallShop
  <2>3. MerchantDaily(m, p)[d].calls = Count({c \in here : Over(c)})
    BY <2>1 DEF MerchantDaily
  <2> QED BY <1>3, <2>2, <2>3
<1>6. SumFunctionOnSet(N, Customers) = Count(O)
  BY <1>2, <1>4, OrdersByShop
<1>7. SumFunctionOnSet(K, Customers) = Count(C)
  BY <1>1, <1>2, <1>5, CallsByShop
<1> QED BY <1>1, <1>3, <1>6, <1>7, UsageOfADay DEF SumFunction

LEMMA DaysOfReportsAddUp ==
  ASSUME FiguresTypeOK
  PROVE  DailyAddsUp
<1> SUFFICES ASSUME NEW p \in Asked
    PROVE  LET daily == UsageDaily(p)
               totals == UsageTotals(p)
               heat == Heatmap(p)
               quality == Quality(p.from, p.to)
               days == {DayOf(t) : t \in UNION {Activity(m) : m \in Customers}}
           IN  /\ SumFunction([d \in Days(p) |-> daily[d].calls]) = totals.calls
               /\ SumFunction([d \in Days(p) |-> daily[d].orders]) = totals.orders
               /\ quality.calls = totals.calls
               /\ quality.confirmed + quality.refused + quality.noAnswer = quality.calls
               /\ Quality(p.prevFrom, p.prevTo).calls = totals.callsPrev
               /\ SumFunction([w \in DOMAIN heat |-> heat[w].calls]) = totals.calls
               /\ SumFunction([w \in DOMAIN heat |-> heat[w].confirmed]) = quality.confirmed
               /\ \A d \in days \cap Days(p) :
                    /\ daily[d].orders = SumFunction([m \in Customers |-> MerchantDaily(m, p)[d].orders])
                    /\ daily[d].calls = SumFunction([m \in Customers |-> MerchantDaily(m, p)[d].calls])
  BY DEF DailyAddsUp
<1>1. p.from \in Int /\ p.to \in Int
  BY PeriodsEndLater DEF Asked
<1>2. PICK A : A = CallsHere(p.from, p.to)
  OBVIOUS
<1>3. /\ UsageTotals(p).calls = Count(A) /\ UsageTotals(p).orders = Count(OrdersHere(p))
      /\ UsageTotals(p).callsPrev = Count(CallsHere(p.prevFrom, p.prevTo))
  BY <1>1, <1>2, TotalsCount
<1>4. SumFunction([d \in Days(p) |-> UsageDaily(p)[d].calls]) = Count(A)
  <2>1. PICK N : N = [d \in Days(p) |-> UsageDaily(p)[d].calls]
    OBVIOUS
  <2>2. \A d \in Days(p) : N[d] = Count(Keyed(A, CallDay, d))
    BY <1>2, <2>1, UsageOfADay
  <2>3. IsFiniteSet(A) /\ \A c \in A : CallDay[c] \in Days(p)
    BY <1>1, <1>2, KeysOfCalls, HereIsFinite
  <2>4. SumFunctionOnSet(N, Days(p)) = Count(A)
    BY <1>1, <2>2, <2>3, CountByDay
  <2> QED BY <2>1, <2>4 DEF SumFunction
<1>5. SumFunction([d \in Days(p) |-> UsageDaily(p)[d].orders]) = Count(OrdersHere(p))
  <2>1. PICK N, O : N = [d \in Days(p) |-> UsageDaily(p)[d].orders] /\ O = OrdersHere(p)
    OBVIOUS
  <2>2. \A d \in Days(p) : N[d] = Count(Keyed(O, OrderDay, d))
    BY <2>1, UsageOfADay
  <2>3. IsFiniteSet(O) /\ \A o \in O : OrderDay[o] \in Days(p)
    BY <1>1, <2>1, KeysOfOrders, HereIsFinite
  <2>4. SumFunctionOnSet(N, Days(p)) = Count(O)
    BY <1>1, <2>2, <2>3, CountByDay
  <2> QED BY <2>1, <2>4 DEF SumFunction
<1>6. /\ Quality(p.from, p.to).calls = Count(A)
      /\ Quality(p.from, p.to).confirmed = Count(EndedAs(A, "confirmed"))
      /\ Quality(p.from, p.to).confirmed + Quality(p.from, p.to).refused + Quality(p.from, p.to).noAnswer
           = Quality(p.from, p.to).calls
      /\ Quality(p.prevFrom, p.prevTo).calls = Count(CallsHere(p.prevFrom, p.prevTo))
  BY <1>2, QualityCounts
<1>7. PICK heat : heat = Heatmap(p)
  OBVIOUS
<1>8. /\ SumFunction([w \in DOMAIN heat |-> heat[w].calls]) = Count(A)
      /\ SumFunction([w \in DOMAIN heat |-> heat[w].confirmed]) = Count(EndedAs(A, "confirmed"))
  BY <1>2, <1>7, HeatmapCounts
<1>9. \A d \in Days(p) :
        /\ UsageDaily(p)[d].orders = SumFunction([m \in Customers |-> MerchantDaily(m, p)[d].orders])
        /\ UsageDaily(p)[d].calls = SumFunction([m \in Customers |-> MerchantDaily(m, p)[d].calls])
  BY <1>1, MerchantDaysAddUp
<1> QED BY <1>3, <1>4, <1>5, <1>6, <1>7, <1>8, <1>9

-----------------------------------------------------------------------------
(* Money *)

(* What the customers pay and cost are numbers, and so is what remains. *)
LEMMA MoneyIsInt ==
  ASSUME FiguresTypeOK, NEW p, p.from \in Int, p.to \in Int, NEW m \in Customers
  PROVE  /\ RevenueIn(m, p.from, p.to) \in Nat /\ CostOf(m, p) \in Nat /\ Margin(m, p) \in Int
         /\ RevenueIn(m, p.from, p.to) = Margin(m, p) + CostOf(m, p)
         /\ owners[m].plan \in PlanOrNone
         /\ owners[m].plan \in {"free", "none"} => RevenueIn(m, p.from, p.to) = 0
<1>1. owners[m] \in ShopRow
  BY CustomersAreMany
<1>2. owners[m].plan \in PlanOrNone /\ owners[m].started \in Int /\ owners[m].churned \in Int
  BY <1>1, ShopFields, MomentsAreInts
<1>3. PICK price, time : /\ price = PriceOf(owners[m].plan)
                         /\ time = RunningIn(owners[m].started, owners[m].churned, p.from, p.to)
  OBVIOUS
<1>4. price \in Nat /\ time \in Nat
  BY <1>2, <1>3, PriceIsNat, RunningIsNat
<1>5. RevenueIn(m, p.from, p.to) = price * time
  BY <1>3 DEF RevenueIn
<1>6. price * time \in Nat
  BY <1>4
<1>7. owners[m].plan \in {"free", "none"} => price = 0
  BY <1>3 DEF PriceOf, Price, PlanCodes
<1>8. price = 0 => price * time = 0
  BY <1>4
<1>9. CostOf(m, p) \in Nat
  <2>1. PICK calls, lost : calls = CallsIn(m, p.from, p.to) /\ lost = calls \ EndedAs(calls, "no_answer")
    OBVIOUS
  <2>2. calls \subseteq CallRows /\ lost \subseteq CallRows
    BY <2>1 DEF CallsIn, CallsOf, Called
  <2>3. Count(calls) \in Nat /\ Count(lost) \in Nat
    BY <2>2, FiguresAssumption, CountOfPart
  <2>4. CostOf(m, p) = 5 * Count(calls) + 90 * Count(lost)
    BY <2>1 DEF CostOf, CallCost, MinuteCost
  <2> QED BY <2>3, <2>4
<1>10. PICK r, c : r = RevenueIn(m, p.from, p.to) /\ c = CostOf(m, p)
  OBVIOUS
<1>11. r \in Nat /\ c \in Nat /\ Margin(m, p) = r - c
  BY <1>5, <1>6, <1>9, <1>10 DEF Margin
<1>12. Margin(m, p) \in Int /\ r = Margin(m, p) + c
  BY <1>11
<1> QED BY <1>2, <1>5, <1>7, <1>8, <1>10, <1>11, <1>12

(* The figures of all shops in a period, by shop. *)
RevenueOf(p) == [m \in Customers |-> RevenueIn(m, p.from, p.to)]
CostsOf(p) == [m \in Customers |-> CostOf(m, p)]
MarginOf(p) == [m \in Customers |-> Margin(m, p)]

LEMMA PartOfMoney ==
  ASSUME FiguresTypeOK, NEW p, NEW S \in SUBSET Customers
  PROVE  /\ Revenue(S, p) = SumFunctionOnSet(RevenueOf(p), S) /\ Cost(S, p) = SumFunctionOnSet(CostsOf(p), S)
         /\ SumFunction([m \in S |-> Margin(m, p)]) = SumFunctionOnSet(MarginOf(p), S)
<1>1. IsFiniteSet(S)
  BY CustomersAreMany, FS_Subset
<1>2. PICK F, G, H : /\ F = [m \in S |-> RevenueIn(m, p.from, p.to)] /\ G = [m \in S |-> CostOf(m, p)]
                     /\ H = [m \in S |-> Margin(m, p)]
  OBVIOUS
<1>3. \A m \in S : F[m] = RevenueOf(p)[m]
  BY <1>2 DEF RevenueOf
<1>4. \A m \in S : G[m] = CostsOf(p)[m]
  BY <1>2 DEF CostsOf
<1>5. \A m \in S : H[m] = MarginOf(p)[m]
  BY <1>2 DEF MarginOf
<1>6. SumFunctionOnSet(F, S) = SumFunctionOnSet(RevenueOf(p), S)
  BY <1>1, <1>3, SumSame
<1>7. SumFunctionOnSet(G, S) = SumFunctionOnSet(CostsOf(p), S)
  BY <1>1, <1>4, SumSame
<1>8. SumFunctionOnSet(H, S) = SumFunctionOnSet(MarginOf(p), S)
  BY <1>1, <1>5, SumSame
<1> QED BY <1>2, <1>6, <1>7, <1>8 DEF Revenue, Cost, SumFunction

LEMMA MoneyAdds ==
  ASSUME FiguresTypeOK, NEW p, p.from \in Int, p.to \in Int
  PROVE  /\ SumFunctionOnSet(RevenueOf(p), Customers)
              = SumFunctionOnSet(MarginOf(p), Customers) + SumFunctionOnSet(CostsOf(p), Customers)
         /\ SumFunctionOnSet(MarginOf(p), Customers) \in Int /\ SumFunctionOnSet(CostsOf(p), Customers) \in Int
         /\ SumFunctionOnSet(RevenueOf(p), Customers) \in Int
<1>1. IsFiniteSet(Customers)
  BY CustomersAreMany
<1>2. \A m \in Customers : /\ MarginOf(p)[m] \in Int /\ CostsOf(p)[m] \in Int
                            /\ RevenueOf(p)[m] = MarginOf(p)[m] + CostsOf(p)[m]
  BY MoneyIsInt DEF MarginOf, CostsOf, RevenueOf
<1>3. (\A m \in Customers : MarginOf(p)[m] \in Int) /\ (\A m \in Customers : CostsOf(p)[m] \in Int)
  BY <1>2
<1>4. \A m \in Customers : RevenueOf(p)[m] \in Int
  BY MoneyIsInt DEF RevenueOf
<1>5. SumFunctionOnSet(RevenueOf(p), Customers)
        = SumFunctionOnSet(MarginOf(p), Customers) + SumFunctionOnSet(CostsOf(p), Customers)
  BY <1>1, <1>2, SumAdds
<1> QED BY <1>1, <1>3, <1>4, <1>5, SumIsInt

(* A few plans, one after the other. *)
LEMMA FewPlans ==
  /\ IsFiniteSet(PlanCodes) /\ IsFiniteSet(PlanOrNone)
  /\ IsFiniteSet({"starter", "growth", "pro"}) /\ IsFiniteSet({"growth", "pro"}) /\ IsFiniteSet({"pro"})
<1>1. /\ IsFiniteSet({"starter"}) /\ IsFiniteSet({"growth"}) /\ IsFiniteSet({"pro"})
      /\ IsFiniteSet({"free"}) /\ IsFiniteSet({"none"})
  BY FS_Singleton
<1>2. IsFiniteSet({"growth"} \cup {"pro"}) /\ {"growth", "pro"} = {"growth"} \cup {"pro"}
  BY <1>1, FS_Union
<1>3. IsFiniteSet({"starter"} \cup {"growth", "pro"}) /\ {"starter", "growth", "pro"} = {"starter"} \cup {"growth", "pro"}
  BY <1>1, <1>2, FS_Union
<1>4. IsFiniteSet({"free"} \cup {"starter", "growth", "pro"}) /\ PlanCodes = {"free"} \cup {"starter", "growth", "pro"}
  BY <1>1, <1>3, FS_Union DEF PlanCodes
<1>5. IsFiniteSet(PlanCodes \cup {"none"}) /\ PlanOrNone = PlanCodes \cup {"none"}
  BY <1>1, <1>4, FS_Union DEF PlanOrNone
<1> QED BY <1>1, <1>2, <1>3, <1>4, <1>5

LEMMA SumOfPaidPlans ==
  ASSUME NEW N, \A c \in {"starter", "growth", "pro"} : N[c] \in Int
  PROVE  SumFunctionOnSet(N, {"starter", "growth", "pro"}) = N["starter"] + N["growth"] + N["pro"]
<1>1. PICK S, T, U : S = {"starter", "growth", "pro"} /\ T = {"growth", "pro"} /\ U = {"pro"}
  OBVIOUS
<1>2. S \ {"starter"} = T /\ T \ {"growth"} = U /\ "starter" \in S /\ "growth" \in T
  BY <1>1
<1>3. IsFiniteSet(S) /\ IsFiniteSet(T) /\ (\A c \in S : N[c] \in Int) /\ (\A c \in T : N[c] \in Int)
  BY <1>1, FewPlans
<1>4. SumFunctionOnSet(N, S) = N["starter"] + SumFunctionOnSet(N, T)
  BY <1>2, <1>3, SumTakes
<1>5. SumFunctionOnSet(N, T) = N["growth"] + SumFunctionOnSet(N, U)
  BY <1>2, <1>3, SumTakes
<1>6. SumFunctionOnSet(N, U) = N["pro"]
  BY <1>1, SumOfOne
<1>7. PICK x, y, z : x = N["starter"] /\ y = N["growth"] /\ z = N["pro"]
  OBVIOUS
<1>8. x \in Int /\ y \in Int /\ z \in Int
  BY <1>7
<1>9. SumFunctionOnSet(N, S) = x + (y + z)
  BY <1>4, <1>5, <1>6, <1>7
<1>10. x + (y + z) = x + y + z
  BY <1>8
<1> QED BY <1>1, <1>7, <1>9, <1>10

(* What each plan earned adds up, over the paid plans and over all plans. *)
LEMMA PlansEarnAll ==
  ASSUME FiguresTypeOK, NEW p, p.from \in Int, p.to \in Int
  PROVE  /\ \A c \in PlanCodes : RevenueByPlan(p)[c] \in Int
         /\ SumFunctionOnSet(RevenueByPlan(p), PlanCodes) = SumFunctionOnSet(RevenueOf(p), Customers)
         /\ SumFunctionOnSet(RevenueByPlan(p), {"starter", "growth", "pro"})
              = SumFunctionOnSet(RevenueOf(p), Customers)
<1>1. PICK K, N : /\ K = [m \in Customers |-> owners[m].plan]
                  /\ N = [c \in PlanOrNone |-> SumFunctionOnSet(RevenueOf(p), Keyed(Customers, K, c))]
  OBVIOUS
<1>2. /\ IsFiniteSet(Customers) /\ (\A m \in Customers : RevenueOf(p)[m] \in Int)
      /\ IsFiniteSet(PlanOrNone) /\ (\A m \in Customers : K[m] \in PlanOrNone)
  BY <1>1, CustomersAreMany, FewPlans, MoneyIsInt DEF RevenueOf
<1>3. \A c \in PlanOrNone : N[c] = SumFunctionOnSet(RevenueOf(p), Keyed(Customers, K, c))
  BY <1>1
<1>4. SumFunctionOnSet(N, PlanOrNone) = SumFunctionOnSet(RevenueOf(p), Customers)
  BY <1>2, <1>3, SumByKey
<1>5. ASSUME NEW c \in PlanOrNone
      PROVE  N[c] \in Int /\ (c \in {"free", "none"} => N[c] = 0)
  <2>1. PICK S : S = Keyed(Customers, K, c)
    OBVIOUS
  <2>2. S \subseteq Customers /\ IsFiniteSet(S) /\ (\A m \in S : owners[m].plan = c)
    BY <1>1, <1>2, <2>1, FS_Subset DEF Keyed
  <2>3. \A m \in S : RevenueOf(p)[m] \in Int
    BY <1>2, <2>2
  <2>4. c \in {"free", "none"} => \A m \in S : RevenueOf(p)[m] = 0
    BY <2>2, MoneyIsInt DEF RevenueOf
  <2>5. SumFunctionOnSet(RevenueOf(p), S) \in Int
    BY <2>2, <2>3, SumIsInt
  <2>6. c \in {"free", "none"} => SumFunctionOnSet(RevenueOf(p), S) = 0
    BY <2>2, <2>4, SumOfZeros
  <2> QED BY <1>3, <2>1, <2>5, <2>6
<1>6. ASSUME NEW T \in SUBSET PlanOrNone, \A c \in PlanOrNone \ T : c \in {"free", "none"}
      PROVE  SumFunctionOnSet(N, T) = SumFunctionOnSet(RevenueOf(p), Customers)
  <2>1. (\A c \in PlanOrNone : N[c] \in Int) /\ (\A c \in PlanOrNone \ T : N[c] = 0)
    BY <1>5, <1>6
  <2>2. SumFunctionOnSet(N, PlanOrNone) = SumFunctionOnSet(N, T)
    BY <1>2, <2>1, SumOverPart
  <2> QED BY <1>4, <2>2
<1>7. ASSUME NEW c \in PlanCodes PROVE RevenueByPlan(p)[c] = N[c]
  <2>1. PICK S : S = {m \in Customers : EarnsFor(m, c)}
    OBVIOUS
  <2>2. S \in SUBSET Customers /\ S = Keyed(Customers, K, c) /\ c \in PlanOrNone
    BY <1>1, <2>1 DEF EarnsFor, Keyed, PlanOrNone
  <2>3. RevenueByPlan(p)[c] = Revenue(S, p)
    BY <2>1 DEF RevenueByPlan
  <2>4. Revenue(S, p) = SumFunctionOnSet(RevenueOf(p), S)
    BY <2>2, PartOfMoney
  <2> QED BY <1>3, <2>2, <2>3, <2>4
<1>8. ASSUME NEW T \in SUBSET PlanCodes, \A c \in PlanOrNone \ T : c \in {"free", "none"}
      PROVE  SumFunctionOnSet(RevenueByPlan(p), T) = SumFunctionOnSet(RevenueOf(p), Customers)
  <2>1. IsFiniteSet(T) /\ T \in SUBSET PlanOrNone
    BY FewPlans, FS_Subset DEF PlanOrNone
  <2>2. \A c \in T : RevenueByPlan(p)[c] = N[c]
    BY <1>7
  <2>3. SumFunctionOnSet(RevenueByPlan(p), T) = SumFunctionOnSet(N, T)
    BY <2>1, <2>2, SumSame
  <2> QED BY <1>6, <1>8, <2>1, <2>3
<1>9. PlanCodes \in SUBSET PlanCodes /\ \A c \in PlanOrNone \ PlanCodes : c \in {"free", "none"}
  BY DEF PlanOrNone
<1>10. {"starter", "growth", "pro"} \in SUBSET PlanCodes
       /\ \A c \in PlanOrNone \ {"starter", "growth", "pro"} : c \in {"free", "none"}
  BY DEF PlanOrNone, PlanCodes
<1>11. \A c \in PlanCodes : RevenueByPlan(p)[c] \in Int
  BY <1>5, <1>7 DEF PlanOrNone
<1> QED BY <1>8, <1>9, <1>10, <1>11

LEMMA PlansShareRevenue ==
  ASSUME FiguresTypeOK
  PROVE  RevenueByPlanAddsUp
<1> SUFFICES ASSUME NEW p \in Asked
    PROVE  RevenueByPlan(p)["starter"] + RevenueByPlan(p)["growth"] + RevenueByPlan(p)["pro"] = Revenue(Customers, p)
  BY DEF RevenueByPlanAddsUp
<1>1. p.from \in Int /\ p.to \in Int
  BY PeriodsEndLater DEF Asked
<1>2. PICK N : N = RevenueByPlan(p)
  OBVIOUS
<1>3. \A c \in {"starter", "growth", "pro"} : N[c] \in Int
  BY <1>1, <1>2, PlansEarnAll DEF PlanCodes
<1>4. SumFunctionOnSet(N, {"starter", "growth", "pro"}) = N["starter"] + N["growth"] + N["pro"]
  BY <1>3, SumOfPaidPlans
<1>5. SumFunctionOnSet(N, {"starter", "growth", "pro"}) = SumFunctionOnSet(RevenueOf(p), Customers)
  BY <1>1, <1>2, PlansEarnAll
<1>6. Revenue(Customers, p) = SumFunctionOnSet(RevenueOf(p), Customers)
  BY PartOfMoney
<1> QED BY <1>2, <1>4, <1>5, <1>6

-----------------------------------------------------------------------------
(* Lists in an order *)

(* r orders S strictly and leaves no two members undecided. *)
Orders(r, S) ==
  /\ \A x \in S : <<x, x>> \notin r
  /\ \A x, y \in S : x # y => <<x, y>> \in r \/ <<y, x>> \in r
  /\ \A x, y, z \in S : <<x, y>> \in r /\ <<y, z>> \in r => <<x, z>> \in r

RankedList(list, S, r) ==
  /\ list \in [1 .. Count(S) -> S]
  /\ \A i, j \in 1 .. Count(S) : i < j => <<list[i], list[j]>> \in r

Before(S, r, x) == {y \in S : <<y, x>> \in r}

(* Who comes later has more members before. *)
LEMMA MoreBefore ==
  ASSUME NEW S, IsFiniteSet(S), NEW r, Orders(r, S), NEW x \in S, NEW y \in S, <<x, y>> \in r
  PROVE  Count(Before(S, r, x)) < Count(Before(S, r, y))
<1>1. PICK A, B : A = Before(S, r, x) /\ B = Before(S, r, y)
  OBVIOUS
<1>2. IsFiniteSet(B) /\ A \in SUBSET B /\ x \in B /\ x \notin A
  <2>1. B \in SUBSET S
    BY <1>1 DEF Before
  <2>2. IsFiniteSet(B)
    BY <2>1, FS_Subset
  <2>3. A \in SUBSET B /\ x \in B /\ x \notin A
    BY <1>1 DEF Before, Orders
  <2> QED BY <2>2, <2>3
<1>3. IsFiniteSet(A) /\ Cardinality(A) <= Cardinality(B) /\ Cardinality(B) # Cardinality(A)
  BY <1>2, FS_Subset
<1>4. Cardinality(A) \in Nat /\ Cardinality(B) \in Nat
  BY <1>2, <1>3, FS_CardinalityType
<1>5. Cardinality(A) < Cardinality(B)
  BY <1>3, <1>4
<1> QED BY <1>1, <1>5 DEF Count

LEMMA FewBefore ==
  ASSUME NEW S, IsFiniteSet(S), NEW r, Orders(r, S), NEW x \in S
  PROVE  Count(Before(S, r, x)) \in Nat /\ Count(Before(S, r, x)) < Count(S) /\ Count(S) \in Nat
<1>1. PICK A : A = Before(S, r, x)
  OBVIOUS
<1>2. A \in SUBSET S /\ x \notin A
  BY <1>1 DEF Before, Orders
<1>3. IsFiniteSet(A) /\ Cardinality(A) <= Cardinality(S) /\ Cardinality(S) # Cardinality(A)
  BY <1>2, FS_Subset
<1>4. Cardinality(A) \in Nat /\ Cardinality(S) \in Nat
  BY <1>3, FS_CardinalityType
<1>5. Cardinality(A) < Cardinality(S)
  BY <1>3, <1>4
<1> QED BY <1>1, <1>4, <1>5 DEF Count

(* Every finite set has its list: each member stands after those that come before it. *)
LEMMA RankedExists ==
  ASSUME NEW S, IsFiniteSet(S), NEW r, Orders(r, S)
  PROVE  \E list : RankedList(list, S, r)
<1>1. PICK n : n = Count(S)
  OBVIOUS
<1>2. n \in Nat
  BY <1>1, FS_CardinalityType DEF Count
<1>3. PICK rank : rank = [x \in S |-> Count(Before(S, r, x)) + 1]
  OBVIOUS
<1>4. ASSUME NEW x \in S PROVE rank[x] \in 1 .. n
  <2>1. PICK k : k = Count(Before(S, r, x))
    OBVIOUS
  <2>2. k \in Nat /\ k < n
    BY <1>1, <2>1, FewBefore
  <2>3. rank[x] = k + 1
    BY <1>3, <2>1
  <2> QED BY <1>2, <2>2, <2>3
<1>5. ASSUME NEW x \in S, NEW y \in S, <<x, y>> \in r PROVE rank[x] < rank[y]
  <2>1. PICK a, b : a = Count(Before(S, r, x)) /\ b = Count(Before(S, r, y))
    OBVIOUS
  <2>2. a \in Nat /\ b \in Nat /\ a < b
    BY <1>5, <2>1, FewBefore, MoreBefore
  <2>3. rank[x] = a + 1 /\ rank[y] = b + 1
    BY <1>3, <2>1
  <2> QED BY <2>2, <2>3
<1>6. PICK places : places = 1 .. n
  OBVIOUS
<1>7. IsFiniteSet(places) /\ Cardinality(places) = Cardinality(S)
  <2>1. IsFiniteSet(1 .. n) /\ Cardinality(1 .. n) = n
    BY <1>2, FS_Interval
  <2> QED BY <1>1, <1>6, <2>1 DEF Count
<1>8. rank \in Injection(S, places)
  <2>1. rank \in [S -> places]
    BY <1>3, <1>4, <1>6
  <2>2. ASSUME NEW x \in S, NEW y \in S, x # y PROVE rank[x] # rank[y]
    <3>1. rank[x] \in Int /\ rank[y] \in Int
      BY <1>4
    <3>2. <<x, y>> \in r \/ <<y, x>> \in r
      BY <2>2 DEF Orders
    <3>3. rank[x] < rank[y] \/ rank[y] < rank[x]
      BY <1>5, <3>2
    <3> QED BY <3>1, <3>3
  <2> QED BY <2>1, <2>2 DEF Injection, IsInjective
<1>9. \A i \in places : \E x \in S : rank[x] = i
  <2>1. rank \in Surjection(S, places)
    BY <1>7, <1>8, FS_Injection
  <2> QED BY <2>1 DEF Surjection
<1>10. PICK list : list = [i \in places |-> CHOOSE x \in S : rank[x] = i]
  OBVIOUS
<1>11. \A i \in places : list[i] \in S /\ rank[list[i]] = i
  BY <1>9, <1>10
<1>12. list \in [1 .. Count(S) -> S]
  BY <1>1, <1>6, <1>10, <1>11
<1>13. ASSUME NEW i \in 1 .. Count(S), NEW j \in 1 .. Count(S), i < j
       PROVE  <<list[i], list[j]>> \in r
  <2>1. PICK x, y : x = list[i] /\ y = list[j]
    OBVIOUS
  <2>2. x \in S /\ y \in S /\ rank[x] = i /\ rank[y] = j
    BY <1>1, <1>6, <1>11, <2>1
  <2>3. i \in Int /\ j \in Int
    OBVIOUS
  <2>4. x # y
    BY <1>13, <2>2, <2>3
  <2>5. ~(rank[y] < rank[x])
    BY <1>13, <2>2, <2>3
  <2>6. <<y, x>> \notin r
    BY <1>5, <2>2, <2>5
  <2>7. <<x, y>> \in r
    BY <2>2, <2>4, <2>6 DEF Orders
  <2> QED BY <2>1, <2>7
<1>14. RankedList(list, S, r)
  BY <1>12, <1>13 DEF RankedList
<1> QED BY <1>14

LEMMA RankedIsIt ==
  ASSUME NEW S, IsFiniteSet(S), NEW r, Orders(r, S)
  PROVE  RankedList(Ranked(S, r), S, r)
<1>1. PICK l : RankedList(l, S, r)
  BY RankedExists
<1>2. \E list \in [1 .. Count(S) -> S] :
        \A i, j \in 1 .. Count(S) : i < j => <<list[i], list[j]>> \in r
  BY <1>1 DEF RankedList
<1> QED BY <1>2 DEF RankedList, Ranked

(* A list in order holds every member, each once, and there is no other. *)
LEMMA ListIsWhole ==
  ASSUME NEW S, IsFiniteSet(S), NEW r, Orders(r, S), NEW l, RankedList(l, S, r)
  PROVE  /\ \A i \in 1 .. Count(S) : l[i] \in S
         /\ \A i, j \in 1 .. Count(S) : l[i] = l[j] => i = j
         /\ \A x \in S : \E i \in 1 .. Count(S) : l[i] = x
         /\ IsFiniteSet(1 .. Count(S)) /\ Count(S) \in Nat
<1>1. PICK n, places : n = Count(S) /\ places = 1 .. n
  OBVIOUS
<1>2. n \in Nat
  BY <1>1, FS_CardinalityType DEF Count
<1>3. IsFiniteSet(places) /\ Cardinality(places) = Cardinality(S)
  <2>1. IsFiniteSet(1 .. n) /\ Cardinality(1 .. n) = n
    BY <1>2, FS_Interval
  <2> QED BY <1>1, <2>1 DEF Count
<1>4. l \in [places -> S] /\ \A i, j \in places : i < j => <<l[i], l[j]>> \in r
  BY <1>1 DEF RankedList
<1>5. ASSUME NEW i \in places, NEW j \in places, i # j PROVE l[i] # l[j]
  <2>1. i \in Int /\ j \in Int
    BY <1>1
  <2>2. i < j \/ j < i
    BY <1>5, <2>1
  <2>3. <<l[i], l[j]>> \in r \/ <<l[j], l[i]>> \in r
    BY <1>4, <2>2
  <2>4. l[i] \in S /\ \A x \in S : <<x, x>> \notin r
    BY <1>4 DEF Orders
  <2> QED BY <2>3, <2>4
<1>6. l \in Injection(places, S)
  BY <1>4, <1>5 DEF Injection, IsInjective
<1>7. l \in Surjection(places, S)
  BY <1>3, <1>6, FS_Injection
<1>8. \A x \in S : \E i \in places : l[i] = x
  BY <1>7 DEF Surjection
<1> QED BY <1>1, <1>2, <1>3, <1>4, <1>5, <1>8

(* The i-th of the list has i - 1 before it. *)
LEMMA PlaceInList ==
  ASSUME NEW S, IsFiniteSet(S), NEW r, Orders(r, S), NEW l, RankedList(l, S, r), NEW i \in 1 .. Count(S)
  PROVE  Count(Before(S, r, l[i])) = i - 1
<1>1. PICK first, B : first = 1 .. i - 1 /\ B = Before(S, r, l[i])
  OBVIOUS
<1>2. Count(S) \in Nat /\ i \in Nat /\ i >= 1 /\ i <= Count(S)
  BY ListIsWhole
<1>3. IsFiniteSet(first) /\ Cardinality(first) = i - 1
  <2>1. PICK k : k = i - 1
    OBVIOUS
  <2>2. k \in Nat
    BY <1>2, <2>1
  <2>3. IsFiniteSet(1 .. k) /\ Cardinality(1 .. k) = k
    BY <2>2, FS_Interval
  <2> QED BY <1>1, <2>1, <2>3
<1>4. \A k \in first : k \in 1 .. Count(S) /\ k < i
  BY <1>1, <1>2
<1>5. ASSUME NEW k \in 1 .. Count(S) PROVE l[k] \in B <=> k \in first
  <2>1. k \in Nat /\ k >= 1 /\ (k \in first <=> k < i)
    BY <1>1, <1>2, <1>5
  <2>2. l[k] \in S /\ l[i] \in S
    BY <1>5, ListIsWhole
  <2>3. CASE k < i
    <3>1. <<l[k], l[i]>> \in r
      BY <1>5, <2>3 DEF RankedList
    <3> QED BY <1>1, <2>1, <2>2, <2>3, <3>1 DEF Before
  <2>4. CASE ~(k < i)
    <3>1. k = i \/ i < k
      BY <1>2, <2>1, <2>4
    <3>2. k = i \/ <<l[i], l[k]>> \in r
      BY <1>5, <3>1 DEF RankedList
    <3>3. <<l[k], l[i]>> \notin r
      BY <2>2, <3>2 DEF Orders
    <3> QED BY <1>1, <2>1, <2>4, <3>3 DEF Before
  <2> QED BY <2>3, <2>4
<1>6. PICK f : f = [k \in first |-> l[k]]
  OBVIOUS
<1>7. f \in [first -> B]
  BY <1>4, <1>5, <1>6
<1>8. \A k, h \in first : f[k] = f[h] => k = h
  BY <1>4, <1>6, ListIsWhole
<1>9. \A x \in B : \E k \in first : f[k] = x
  <2> SUFFICES ASSUME NEW x \in B PROVE \E k \in first : f[k] = x
    OBVIOUS
  <2>1. x \in S
    BY <1>1 DEF Before
  <2>2. PICK k \in 1 .. Count(S) : l[k] = x
    BY <2>1, ListIsWhole
  <2>3. k \in first
    BY <1>5, <2>2
  <2> QED BY <1>6, <2>2, <2>3
<1>10. f \in Bijection(first, B)
  BY <1>7, <1>8, <1>9 DEF Bijection, Injection, Surjection, IsInjective
<1>11. ExistsBijection(first, B)
  BY <1>10 DEF ExistsBijection
<1>12. Cardinality(B) = Cardinality(first)
  BY <1>3, <1>11, FS_Bijection
<1> QED BY <1>1, <1>3, <1>12 DEF Count

LEMMA OneListOnly ==
  ASSUME NEW S, IsFiniteSet(S), NEW r, Orders(r, S), NEW l, RankedList(l, S, r), NEW k, RankedList(k, S, r)
  PROVE  l = k
<1>1. ASSUME NEW i \in 1 .. Count(S) PROVE l[i] = k[i]
  <2>1. Count(Before(S, r, l[i])) = i - 1 /\ Count(Before(S, r, k[i])) = i - 1
    BY PlaceInList
  <2>2. PICK x, y : x = l[i] /\ y = k[i]
    OBVIOUS
  <2>3. x \in S /\ y \in S
    BY <2>2, ListIsWhole
  <2>4. ASSUME <<x, y>> \in r PROVE FALSE
    <3>1. Count(Before(S, r, x)) < Count(Before(S, r, y)) /\ Count(Before(S, r, x)) \in Nat
      BY <2>3, <2>4, MoreBefore, FewBefore
    <3> QED BY <2>1, <2>2, <3>1
  <2>5. ASSUME <<y, x>> \in r PROVE FALSE
    <3>1. Count(Before(S, r, y)) < Count(Before(S, r, x)) /\ Count(Before(S, r, y)) \in Nat
      BY <2>3, <2>5, MoreBefore, FewBefore
    <3> QED BY <2>1, <2>2, <3>1
  <2>6. x = y
    BY <2>3, <2>4, <2>5 DEF Orders
  <2> QED BY <2>2, <2>6
<1>2. PICK places : places = 1 .. Count(S)
  OBVIOUS
<1>3. l \in [places -> S] /\ k \in [places -> S] /\ \A i \in places : l[i] = k[i]
  BY <1>1, <1>2 DEF RankedList
<1> QED BY <1>3

(* The list of the opposite order is the list turned around. *)
LEMMA TurnedAround ==
  ASSUME NEW S, IsFiniteSet(S), NEW r, Orders(r, S), NEW o, Orders(o, S),
         \A x, y \in S : <<x, y>> \in r <=> <<y, x>> \in o
  PROVE  Ranked(S, r) = Reverse(Ranked(S, o))
<1>1. PICK n, down, turned : n = Count(S) /\ down = Ranked(S, o) /\ turned = Reverse(down)
  OBVIOUS
<1>2. RankedList(down, S, o) /\ n \in Nat
  BY <1>1, RankedIsIt, ListIsWhole
<1>3. down \in [1 .. n -> S] /\ \A i, j \in 1 .. n : i < j => <<down[i], down[j]>> \in o
  BY <1>1, <1>2 DEF RankedList
<1>4. Len(down) = n
  BY <1>2, <1>3
<1>5. turned = [i \in 1 .. n |-> down[(n - i) + 1]]
  BY <1>1, <1>4 DEF Reverse
<1>6. ASSUME NEW i \in 1 .. n PROVE (n - i) + 1 \in 1 .. n
  BY <1>2
<1>7. turned \in [1 .. n -> S]
  BY <1>3, <1>5, <1>6
<1>8. ASSUME NEW i \in 1 .. n, NEW j \in 1 .. n, i < j PROVE <<turned[i], turned[j]>> \in r
  <2>1. PICK a, b : a = (n - i) + 1 /\ b = (n - j) + 1
    OBVIOUS
  <2>2. a \in 1 .. n /\ b \in 1 .. n
    BY <1>6, <2>1
  <2>3. b < a
    BY <1>2, <1>8, <2>1
  <2>4. <<down[b], down[a]>> \in o
    BY <1>3, <2>2, <2>3
  <2>5. turned[i] = down[a] /\ turned[j] = down[b] /\ down[a] \in S /\ down[b] \in S
    BY <1>3, <1>5, <2>1, <2>2
  <2> QED BY <2>4, <2>5
<1>9. RankedList(turned, S, r)
  BY <1>1, <1>7, <1>8 DEF RankedList
<1>10. RankedList(Ranked(S, r), S, r)
  BY RankedIsIt
<1> QED BY <1>1, <1>9, <1>10, OneListOnly

(* By a figure and then by id, in either direction. *)
LEMMA ByFigureThenId ==
  ASSUME NEW S \in SUBSET Nat, NEW K, \A x \in S : K[x] \in Int, NEW r,
         \A x, y \in S : <<x, y>> \in r <=> K[x] < K[y] \/ (K[x] = K[y] /\ x < y)
  PROVE  Orders(r, S)
<1>1. ASSUME NEW x \in S PROVE <<x, x>> \notin r
  <2>1. K[x] \in Int /\ x \in Int
    OBVIOUS
  <2>2. ~(K[x] < K[x]) /\ ~(x < x)
    BY <2>1
  <2> QED BY <2>2
<1>2. ASSUME NEW x \in S, NEW y \in S, x # y PROVE <<x, y>> \in r \/ <<y, x>> \in r
  <2>1. K[x] \in Int /\ K[y] \in Int /\ x \in Int /\ y \in Int
    OBVIOUS
  <2> QED BY <1>2, <2>1
<1>3. ASSUME NEW x \in S, NEW y \in S, NEW z \in S, <<x, y>> \in r, <<y, z>> \in r PROVE <<x, z>> \in r
  <2>1. PICK a, b, c : a = K[x] /\ b = K[y] /\ c = K[z]
    OBVIOUS
  <2>2. a \in Int /\ b \in Int /\ c \in Int /\ x \in Int /\ y \in Int /\ z \in Int
    BY <2>1
  <2>3. (a < b \/ (a = b /\ x < y)) /\ (b < c \/ (b = c /\ y < z))
    BY <1>3, <2>1
  <2>4. a < c \/ (a = c /\ x < z)
    BY <2>2, <2>3
  <2> QED BY <2>1, <2>4
<1> QED BY <1>1, <1>2, <1>3 DEF Orders

LEMMA OppositeOrders ==
  ASSUME NEW S, NEW r, Orders(r, S), NEW o, \A x, y \in S : <<x, y>> \in r <=> <<y, x>> \in o
  PROVE  Orders(o, S)
BY DEF Orders

(* What is read off a list row by row adds up to the sum over its members. *)
RowsOf(S) == 1 .. Count(S)

LEMMA ListSums ==
  ASSUME NEW S, IsFiniteSet(S), NEW r, Orders(r, S), NEW F, \A x \in S : F[x] \in Int,
         NEW l, l = Ranked(S, r), NEW G, \A i \in RowsOf(S) : G[i] = F[l[i]]
  PROVE  SumFunctionOnSet(G, RowsOf(S)) = SumFunctionOnSet(F, S)
<1>1. RankedList(l, S, r)
  BY RankedIsIt
<1>2. /\ IsFiniteSet(RowsOf(S)) /\ (\A i \in RowsOf(S) : l[i] \in S)
      /\ (\A i, j \in RowsOf(S) : l[i] = l[j] => i = j)
      /\ (\A x \in S : \E i \in RowsOf(S) : l[i] = x)
  BY <1>1, ListIsWhole DEF RowsOf
<1> QED BY <1>2, SumOfList

-----------------------------------------------------------------------------
(* The exports *)

(* The key of every list of merchants is a number. *)
LEMMA SortKeysAreInts ==
  ASSUME FiguresTypeOK, NothingAhead, NEW p, p.from \in Int, p.to \in Int, NEW m \in Customers,
         NEW sort \in {"health", "plan", "signupAt", "lastActivityAt", "margin"}
  PROVE  SortKey(m, sort, p) \in Int
<1>1. m \in Merchants /\ clock \in Nat /\ LastActivity(m) \in Int
  BY LastActivityIsThen, MomentsAreInts DEF Customers, FiguresTypeOK
<1>2. HealthScore(m, p) \in Int
  <2>1. PICK a, b, c, d :
          /\ a = Recency(clock - LastActivity(m))
          /\ b = Results(Count(EndedAs(CallsIn(m, p.from, p.to), "confirmed")), Count(CallsIn(m, p.from, p.to)))
          /\ c = Momentum(Count(CallsIn(m, clock - 14 * Day, Never)), Count(CallsIn(m, clock - 28 * Day, clock - 14 * Day)))
          /\ d = IF owners[m].onboarded THEN 10 ELSE 0
    OBVIOUS
  <2>2. a \in Int /\ c \in Int /\ d \in Int
    BY <2>1 DEF Recency, Momentum
  <2>3. b \in Int
    <3>1. PICK calls, made : calls = CallsIn(m, p.from, p.to) /\ made = EndedAs(calls, "confirmed")
      OBVIOUS
    <3>2. calls \subseteq CallRows /\ made \subseteq calls
      BY <3>1 DEF CallsIn, CallsOf, Called, EndedAs
    <3>3. IsFiniteSet(calls) /\ Count(calls) \in Nat
      BY <3>2, FiguresAssumption, CountOfPart
    <3>4. Count(made) \in Nat /\ Count(made) <= Count(calls)
      BY <3>2, <3>3, CountOfPart
    <3> QED BY <2>1, <3>1, <3>3, <3>4, ResultsAreBounded
  <2>4. HealthScore(m, p) = a + b + c + d
    BY <2>1 DEF HealthScore
  <2> QED BY <2>2, <2>3, <2>4
<1>3. PlanRank(PlanAt(m, clock)) \in Int
  <2>1. PlanAt(m, clock) \in PlanCodes
    BY MoneyIsInt DEF PlanAt, PlanOrNone, PlanCodes
  <2> QED BY <2>1 DEF PlanRank, PlanCodes
<1>4. owners[m].signup \in Int
  BY CustomersAreMany
<1>5. Greatest(0, LastActivity(m)) \in Int
  BY <1>1 DEF Greatest
<1>6. Margin(m, p) \in Int
  BY MoneyIsInt
<1> QED BY <1>2, <1>3, <1>4, <1>5, <1>6 DEF SortKey

(* A list of merchants is ranked by its key and then by id, or the other way around. *)
RowsAsked(plan, status) ==
  {m \in Customers : /\ plan # "" => PlanAt(m, clock) = plan
                     /\ status # "" => MerchantStatus(m) = status}
RowOrder(rows, dir, sort, p) ==
  {mk \in rows \X rows :
     IF dir = "asc"
       THEN \/ SortKey(mk[1], sort, p) < SortKey(mk[2], sort, p)
            \/ SortKey(mk[1], sort, p) = SortKey(mk[2], sort, p) /\ mk[1] < mk[2]
       ELSE \/ SortKey(mk[2], sort, p) < SortKey(mk[1], sort, p)
            \/ SortKey(mk[2], sort, p) = SortKey(mk[1], sort, p) /\ mk[2] < mk[1]}

LEMMA ListedRanks ==
  ASSUME NEW p, NEW sort, NEW dir, NEW plan, NEW status
  PROVE  Listed(p, sort, dir, plan, status)
           = Ranked(RowsAsked(plan, status), RowOrder(RowsAsked(plan, status), dir, sort, p))
BY DEF Listed, RowsAsked, RowOrder

Sorts == {"health", "plan", "signupAt", "lastActivityAt", "margin"}

(* The orders of all merchants, in either direction. *)
LEMMA RowOrders ==
  ASSUME FiguresTypeOK, NothingAhead, NEW p, p.from \in Int, p.to \in Int, NEW sort \in Sorts,
         NEW up, up = RowOrder(Customers, "asc", sort, p), NEW down, down = RowOrder(Customers, "desc", sort, p)
  PROVE  /\ Orders(up, Customers) /\ Orders(down, Customers)
         /\ \A x, y \in Customers : <<x, y>> \in up <=> <<y, x>> \in down
<1>1. PICK K : K = [m \in Customers |-> SortKey(m, sort, p)]
  OBVIOUS
<1>2. "desc" # "asc"
  OBVIOUS
<1>3. \A x, y \in Customers : <<x, y>> \in up <=> K[x] < K[y] \/ (K[x] = K[y] /\ x < y)
  BY <1>1 DEF RowOrder
<1>4. \A x, y \in Customers : <<y, x>> \in down <=> K[x] < K[y] \/ (K[x] = K[y] /\ x < y)
  BY <1>1, <1>2 DEF RowOrder
<1>5. Customers \in SUBSET Nat /\ \A x \in Customers : K[x] \in Int
  BY <1>1, SortKeysAreInts, FiguresAssumption DEF Customers, Sorts
<1>6. Orders(up, Customers)
  BY <1>3, <1>5, ByFigureThenId
<1>7. \A x, y \in Customers : <<x, y>> \in up <=> <<y, x>> \in down
  BY <1>3, <1>4
<1>8. Orders(down, Customers)
  BY <1>6, <1>7, OppositeOrders
<1> QED BY <1>6, <1>7, <1>8

LEMMA ListedIs ==
  ASSUME NEW p, NEW sort, NEW dir
  PROVE  Listed(p, sort, dir, "", "") = Ranked(Customers, RowOrder(Customers, dir, sort, p))
<1>1. RowsAsked("", "") = Customers
  BY DEF RowsAsked
<1> QED BY <1>1, ListedRanks

LEMMA ListsTurnAround ==
  ASSUME FiguresTypeOK, NothingAhead, NEW p, p.from \in Int, p.to \in Int, NEW sort \in Sorts
  PROVE  Listed(p, sort, "asc", "", "") = Reverse(Listed(p, sort, "desc", "", ""))
<1>1. PICK up, down : up = RowOrder(Customers, "asc", sort, p) /\ down = RowOrder(Customers, "desc", sort, p)
  OBVIOUS
<1>2. /\ Orders(up, Customers) /\ Orders(down, Customers)
      /\ \A x, y \in Customers : <<x, y>> \in up <=> <<y, x>> \in down
  BY <1>1, RowOrders
<1>3. IsFiniteSet(Customers)
  BY CustomersAreMany
<1>4. Ranked(Customers, up) = Reverse(Ranked(Customers, down))
  BY <1>2, <1>3, TurnedAround
<1>5. Listed(p, sort, "asc", "", "") = Ranked(Customers, up) /\ Listed(p, sort, "desc", "", "") = Ranked(Customers, down)
  BY <1>1, ListedIs
<1> QED BY <1>4, <1>5

CountsOf(p) == [m \in Customers |-> Count(CallsIn(m, p.from, p.to))]

LEMMA CallsOfAll ==
  ASSUME FiguresTypeOK, NEW p, p.from \in Int, p.to \in Int
  PROVE  /\ \A m \in Customers : CountsOf(p)[m] \in Nat
         /\ SumFunctionOnSet(CountsOf(p), Customers) = Count(CallsHere(p.from, p.to))
<1>1. PICK A : A = CallsHere(p.from, p.to)
  OBVIOUS
<1>2. \A m \in Customers : CountsOf(p)[m] = Count(Keyed(A, CallShop, m))
  BY <1>1, OfOneShop DEF CountsOf
<1>3. SumFunctionOnSet(CountsOf(p), Customers) = Count(A)
  BY <1>1, <1>2, CallsByShop
<1>4. ASSUME NEW m \in Customers PROVE CountsOf(p)[m] \in Nat
  <2>1. PICK S : S = Keyed(A, CallShop, m)
    OBVIOUS
  <2>2. S \subseteq A /\ IsFiniteSet(A)
    BY <1>1, <2>1, HereIsFinite DEF Keyed
  <2>3. Count(S) \in Nat
    BY <2>2, CountOfPart
  <2> QED BY <1>2, <2>1, <2>3
<1> QED BY <1>1, <1>3, <1>4

(* A list of shops, row by row. *)
LEMMA RankedHasLength ==
  ASSUME NEW S, IsFiniteSet(S), NEW r, Orders(r, S), NEW l, l = Ranked(S, r)
  PROVE  Len(l) = Count(S) /\ DOMAIN l = 1 .. Count(S) /\ l \in Seq(S) /\ Count(S) \in Nat
<1>1. RankedList(l, S, r)
  BY RankedIsIt
<1>2. PICK n : n = Count(S)
  OBVIOUS
<1>3. n \in Nat /\ l \in [1 .. n -> S]
  BY <1>1, <1>2, ListIsWhole DEF RankedList
<1>4. Len(l) = n /\ DOMAIN l = 1 .. n /\ l \in Seq(S)
  BY <1>3
<1> QED BY <1>2, <1>3, <1>4

LEMMA MerchantsExport ==
  ASSUME FiguresTypeOK, NothingAhead, NEW p, p.from \in Int, p.to \in Int,
         NEW rows, rows = Export("merchants", p)
  PROVE  /\ SumFunction([i \in DOMAIN rows |-> rows[i].calls]) = Count(CallsHere(p.from, p.to))
         /\ SumFunction([i \in DOMAIN rows |-> rows[i].margin]) = SumFunctionOnSet(MarginOf(p), Customers)
<1>1. PICK l, down : /\ l = Listed(p, "health", "desc", "", "") /\ l = Ranked(Customers, down)
                     /\ Orders(down, Customers)
  <2>1. PICK up, down : up = RowOrder(Customers, "asc", "health", p) /\ down = RowOrder(Customers, "desc", "health", p)
    OBVIOUS
  <2>2. "health" \in Sorts
    BY DEF Sorts
  <2>3. Orders(down, Customers)
    BY <2>1, <2>2, RowOrders
  <2> QED BY <2>1, <2>3, ListedIs
<1>2. IsFiniteSet(Customers)
  BY CustomersAreMany
<1>3. Len(l) = Count(Customers)
  BY <1>1, <1>2, RankedHasLength
<1>4. PICK I : I = RowsOf(Customers)
  OBVIOUS
<1>5. rows = [i \in I |-> [key |-> l[i], calls |-> Count(CallsIn(l[i], p.from, p.to)), margin |-> Margin(l[i], p)]]
  BY <1>1, <1>3, <1>4 DEF Export, RowsOf
<1>6. \A i \in I : l[i] \in Customers
  BY <1>1, <1>2, <1>4, RankedIsIt, ListIsWhole DEF RowsOf
<1>7. PICK C, M : C = [i \in I |-> rows[i].calls] /\ M = [i \in I |-> rows[i].margin]
  OBVIOUS
<1>8. PICK F, H : F = CountsOf(p) /\ H = MarginOf(p)
  OBVIOUS
<1>9. (\A i \in I : C[i] = F[l[i]]) /\ (\A i \in I : M[i] = H[l[i]])
  BY <1>5, <1>6, <1>7, <1>8 DEF CountsOf, MarginOf
<1>10. (\A m \in Customers : F[m] \in Int) /\ (\A m \in Customers : H[m] \in Int)
  BY <1>8, CallsOfAll, MoneyIsInt DEF MarginOf
<1>11. l = Ranked(Customers, down) /\ Orders(down, Customers)
  BY <1>1
<1>12. SumFunctionOnSet(C, I) = SumFunctionOnSet(F, Customers)
  <2>1. \A i \in I : C[i] = F[l[i]]
    BY <1>9
  <2>2. \A m \in Customers : F[m] \in Int
    BY <1>10
  <2> QED BY <1>2, <1>4, <2>1, <2>2, <1>11, ListSums
<1>14. SumFunctionOnSet(M, I) = SumFunctionOnSet(H, Customers)
  <2>1. \A i \in I : M[i] = H[l[i]]
    BY <1>9
  <2>2. \A m \in Customers : H[m] \in Int
    BY <1>10
  <2> QED BY <1>2, <1>4, <2>1, <2>2, <1>11, ListSums
<1>13. DOMAIN rows = I
  BY <1>5
<1> QED BY <1>7, <1>8, <1>12, <1>13, <1>14, CallsOfAll DEF SumFunction

LEMMA UsageExport ==
  ASSUME FiguresTypeOK, NEW p, p.from \in Int, p.to \in Int, NEW rows, rows = Export("usage", p)
  PROVE  SumFunction([i \in DOMAIN rows |-> rows[i].calls]) = Count(CallsHere(p.from, p.to))
<1>1. PICK a, b, n : a = DayOf(p.from) /\ b = DayOf(p.to - 1) /\ n = Count(Days(p))
  OBVIOUS
<1>2. a \in Int /\ b \in Int /\ Days(p) = a .. b
  BY <1>1, DaysAreFew DEF Days
<1>3. n = IF a > b THEN 0 ELSE b - a + 1
  BY <1>1, <1>2, FS_Interval DEF Count
<1>4. PICK I, S : I = 1 .. n /\ S = a .. b
  OBVIOUS
<1>5. rows = [i \in I |-> [key |-> a + i - 1, calls |-> UsageDaily(p)[a + i - 1].calls, margin |-> 0]]
  BY <1>1, <1>4 DEF Export
<1>6. n \in Nat
  BY <1>2, <1>3
<1>7. IsFiniteSet(I) /\ IsFiniteSet(S)
  BY <1>2, <1>4, <1>6, FS_Interval
<1>8. PICK q, F, G : /\ q = [i \in I |-> a + i - 1] /\ F = [d \in S |-> UsageDaily(p)[d].calls]
                     /\ G = [i \in I |-> rows[i].calls]
  OBVIOUS
<1>9. ASSUME NEW i \in I PROVE a + i - 1 \in S
  BY <1>2, <1>3, <1>4, <1>6
<1>10. \A i \in I : q[i] \in S
  BY <1>8, <1>9
<1>11. \A i, j \in I : q[i] = q[j] => i = j
  BY <1>2, <1>4, <1>6, <1>8
<1>12. ASSUME NEW x \in S PROVE \E i \in I : q[i] = x
  <2>1. PICK i : i = x - a + 1
    OBVIOUS
  <2>2. i \in I /\ a + i - 1 = x
    BY <1>2, <1>3, <1>4, <1>6, <2>1
  <2> QED BY <1>8, <2>2
<1>13. \A d \in S : F[d] = Count(Keyed(CallsHere(p.from, p.to), CallDay, d))
  BY <1>2, <1>4, <1>8, UsageOfADay
<1>14. ASSUME NEW d \in S PROVE F[d] \in Int
  <2>1. PICK T : T = Keyed(CallsHere(p.from, p.to), CallDay, d)
    OBVIOUS
  <2>2. T \subseteq CallsHere(p.from, p.to)
    BY <2>1 DEF Keyed
  <2>3. Count(T) \in Nat
    BY <2>2, HereIsFinite, CountOfPart
  <2> QED BY <1>13, <2>1, <2>3
<1>15. \A i \in I : G[i] = F[q[i]]
  BY <1>5, <1>8, <1>9
<1>16. SumFunctionOnSet(G, I) = SumFunctionOnSet(F, S)
  BY <1>7, <1>10, <1>11, <1>12, <1>14, <1>15, SumOfList
<1>17. SumFunctionOnSet(F, S) = Count(CallsHere(p.from, p.to))
  <2>1. \A c \in CallsHere(p.from, p.to) : CallDay[c] \in Days(p)
    BY KeysOfCalls
  <2>2. \A d \in Days(p) : F[d] = Count(Keyed(CallsHere(p.from, p.to), CallDay, d))
    BY <1>2, <1>4, <1>13
  <2>3. SumFunctionOnSet(F, Days(p)) = Count(CallsHere(p.from, p.to))
    BY <2>1, <2>2, CountByDay, HereIsFinite
  <2> QED BY <1>2, <1>4, <2>3
<1>18. DOMAIN rows = I
  BY <1>5
<1> QED BY <1>8, <1>16, <1>17, <1>18 DEF SumFunction

(* The callers, as long as the report lists them all. *)
LEMMA WholeSequence ==
  ASSUME NEW n \in Nat, NEW S, NEW l \in [1 .. n -> S], n <= 25
  PROVE  SubSeq(l, 1, Least(25, Len(l))) = l /\ Len(l) = n
<1>1. Len(l) = n /\ l \in Seq(S)
  OBVIOUS
<1>2. Least(25, n) = n
  BY DEF Least
<1>3. SubSeq(l, 1, n) = l
  BY <1>1
<1> QED BY <1>1, <1>2, <1>3

CallerOrder(p) ==
  {mk \in Callers(p) \X Callers(p) :
     \/ Count(CallsIn(mk[1], p.from, p.to)) > Count(CallsIn(mk[2], p.from, p.to))
     \/ Count(CallsIn(mk[1], p.from, p.to)) = Count(CallsIn(mk[2], p.from, p.to)) /\ mk[1] < mk[2]}

LEMMA CallersAreRanked ==
  ASSUME FiguresTypeOK, NEW p, p.from \in Int, p.to \in Int
  PROVE  /\ Orders(CallerOrder(p), Callers(p)) /\ IsFiniteSet(Callers(p)) /\ Callers(p) \subseteq Customers
         /\ \A n : Busiest(p, n) = SubSeq(Ranked(Callers(p), CallerOrder(p)), 1,
                                          Least(n, Len(Ranked(Callers(p), CallerOrder(p)))))
<1>1. PICK S, r, K : S = Callers(p) /\ r = CallerOrder(p) /\ K = [m \in Customers |-> -CountsOf(p)[m]]
  OBVIOUS
<1>2. S \in SUBSET Customers /\ S \in SUBSET Nat /\ IsFiniteSet(S)
  BY <1>1, CustomersAreMany, FiguresAssumption, FS_Subset DEF Callers, Customers
<1>3. \A x \in S : K[x] \in Int
  BY <1>1, <1>2, CallsOfAll
<1>4. ASSUME NEW x \in S, NEW y \in S
      PROVE  <<x, y>> \in r <=> K[x] < K[y] \/ (K[x] = K[y] /\ x < y)
  <2>1. PICK a, b : a = Count(CallsIn(x, p.from, p.to)) /\ b = Count(CallsIn(y, p.from, p.to))
    OBVIOUS
  <2>2. <<x, y>> \in r <=> a > b \/ (a = b /\ x < y)
    BY <1>1, <2>1 DEF CallerOrder
  <2>3. x \in Customers /\ y \in Customers
    BY <1>2
  <2>4. a \in Nat /\ b \in Nat /\ CountsOf(p)[x] = a /\ CountsOf(p)[y] = b
    BY <2>1, <2>3, CallsOfAll DEF CountsOf
  <2>5. K[x] = -a /\ K[y] = -b
    BY <1>1, <2>3, <2>4
  <2>6. (-a < -b <=> a > b) /\ (-a = -b <=> a = b)
    BY <2>4
  <2> QED BY <2>2, <2>5, <2>6
<1>5. Orders(r, S)
  BY <1>2, <1>3, <1>4, ByFigureThenId
<1>6. \A n : Busiest(p, n) = SubSeq(Ranked(Callers(p), CallerOrder(p)), 1,
                                    Least(n, Len(Ranked(Callers(p), CallerOrder(p)))))
  BY DEF Busiest, CallerOrder
<1> QED BY <1>1, <1>2, <1>5, <1>6

LEMMA QualityExport ==
  ASSUME FiguresTypeOK, NEW p, p.from \in Int, p.to \in Int, NEW rows, rows = Export("quality", p),
         Count(Callers(p)) <= 25
  PROVE  SumFunction([i \in DOMAIN rows |-> rows[i].calls]) = Count(CallsHere(p.from, p.to))
<1>1. PICK S, r, l : S = Callers(p) /\ r = CallerOrder(p) /\ l = Ranked(S, r)
  OBVIOUS
<1>2. Orders(r, S) /\ IsFiniteSet(S) /\ S \subseteq Customers
  BY <1>1, CallersAreRanked
<1>3. RankedList(l, S, r)
  BY <1>1, <1>2, RankedIsIt
<1>4. PICK n : n = Count(S)
  OBVIOUS
<1>5. n \in Nat /\ n <= 25 /\ l \in [1 .. n -> S]
  BY <1>1, <1>2, <1>3, <1>4, ListIsWhole DEF RankedList
<1>6. Busiest(p, 25) = l /\ Len(l) = n
  <2>1. Busiest(p, 25) = SubSeq(l, 1, Least(25, Len(l)))
    BY <1>1, CallersAreRanked
  <2> QED BY <1>5, <2>1, WholeSequence
<1>7. PICK I : I = RowsOf(S)
  OBVIOUS
<1>8. I = 1 .. n /\ \A i \in I : l[i] \in S
  BY <1>4, <1>5, <1>7 DEF RowsOf
<1>9. rows = [i \in I |-> [key |-> l[i], calls |-> Count(CallsIn(l[i], p.from, p.to)), margin |-> 0]]
  BY <1>6, <1>8 DEF Export
<1>10. DOMAIN rows = I /\ \A i \in I : rows[i].calls = Count(CallsIn(l[i], p.from, p.to))
  BY <1>9
<1>11. PICK F, G : F = CountsOf(p) /\ G = [i \in I |-> rows[i].calls]
  OBVIOUS
<1>12. \A i \in I : G[i] = F[l[i]]
  BY <1>2, <1>8, <1>10, <1>11 DEF CountsOf
<1>13. (\A m \in Customers : F[m] \in Int) /\ SumFunctionOnSet(F, Customers) = Count(CallsHere(p.from, p.to))
  BY <1>11, CallsOfAll
<1>14. \A x \in S : F[x] \in Int
  BY <1>2, <1>13
<1>15. SumFunctionOnSet(G, I) = SumFunctionOnSet(F, S)
  BY <1>1, <1>2, <1>7, <1>12, <1>14, ListSums
<1>16. ASSUME NEW m \in Customers \ S PROVE F[m] = 0
  <2>1. CallsIn(m, p.from, p.to) = {}
    BY <1>1, <1>16 DEF Callers
  <2> QED BY <1>11, <2>1, FS_EmptySet DEF CountsOf, Count
<1>17. IsFiniteSet(Customers)
  BY CustomersAreMany
<1>18. SumFunctionOnSet(F, Customers) = SumFunctionOnSet(F, S)
  BY <1>2, <1>13, <1>16, <1>17, SumOverPart
<1> QED BY <1>10, <1>11, <1>13, <1>15, <1>18 DEF SumFunction

(* Each customer is on one plan of today: the costs by plan are all costs. *)
LEMMA PlansCostAll ==
  ASSUME FiguresTypeOK, NEW p, p.from \in Int, p.to \in Int, NEW N, \A c \in PlanCodes : N[c] = Cost(OnPlan(c), p)
  PROVE  /\ SumFunctionOnSet(N, PlanCodes) = SumFunctionOnSet(CostsOf(p), Customers)
         /\ \A c \in PlanCodes : N[c] \in Int
<1>1. PICK K, F : K = [m \in Customers |-> PlanAt(m, clock)] /\ F = CostsOf(p)
  OBVIOUS
<1>2. /\ IsFiniteSet(Customers) /\ IsFiniteSet(PlanCodes)
      /\ (\A m \in Customers : F[m] \in Int) /\ (\A m \in Customers : K[m] \in PlanCodes)
  <2>1. ASSUME NEW m \in Customers PROVE PlanAt(m, clock) \in PlanCodes
    BY MoneyIsInt DEF PlanAt, PlanOrNone, PlanCodes
  <2>2. ASSUME NEW m \in Customers PROVE CostOf(m, p) \in Int
    BY MoneyIsInt
  <2> QED BY <1>1, <2>1, <2>2, CustomersAreMany, FewPlans DEF CostsOf
<1>3. ASSUME NEW c \in PlanCodes
      PROVE  N[c] = SumFunctionOnSet(F, Keyed(Customers, K, c)) /\ N[c] \in Int
  <2>1. PICK S : S = Keyed(Customers, K, c)
    OBVIOUS
  <2>2. S \in SUBSET Customers /\ S = OnPlan(c)
    BY <1>1, <2>1 DEF Keyed, OnPlan
  <2>3. Cost(S, p) = SumFunctionOnSet(F, S)
    BY <1>1, <2>2, PartOfMoney
  <2>4. IsFiniteSet(S) /\ \A m \in S : F[m] \in Int
    BY <1>2, <2>2, FS_Subset
  <2>5. SumFunctionOnSet(F, S) \in Int
    BY <2>4, SumIsInt
  <2> QED BY <2>1, <2>2, <2>3, <2>5
<1>4. \A c \in PlanCodes : N[c] = SumFunctionOnSet(F, Keyed(Customers, K, c))
  BY <1>3
<1>5. SumFunctionOnSet(N, PlanCodes) = SumFunctionOnSet(F, Customers)
  BY <1>2, <1>4, SumByKey
<1> QED BY <1>1, <1>3, <1>5

LEMMA MarginsByPlanAdd ==
  ASSUME FiguresTypeOK, NEW p, p.from \in Int, p.to \in Int
  PROVE  /\ SumFunctionOnSet(MarginByPlan(p), PlanCodes) = SumFunctionOnSet(MarginOf(p), Customers)
         /\ \A c \in PlanCodes : MarginByPlan(p)[c] \in Int
<1>1. PICK M, R, C : M = MarginByPlan(p) /\ R = RevenueByPlan(p) /\ C = [c \in PlanCodes |-> Cost(OnPlan(c), p)]
  OBVIOUS
<1>2. \A c \in PlanCodes : C[c] = Cost(OnPlan(c), p)
  BY <1>1
<1>3. (\A c \in PlanCodes : C[c] \in Int) /\ SumFunctionOnSet(C, PlanCodes) = SumFunctionOnSet(CostsOf(p), Customers)
  BY <1>2, PlansCostAll
<1>4. (\A c \in PlanCodes : R[c] \in Int) /\ SumFunctionOnSet(R, PlanCodes) = SumFunctionOnSet(RevenueOf(p), Customers)
  BY <1>1, PlansEarnAll
<1>5. ASSUME NEW c \in PlanCodes PROVE M[c] \in Int /\ C[c] \in Int /\ R[c] = M[c] + C[c]
  <2>1. M[c] = R[c] - C[c]
    BY <1>1 DEF MarginByPlan
  <2> QED BY <1>3, <1>4, <2>1
<1>6. IsFiniteSet(PlanCodes) /\ \A c \in PlanCodes : M[c] \in Int
  BY <1>5, FewPlans
<1>7. SumFunctionOnSet(R, PlanCodes) = SumFunctionOnSet(M, PlanCodes) + SumFunctionOnSet(C, PlanCodes)
  BY <1>5, <1>6, SumAdds
<1>8. SumFunctionOnSet(M, PlanCodes) \in Int
  BY <1>6, SumIsInt
<1>9. PICK m, t, c : /\ m = SumFunctionOnSet(M, PlanCodes) /\ t = SumFunctionOnSet(MarginOf(p), Customers)
                     /\ c = SumFunctionOnSet(CostsOf(p), Customers)
  OBVIOUS
<1>10. m \in Int /\ t \in Int /\ c \in Int /\ m + c = t + c
  BY <1>3, <1>4, <1>7, <1>8, <1>9, MoneyAdds
<1>11. m = t
  BY <1>10
<1> QED BY <1>1, <1>6, <1>9, <1>11

LEMMA RevenueExport ==
  ASSUME FiguresTypeOK, NEW p, p.from \in Int, p.to \in Int, NEW rows, rows = Export("revenue", p)
  PROVE  SumFunction([i \in DOMAIN rows |-> rows[i].margin]) = SumFunctionOnSet(MarginOf(p), Customers)
<1>1. PICK q, M, I : q = <<"free", "starter", "growth", "pro">> /\ M = MarginByPlan(p) /\ I = 1 .. 4
  OBVIOUS
<1>2. rows = [i \in I |-> [key |-> q[i], calls |-> 0, margin |-> M[q[i]]]]
  BY <1>1 DEF Export
<1>3. PICK G : G = [i \in I |-> rows[i].margin]
  OBVIOUS
<1>4. DOMAIN rows = I /\ \A i \in I : G[i] = M[q[i]]
  BY <1>2, <1>3
<1>5. I = {1, 2, 3, 4}
  BY <1>1
<1>6. (\A i \in I : q[i] \in PlanCodes) /\ (\A i, j \in I : q[i] = q[j] => i = j)
      /\ (\A c \in PlanCodes : \E i \in I : q[i] = c)
  <2>1. q[1] = "free" /\ q[2] = "starter" /\ q[3] = "growth" /\ q[4] = "pro"
    BY <1>1
  <2> QED BY <1>5, <2>1 DEF PlanCodes
<1>7. IsFiniteSet(I)
  <2>1. 1 \in Int /\ 4 \in Int
    OBVIOUS
  <2> QED BY <1>1, <2>1, RangesAreFinite
<1>8. IsFiniteSet(PlanCodes) /\ \A c \in PlanCodes : M[c] \in Int
  BY <1>1, FewPlans, MarginsByPlanAdd
<1>9. (\A i \in I : q[i] \in PlanCodes) /\ (\A c \in PlanCodes : M[c] \in Int)
  BY <1>6, <1>8
<1>10. PICK J, P : J = I /\ P = PlanCodes
  OBVIOUS
<1>11. SumFunctionOnSet(G, J) = SumFunctionOnSet(M, P)
  <2>1. /\ IsFiniteSet(J) /\ IsFiniteSet(P) /\ (\A x \in P : M[x] \in Int) /\ (\A i \in J : q[i] \in P)
        /\ (\A i, j \in J : q[i] = q[j] => i = j) /\ (\A x \in P : \E i \in J : q[i] = x)
        /\ (\A i \in J : G[i] = M[q[i]])
    BY <1>4, <1>6, <1>7, <1>8, <1>10
  <2> QED BY <2>1, SumOfList
<1>12. SumFunctionOnSet(M, P) = SumFunctionOnSet(MarginOf(p), Customers)
  BY <1>1, <1>10, MarginsByPlanAdd
<1> QED BY <1>3, <1>4, <1>10, <1>11, <1>12 DEF SumFunction

MarginOrder(p) ==
  {mk \in Customers \X Customers :
     \/ Margin(mk[1], p) < Margin(mk[2], p)
     \/ Margin(mk[1], p) = Margin(mk[2], p) /\ mk[1] < mk[2]}
Earners(p) == {m \in Customers : RevenueIn(m, p.from, p.to) > 0 \/ CostOf(m, p) > 0}

(* Who is not on the margin list has no margin. *)
LEMMA MarginListAddsUp ==
  ASSUME FiguresTypeOK, NEW p, p.from \in Int, p.to \in Int
  PROVE  SumFunction([m \in ToSet(MarginByMerchant(p)) |-> Margin(m, p)]) = SumFunctionOnSet(MarginOf(p), Customers)
<1>1. PICK S, r, K, l : /\ S = Earners(p) /\ r = MarginOrder(p) /\ K = MarginOf(p) /\ l = Ranked(S, r)
  OBVIOUS
<1>2. S \in SUBSET Customers /\ S \in SUBSET Nat /\ IsFiniteSet(S) /\ IsFiniteSet(Customers)
  BY <1>1, CustomersAreMany, FiguresAssumption, FS_Subset DEF Earners, Customers
<1>3. (\A m \in Customers : K[m] \in Int) /\ (\A m \in Customers : K[m] = Margin(m, p))
  BY <1>1, MoneyIsInt DEF MarginOf
<1>4. \A x \in S : K[x] \in Int
  BY <1>2, <1>3
<1>5. \A x, y \in S : <<x, y>> \in r <=> K[x] < K[y] \/ (K[x] = K[y] /\ x < y)
  BY <1>1, <1>2, <1>3 DEF MarginOrder
<1>6. Orders(r, S)
  BY <1>2, <1>4, <1>5, ByFigureThenId
<1>7. MarginByMerchant(p) = l
  BY <1>1 DEF MarginByMerchant, MarginOrder, Earners
<1>8. ToSet(l) = S
  <2>1. RankedList(l, S, r)
    BY <1>1, <1>2, <1>6, RankedIsIt
  <2>2. (\A i \in 1 .. Count(S) : l[i] \in S) /\ (\A x \in S : \E i \in 1 .. Count(S) : l[i] = x)
    BY <1>2, <1>6, <2>1, ListIsWhole
  <2>3. DOMAIN l = 1 .. Count(S)
    BY <2>1 DEF RankedList
  <2> QED BY <2>2, <2>3 DEF ToSet
<1>9. ASSUME NEW m \in Customers \ S PROVE K[m] = 0
  <2>1. PICK v, c : v = RevenueIn(m, p.from, p.to) /\ c = CostOf(m, p)
    OBVIOUS
  <2>2. v \in Nat /\ c \in Nat /\ ~(v > 0) /\ ~(c > 0)
    BY <1>1, <1>9, <2>1, MoneyIsInt DEF Earners
  <2>3. Margin(m, p) = v - c
    BY <2>1 DEF Margin
  <2>4. v - c = 0
    BY <2>2
  <2> QED BY <1>3, <2>3, <2>4
<1>10. SumFunctionOnSet(K, Customers) = SumFunctionOnSet(K, S)
  BY <1>2, <1>3, <1>9, SumOverPart
<1>11. SumFunction([m \in S |-> Margin(m, p)]) = SumFunctionOnSet(K, S)
  BY <1>1, <1>2, PartOfMoney
<1> QED BY <1>1, <1>7, <1>8, <1>10, <1>11

LEMMA ExportsTell ==
  ASSUME FiguresTypeOK, NothingAhead
  PROVE  ExportsAgree
<1> SUFFICES ASSUME NEW p \in Asked \cap {Preset(30)}
    PROVE
      LET calls(dataset) ==
            LET rows == Export(dataset, p) IN SumFunction([i \in DOMAIN rows |-> rows[i].calls])
          margin(dataset) ==
            LET rows == Export(dataset, p) IN SumFunction([i \in DOMAIN rows |-> rows[i].margin])
      IN  /\ calls("merchants") = calls("usage")
          /\ Count(Callers(p)) <= 25 => calls("quality") = calls("usage")
          /\ margin("merchants") = margin("revenue")
          /\ SumFunction([m \in ToSet(MarginByMerchant(p)) |-> Margin(m, p)]) = margin("revenue")
          /\ \A sort \in {"health", "plan", "signupAt", "lastActivityAt", "margin"} :
               Listed(p, sort, "asc", "", "") = Reverse(Listed(p, sort, "desc", "", ""))
  BY DEF ExportsAgree
<1>1. p.from \in Int /\ p.to \in Int
  BY PeriodsEndLater DEF Asked
<1>2. PICK a, b, c, d : /\ a = Export("merchants", p) /\ b = Export("usage", p) /\ c = Export("quality", p)
                       /\ d = Export("revenue", p)
  OBVIOUS
<1>3. SumFunction([i \in DOMAIN a |-> a[i].calls]) = Count(CallsHere(p.from, p.to))
      /\ SumFunction([i \in DOMAIN a |-> a[i].margin]) = SumFunctionOnSet(MarginOf(p), Customers)
  BY <1>1, <1>2, MerchantsExport
<1>4. SumFunction([i \in DOMAIN b |-> b[i].calls]) = Count(CallsHere(p.from, p.to))
  BY <1>1, <1>2, UsageExport
<1>5. Count(Callers(p)) <= 25 => SumFunction([i \in DOMAIN c |-> c[i].calls]) = Count(CallsHere(p.from, p.to))
  BY <1>1, <1>2, QualityExport
<1>6. SumFunction([i \in DOMAIN d |-> d[i].margin]) = SumFunctionOnSet(MarginOf(p), Customers)
  BY <1>1, <1>2, RevenueExport
<1>7. SumFunction([m \in ToSet(MarginByMerchant(p)) |-> Margin(m, p)]) = SumFunctionOnSet(MarginOf(p), Customers)
  BY <1>1, MarginListAddsUp
<1>8. \A sort \in {"health", "plan", "signupAt", "lastActivityAt", "margin"} :
         Listed(p, sort, "asc", "", "") = Reverse(Listed(p, sort, "desc", "", ""))
  BY <1>1, ListsTurnAround DEF Sorts
<1> QED BY <1>2, <1>3, <1>4, <1>5, <1>6, <1>7, <1>8

(***************************************************************************)
(* The reports of the back office agree, at every moment of every history of *)
(* its shops, orders and calls and for every period that can be asked for:   *)
(* the days, the hours, the shops and the exports count the same calls,    *)
(* the plans share out the revenue, and every list, turned around, is the     *)
(* list in the other direction.                                             *)
(***************************************************************************)
THEOREM FiguresAlwaysAgree == FiguresSpec => []FiguresAgree
<1>1. FiguresTypeOK /\ NothingAhead => DailyAddsUp /\ RevenueByPlanAddsUp /\ ExportsAgree
  BY DaysOfReportsAddUp, PlansShareRevenue, ExportsTell
<1>2. FiguresTypeOK /\ NothingAhead /\ OverviewAgrees /\ HealthTellsStatus => FiguresAgree
  BY <1>1 DEF FiguresAgree
<1> QED BY <1>2, FiguresTypes, StaysBehind, OverviewAlwaysAgrees, HealthAlwaysTellsStatus, PTL
=============================================================================
