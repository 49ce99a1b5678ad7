----------------------------- MODULE ImportProofs -----------------------------
(***************************************************************************)
(* An import keeps the rows of the sheet, whatever is written in its cells:  *)
(* quoting, doubling of quotes, cutting a line into cells and finding a       *)
(* column by its name undo each other for every text, every header and        *)
(* every number of rows.                                                    *)
(*                                                                          *)
(* The parser walks a line from place to place.  A walk is a recursive        *)
(* function; that there is one is proved first (WalkExists), by taking the    *)
(* first place from which no walk goes.  FlattenSeq puts pieces together,     *)
(* and each piece is found again where it stands (PiecesStand).              *)
(***************************************************************************)
EXTENDS OrderImport, WellFoundedInduction, TLAPS

(* A set of naturals that is not empty has a least one: the induction used below. *)
LEMMA LeastOf ==
  ASSUME NEW B, B \subseteq Nat, B # {}
  PROVE  \E n \in B : \A k \in B : n <= k
<1>1. PICK n \in B : \A k \in B : ~(<<k, n>> \in OpToRel(<, Nat))
  BY WFMin, NatLessThanWellFounded
<1>2. \A k \in B : ~(k < n)
  BY <1>1 DEF OpToRel
<1>3. n \in Nat /\ \A k \in B : k \in Nat
  OBVIOUS
<1>4. \A k \in B : n <= k
  BY <1>2, <1>3
<1> QED BY <1>4

-----------------------------------------------------------------------------
(* Pieces put together *)

Flattens(g, p, n) == g = [i \in 1 .. n |-> IF i = 1 THEN p[i] ELSE g[i - 1] \o p[i]]

(* FlattenSeq is a recursive function over the pieces, and there is one. *)
LEMMA FlattenExists ==
  ASSUME NEW p, NEW n \in Nat
  PROVE  \E g : Flattens(g, p, n)
<1> DEFINE B == {k \in Nat : ~\E g : Flattens(g, p, k)}
<1> SUFFICES ASSUME B # {} PROVE FALSE
  OBVIOUS
<1>1. PICK k \in B : \A j \in B : k <= j
  <2>1. B \subseteq Nat
    OBVIOUS
  <2> HIDE DEF B
  <2> QED BY <2>1, LeastOf
<1>2. k # 0
  <2> SUFFICES ASSUME k = 0 PROVE FALSE
    OBVIOUS
  <2>1. 1 .. 0 = {}
    OBVIOUS
  <2>2. PICK g : g = [i \in 1 .. 0 |-> p[i]]
    OBVIOUS
  <2>3. Flattens(g, p, 0)
    BY <2>1, <2>2 DEF Flattens
  <2> QED BY <2>3, <1>1
<1>3. k - 1 \in Nat /\ k - 1 \notin B
  BY <1>1, <1>2
<1>4. PICK g : Flattens(g, p, k - 1)
  BY <1>3
<1>5. PICK h : h = [i \in 1 .. k |-> IF i = 1 THEN p[i] ELSE g[i - 1] \o p[i]]
  OBVIOUS
<1>6. ASSUME NEW i \in 1 .. k - 1 PROVE h[i] = g[i]
  <2>1. i \in 1 .. k
    BY <1>3
  <2>2. g[i] = IF i = 1 THEN p[i] ELSE g[i - 1] \o p[i]
    BY <1>4 DEF Flattens
  <2> QED BY <1>5, <2>1, <2>2
<1>7. \A i \in 1 .. k : i # 1 => h[i - 1] = g[i - 1]
  BY <1>3, <1>6
<1>8. h = [i \in 1 .. k |-> IF i = 1 THEN p[i] ELSE h[i - 1] \o p[i]]
  BY <1>5, <1>7
<1> QED BY <1>1, <1>8 DEF Flattens

(* How the first pieces are put together: each one after what is there. *)
Whole(p) == CHOOSE g : Flattens(g, p, Len(p))

(* FlattenSeq is the last of them. *)
LEMMA FlattenIsWhole ==
  ASSUME NEW p
  PROVE  FlattenSeq(p) = IF Len(p) = 0 THEN p ELSE Whole(p)[Len(p)]
<1>1. FlattenSeq(p) =
        IF Len(p) = 0 THEN p
        ELSE (CHOOSE g : g = [i \in 1 .. Len(p) |-> IF i = 1 THEN p[i] ELSE g[i - 1] \o p[i]])[Len(p)]
  BY Zenon DEF FlattenSeq
<1> QED BY <1>1, Zenon DEF Whole, Flattens

(* The first piece is there alone, and each later one is put after what is there. *)
LEMMA WholeGrows ==
  ASSUME NEW T, NEW p \in Seq(Seq(T))
  PROVE  \A i \in 1 .. Len(p) : Whole(p)[i] = IF i = 1 THEN p[i] ELSE Whole(p)[i - 1] \o p[i]
<1>0. Len(p) \in Nat
  OBVIOUS
<1>1. Flattens(Whole(p), p, Len(p))
  BY <1>0, FlattenExists DEF Whole
<1> QED BY <1>1 DEF Flattens

(* What stands before piece i. *)
LengthBefore(p, i) == IF i = 1 THEN 0 ELSE Len(Whole(p)[i - 1])

(* Pieces of a kind make a sequence of that kind. *)
LEMMA WholeIsSeq ==
  ASSUME NEW T, NEW p \in Seq(Seq(T))
  PROVE  \A i \in 1 .. Len(p) : Whole(p)[i] \in Seq(T)
<1> DEFINE B == {i \in 1 .. Len(p) : Whole(p)[i] \notin Seq(T)}
<1> SUFFICES ASSUME B # {} PROVE FALSE
  OBVIOUS
<1>1. PICK k \in B : \A j \in B : k <= j
  <2>1. B \subseteq Nat
    OBVIOUS
  <2> HIDE DEF B
  <2> QED BY <2>1, LeastOf
<1>2. k \in 1 .. Len(p) /\ Whole(p)[k] \notin Seq(T) /\ p[k] \in Seq(T)
  BY <1>1
<1>3. k # 1
  BY <1>2, WholeGrows
<1>4. k - 1 \in 1 .. Len(p) /\ k - 1 \notin B
  BY <1>1, <1>2, <1>3
<1>5. Whole(p)[k - 1] \in Seq(T)
  BY <1>4
<1>6. Whole(p)[k] = Whole(p)[k - 1] \o p[k]
  BY <1>2, <1>3, WholeGrows
<1> QED BY <1>2, <1>5, <1>6

(* One more piece takes the places after what stands before it. *)
LEMMA BeforeGrows ==
  ASSUME NEW T, NEW p \in Seq(Seq(T)), NEW i \in 1 .. Len(p)
  PROVE  /\ LengthBefore(p, i) \in Nat /\ Len(Whole(p)[i]) = LengthBefore(p, i) + Len(p[i])
         /\ i < Len(p) => LengthBefore(p, i + 1) = LengthBefore(p, i) + Len(p[i])
         /\ \A j \in 1 .. Len(p[i]) : Whole(p)[i][LengthBefore(p, i) + j] = p[i][j]
         /\ \A j \in 1 .. LengthBefore(p, i) : Whole(p)[i][j] = Whole(p)[i - 1][j]
<1>1. PICK w, e : w = Whole(p)[i] /\ e = p[i]
  OBVIOUS
<1>2. w \in Seq(T) /\ e \in Seq(T)
  BY <1>1, WholeIsSeq
<1>3. CASE i = 1
  <2>1. LengthBefore(p, i) = 0 /\ w = e
    BY <1>1, <1>3, WholeGrows DEF LengthBefore
  <2>2. LengthBefore(p, i + 1) = Len(w)
    BY <1>1, <1>3 DEF LengthBefore
  <2> QED BY <1>1, <1>2, <2>1, <2>2
<1>4. CASE i # 1
  <2>1. PICK v : v = Whole(p)[i - 1]
    OBVIOUS
  <2>2. i - 1 \in 1 .. Len(p)
    BY <1>4
  <2>3. v \in Seq(T) /\ w = v \o e
    BY <1>1, <1>4, <2>1, <2>2, WholeIsSeq, WholeGrows
  <2>4. LengthBefore(p, i) = Len(v)
    BY <1>4, <2>1 DEF LengthBefore
  <2>5. LengthBefore(p, i + 1) = Len(w)
    <3>1. i + 1 # 1 /\ (i + 1) - 1 = i
      OBVIOUS
    <3> QED BY <1>1, <3>1 DEF LengthBefore
  <2>6. Len(w) = Len(v) + Len(e) /\ Len(v) \in Nat
    BY <1>2, <2>3
  <2>7. \A j \in 1 .. Len(e) : w[Len(v) + j] = e[j]
    BY <1>2, <2>3
  <2>8. \A j \in 1 .. Len(v) : w[j] = v[j]
    BY <1>2, <2>3
  <2> QED BY <1>1, <2>1, <2>4, <2>5, <2>6, <2>7, <2>8
<1> QED BY <1>3, <1>4

(* What is there stays where it is. *)
LEMMA WholePrefix ==
  ASSUME NEW T, NEW p \in Seq(Seq(T)), NEW i \in 1 .. Len(p)
  PROVE  \A k \in i .. Len(p) :
           /\ Len(Whole(p)[i]) <= Len(Whole(p)[k])
           /\ \A j \in 1 .. Len(Whole(p)[i]) : Whole(p)[k][j] = Whole(p)[i][j]
<1> DEFINE Good(k) == /\ Len(Whole(p)[i]) <= Len(Whole(p)[k])
                      /\ \A j \in 1 .. Len(Whole(p)[i]) : Whole(p)[k][j] = Whole(p)[i][j]
           B == {k \in i .. Len(p) : ~Good(k)}
<1> SUFFICES ASSUME B # {} PROVE FALSE
  OBVIOUS
<1>1. PICK k \in B : \A j \in B : k <= j
  <2>1. B \subseteq Nat
    OBVIOUS
  <2> HIDE DEF B
  <2> QED BY <2>1, LeastOf
<1>2. k \in i .. Len(p) /\ k \in 1 .. Len(p) /\ ~Good(k)
  BY <1>1
<1>0. Len(Whole(p)[i]) \in Nat
  BY WholeIsSeq
<1>3. k # i
  BY <1>0, <1>2
<1>4. k - 1 \in i .. Len(p) /\ k - 1 \in 1 .. Len(p) /\ k - 1 \notin B
  BY <1>1, <1>2, <1>3
<1>5. Good(k - 1)
  BY <1>4
<1>6. PICK u, v, w : u = Whole(p)[i] /\ v = Whole(p)[k - 1] /\ w = Whole(p)[k]
  OBVIOUS
<1>7. Len(u) <= Len(v) /\ \A j \in 1 .. Len(u) : v[j] = u[j]
  BY <1>5, <1>6
<1>8. w = v \o p[k] /\ v \in Seq(T) /\ p[k] \in Seq(T) /\ u \in Seq(T)
  <2>1. k # 1
    BY <1>2, <1>3
  <2>2. Whole(p)[k] = Whole(p)[k - 1] \o p[k]
    BY <1>2, <2>1, WholeGrows
  <2>3. Whole(p)[k - 1] \in Seq(T) /\ Whole(p)[i] \in Seq(T)
    BY <1>4, WholeIsSeq
  <2>4. p[k] \in Seq(T)
    BY <1>2
  <2> QED BY <1>6, <2>2, <2>3, <2>4
<1>9. Len(w) >= Len(v) /\ \A j \in 1 .. Len(v) : w[j] = v[j]
  BY <1>8
<1>10. Len(u) <= Len(w) /\ \A j \in 1 .. Len(u) : w[j] = u[j]
  <2>1. Len(u) \in Nat /\ Len(v) \in Nat /\ Len(w) \in Nat
    BY <1>8
  <2>2. Len(u) <= Len(w) /\ \A j \in 1 .. Len(u) : j \in 1 .. Len(v)
    <3> HIDE DEF B
    <3> QED BY <1>7, <1>9, <2>1
  <2> QED BY <1>7, <1>9, <2>2
<1> QED BY <1>2, <1>6, <1>10

(* Every piece stands, as it is, right after the piece before it. *)
LEMMA PiecesStand ==
  ASSUME NEW T, NEW p \in Seq(Seq(T)), NEW f, f = FlattenSeq(p)
  PROVE  /\ f \in Seq(T)
         /\ Len(p) = 0 => f = <<>>
         /\ Len(p) # 0 => LengthBefore(p, 1) = 0 /\ Len(f) = LengthBefore(p, Len(p)) + Len(p[Len(p)])
         /\ \A i \in 1 .. Len(p) :
              /\ LengthBefore(p, i) \in Nat /\ LengthBefore(p, i) + Len(p[i]) <= Len(f)
              /\ i < Len(p) => LengthBefore(p, i + 1) = LengthBefore(p, i) + Len(p[i])
              /\ \A j \in 1 .. Len(p[i]) : f[LengthBefore(p, i) + j] = p[i][j]
<1>1. CASE Len(p) = 0
  <2>1. f = <<>>
    BY <1>1, FlattenIsWhole
  <2>2. 1 .. Len(p) = {}
    BY <1>1
  <2> QED BY <1>1, <2>1, <2>2
<1>2. CASE Len(p) # 0
  <2>1. PICK n : n = Len(p)
    OBVIOUS
  <2>2. n \in 1 .. Len(p) /\ f = Whole(p)[n]
    BY <1>2, <2>1, FlattenIsWhole
  <2>3. f \in Seq(T)
    BY <2>2, WholeIsSeq
  <2>4. LengthBefore(p, 1) = 0 /\ Len(f) = LengthBefore(p, n) + Len(p[n])
    <3>1. LengthBefore(p, 1) = 0
      BY DEF LengthBefore
    <3>2. Len(Whole(p)[n]) = LengthBefore(p, n) + Len(p[n])
      BY <2>2, BeforeGrows
    <3> QED BY <2>2, <3>1, <3>2
  <2>5. ASSUME NEW i \in 1 .. Len(p)
        PROVE  /\ LengthBefore(p, i) \in Nat /\ LengthBefore(p, i) + Len(p[i]) <= Len(f)
               /\ i < Len(p) => LengthBefore(p, i + 1) = LengthBefore(p, i) + Len(p[i])
               /\ \A j \in 1 .. Len(p[i]) : f[LengthBefore(p, i) + j] = p[i][j]
    <3>1. PICK w, e, b : w = Whole(p)[i] /\ e = p[i] /\ b = LengthBefore(p, i)
      OBVIOUS
    <3>2. n \in i .. Len(p)
      BY <2>1, <2>2
    <3>3. Len(w) <= Len(f) /\ \A j \in 1 .. Len(w) : f[j] = w[j]
      <4>1. /\ Len(Whole(p)[i]) <= Len(Whole(p)[n])
            /\ \A j \in 1 .. Len(Whole(p)[i]) : Whole(p)[n][j] = Whole(p)[i][j]
        BY <3>2, WholePrefix
      <4> QED BY <2>2, <3>1, <4>1
    <3>4. /\ b \in Nat /\ Len(w) = b + Len(e)
          /\ i < Len(p) => LengthBefore(p, i + 1) = b + Len(e)
          /\ \A j \in 1 .. Len(e) : w[b + j] = e[j]
      BY <3>1, BeforeGrows
    <3>5. e \in Seq(T)
      BY <3>1
    <3>6. \A j \in 1 .. Len(e) : b + j \in 1 .. Len(w)
      BY <3>4, <3>5
    <3>7. \A j \in 1 .. Len(e) : f[b + j] = e[j]
      BY <3>3, <3>4, <3>6
    <3> QED BY <3>1, <3>3, <3>4, <3>7
  <2> QED BY <1>2, <2>1, <2>3, <2>4, <2>5
<1> QED BY <1>1, <1>2

(* What relates the members of the pieces relates the members of the whole. *)
Maps(R, u, v) == Len(u) = Len(v) /\ \A j \in 1 .. Len(u) : <<u[j], v[j]>> \in R
MapsAll(R, p, q) == Len(p) = Len(q) /\ \A i \in 1 .. Len(p) : Maps(R, p[i], q[i])

(* The same for two pieces. *)
LEMMA TwoMap ==
  ASSUME NEW T, NEW U, NEW R, NEW u \in Seq(T), NEW e \in Seq(T), NEW v \in Seq(U), NEW d \in Seq(U),
         Maps(R, u, v), Maps(R, e, d)
  PROVE  Maps(R, u \o e, v \o d)
<1>0. Len(u) = Len(v) /\ Len(e) = Len(d) /\ Len(u) \in Nat /\ Len(e) \in Nat
  BY DEF Maps
<1>1. Len(u \o e) = Len(u) + Len(e) /\ Len(v \o d) = Len(v) + Len(d)
  OBVIOUS
<1>2. ASSUME NEW j \in 1 .. Len(u) + Len(e) PROVE <<(u \o e)[j], (v \o d)[j]>> \in R
  <2>1. CASE j <= Len(u)
    <3>1. (u \o e)[j] = u[j] /\ (v \o d)[j] = v[j] /\ j \in 1 .. Len(u)
      BY <1>0, <2>1
    <3> QED BY <3>1 DEF Maps
  <2>2. CASE j > Len(u)
    <3>1. PICK i : i = j - Len(u)
      OBVIOUS
    <3>2. i \in 1 .. Len(e) /\ j = Len(u) + i
      BY <1>0, <2>2, <3>1
    <3>3. (u \o e)[j] = e[i] /\ (v \o d)[j] = d[i]
      BY <1>0, <3>2
    <3>4. <<e[i], d[i]>> \in R
      BY <3>2 DEF Maps
    <3> QED BY <3>3, <3>4
  <2>3. j <= Len(u) \/ j > Len(u)
    BY <1>0
  <2> QED BY <2>1, <2>2, <2>3
<1> QED BY <1>0, <1>1, <1>2 DEF Maps

(* The same for any number of pieces: a list of lines and the list of their rows. *)
LEMMA FlattenMaps ==
  ASSUME NEW T, NEW U, NEW R, NEW p \in Seq(Seq(T)), NEW q \in Seq(Seq(U)), MapsAll(R, p, q)
  PROVE  Maps(R, FlattenSeq(p), FlattenSeq(q))
<1> DEFINE Good(k) == Maps(R, Whole(p)[k], Whole(q)[k])
           B == {k \in 1 .. Len(p) : ~Good(k)}
<1>0. Len(p) \in Nat /\ Len(q) = Len(p)
  BY DEF MapsAll
<1>1. CASE Len(p) = 0
  <2>1. FlattenSeq(p) = <<>> /\ FlattenSeq(q) = <<>>
    BY <1>0, <1>1, FlattenIsWhole
  <2> QED BY <2>1 DEF Maps
<1>2. CASE Len(p) # 0
  <2>1. PICK n : n = Len(p)
    OBVIOUS
  <2>2. n \in 1 .. Len(p) /\ FlattenSeq(p) = Whole(p)[n] /\ FlattenSeq(q) = Whole(q)[n]
    <3>1. FlattenSeq(p) = Whole(p)[Len(p)]
      BY <1>2, FlattenIsWhole
    <3>2. FlattenSeq(q) = Whole(q)[Len(q)]
      BY <1>0, <1>2, FlattenIsWhole
    <3> QED BY <1>0, <1>2, <2>1, <3>1, <3>2
  <2> SUFFICES ASSUME B # {} PROVE FALSE
    BY <2>2
  <2>3. PICK k \in B : \A j \in B : k <= j
    <3>1. B \subseteq Nat
      OBVIOUS
    <3> HIDE DEF B
    <3> QED BY <3>1, LeastOf
  <2>4. k \in 1 .. Len(p) /\ k \in 1 .. Len(q) /\ ~Good(k)
    BY <1>0, <2>3
  <2>5. PICK e, d : e = p[k] /\ d = q[k]
    OBVIOUS
  <2>6. e \in Seq(T) /\ d \in Seq(U) /\ Maps(R, e, d)
    BY <2>4, <2>5 DEF MapsAll
  <2>7. k # 1
    <3> SUFFICES ASSUME k = 1 PROVE FALSE
      OBVIOUS
    <3>1. Whole(p)[k] = e /\ Whole(q)[k] = d
      BY <2>4, <2>5, WholeGrows
    <3> QED BY <2>4, <2>6, <3>1
  <2>8. k - 1 \in 1 .. Len(p) /\ k - 1 \in 1 .. Len(q) /\ ~(k <= k - 1)
    BY <1>0, <2>4, <2>7
  <2>9. Good(k - 1)
    BY <2>3, <2>8
  <2>10. PICK u, v : u = Whole(p)[k - 1] /\ v = Whole(q)[k - 1]
    OBVIOUS
  <2>11. u \in Seq(T) /\ v \in Seq(U) /\ Maps(R, u, v)
    <3>1. Whole(p)[k - 1] \in Seq(T) /\ Whole(q)[k - 1] \in Seq(U)
      BY <2>8, WholeIsSeq
    <3> QED BY <2>9, <2>10, <3>1
  <2>12. Whole(p)[k] = u \o e /\ Whole(q)[k] = v \o d
    <3>1. Whole(p)[k] = Whole(p)[k - 1] \o p[k]
      BY <2>4, <2>7, WholeGrows
    <3>2. Whole(q)[k] = Whole(q)[k - 1] \o q[k]
      BY <2>4, <2>7, WholeGrows
    <3> QED BY <2>5, <2>10, <3>1, <3>2
  <2> QED BY <2>4, <2>6, <2>11, <2>12, TwoMap
<1> QED BY <1>1, <1>2

-----------------------------------------------------------------------------
(* Walks over a line *)

(* Where a walk stops it has a value; elsewhere a later place has it, and a part is put before it. *)
Put(part, v) == IF part = <<>> THEN v ELSE part \o v
Walks(f, k, m, stop, value, part, next) ==
  f = [i \in k .. m |-> IF stop[i] THEN value[i] ELSE Put(part[i], f[next[i]])]

(* There is a walk wherever each step leads on and none leaves the line. *)
LEMMA WalkExists ==
  ASSUME NEW m \in Nat, NEW stop, NEW value, NEW part, NEW next,
         \A i \in 1 .. m : ~stop[i] => next[i] \in i + 1 .. m
  PROVE  \E f : Walks(f, 1, m, stop, value, part, next)
<1> DEFINE B == {d \in 0 .. m : ~\E f : Walks(f, m - d + 1, m, stop, value, part, next)}
<1>a. m \in 0 .. m /\ m - m + 1 = 1
  OBVIOUS
<1> SUFFICES ASSUME B # {} PROVE FALSE
  BY <1>a
<1>1. PICK d \in B : \A j \in B : d <= j
  <2>1. B \subseteq Nat
    OBVIOUS
  <2> HIDE DEF B
  <2> QED BY <2>1, LeastOf
<1>2. d \in 0 .. m /\ ~\E f : Walks(f, m - d + 1, m, stop, value, part, next)
  BY <1>1
<1>3. PICK k : k = m - d + 1
  OBVIOUS
<1>4. k \in 1 .. m + 1
  BY <1>2, <1>3
<1>5. k # m + 1
  <2> SUFFICES ASSUME k = m + 1 PROVE FALSE
    OBVIOUS
  <2>1. k .. m = {}
    BY <1>4
  <2>2. PICK f : f = [i \in k .. m |-> value[i]]
    OBVIOUS
  <2>3. Walks(f, k, m, stop, value, part, next)
    BY <2>1, <2>2 DEF Walks
  <2> QED BY <1>2, <1>3, <2>3
<1>6. PICK g : Walks(g, k + 1, m, stop, value, part, next)
  <2>1. d - 1 \in 0 .. m /\ m - (d - 1) + 1 = k + 1 /\ d - 1 \notin B
    BY <1>1, <1>2, <1>3, <1>5
  <2> QED BY <2>1
<1>7. PICK h : h = [i \in k .. m |-> IF stop[i] THEN value[i] ELSE Put(part[i], g[next[i]])]
  OBVIOUS
<1>8. ASSUME NEW i \in k + 1 .. m PROVE h[i] = g[i]
  <2>1. i \in k .. m
    BY <1>4
  <2>2. g[i] = IF stop[i] THEN value[i] ELSE Put(part[i], g[next[i]])
    BY <1>6 DEF Walks
  <2> QED BY <1>7, <2>1, <2>2
<1>9. ASSUME NEW i \in k .. m, ~stop[i] PROVE h[next[i]] = g[next[i]]
  <2>1. i \in 1 .. m
    BY <1>4
  <2>2. next[i] \in i + 1 .. m
    BY <1>9, <2>1
  <2>3. next[i] \in k + 1 .. m
    BY <1>4, <2>2
  <2> QED BY <1>8, <2>3
<1>10. h = [i \in k .. m |-> IF stop[i] THEN value[i] ELSE Put(part[i], h[next[i]])]
  BY <1>7, <1>9
<1> QED BY <1>2, <1>3, <1>10 DEF Walks

-----------------------------------------------------------------------------
(* Reading between the quotes *)

\* The recursive function of "Unquoted".
Reading(f, text) ==
  f = [i \in 1 .. Len(text) + 2 |->
         IF i > Len(text) THEN <<>>
         ELSE <<text[i]>> \o f[IF text[i] = Quote THEN i + 2 ELSE i + 1]]

(* There is a reading of every text. *)
LEMMA ReadingExists ==
  ASSUME NEW text, Len(text) \in Nat
  PROVE  \E f : Reading(f, text)
<1>1. PICK m, stop, value, part, next :
        /\ m = Len(text) + 2
        /\ stop = [i \in 1 .. m |-> i > Len(text)] /\ value = [i \in 1 .. m |-> <<>>]
        /\ part = [i \in 1 .. m |-> <<text[i]>>]
        /\ next = [i \in 1 .. m |-> IF text[i] = Quote THEN i + 2 ELSE i + 1]
  OBVIOUS
<1>5. \A i \in 1 .. m : /\ stop[i] <=> i > Len(text)
                        /\ value[i] = <<>> /\ part[i] = <<text[i]>>
                        /\ next[i] = IF text[i] = Quote THEN i + 2 ELSE i + 1
  BY <1>1
<1>2. m \in Nat /\ \A i \in 1 .. m : ~stop[i] => next[i] \in i + 1 .. m
  <2>1. m \in Nat /\ m = Len(text) + 2
    BY <1>1
  <2>2. ASSUME NEW i \in 1 .. m, ~stop[i] PROVE next[i] \in i + 1 .. m
    <3>1. i <= Len(text) /\ (next[i] = i + 1 \/ next[i] = i + 2)
      BY <1>5, <2>1, <2>2
    <3> QED BY <2>1, <3>1
  <2> QED BY <2>1, <2>2
<1>3. PICK f : Walks(f, 1, m, stop, value, part, next)
  BY <1>2, WalkExists
<1>4. f = [i \in 1 .. m |-> IF stop[i] THEN value[i] ELSE Put(part[i], f[next[i]])]
  BY <1>3 DEF Walks
<1>6. f = [i \in 1 .. m |-> IF i > Len(text) THEN <<>>
                            ELSE <<text[i]>> \o f[IF text[i] = Quote THEN i + 2 ELSE i + 1]]
  <2>1. \A i \in 1 .. m : part[i] # <<>>
    <3>1. \A x : <<x>> # <<>>
      OBVIOUS
    <3> QED BY <1>5, <3>1
  <2>2. \A i \in 1 .. m : Put(part[i], f[next[i]]) = part[i] \o f[next[i]]
    BY <2>1 DEF Put
  <2>3. f = [i \in 1 .. m |-> IF stop[i] THEN value[i] ELSE part[i] \o f[next[i]]]
    BY <1>4, <2>2
  <2> QED BY <1>5, <2>3
<1> QED BY <1>1, <1>6 DEF Reading

(* "Unquoted" is the start of one. *)
LEMMA UnquotedIs ==
  ASSUME NEW text
  PROVE  Unquoted(text) = (CHOOSE f : Reading(f, text))[1]
<1>1. Unquoted(text) =
        (CHOOSE read : read = [i \in 1 .. Len(text) + 2 |->
           IF i > Len(text) THEN <<>>
           ELSE <<text[i]>> \o read[IF text[i] = Quote THEN i + 2 ELSE i + 1]])[1]
  BY Zenon DEF Unquoted
<1> QED BY <1>1, Zenon DEF Reading

(* What is read between the quotes is the start of a reading. *)
LEMMA UnquotedReads ==
  ASSUME NEW text, Len(text) \in Nat
  PROVE  \E f : Reading(f, text) /\ Unquoted(text) = f[1]
  BY ReadingExists, UnquotedIs

-----------------------------------------------------------------------------
(* Looking for the closing quote *)

\* The recursive function of "ClosingQuote".
ClosingWalk(f, line) ==
  f = [i \in 1 .. Len(line) + 1 |->
         IF i > Len(line) THEN i
         ELSE IF line[i] # Quote THEN f[i + 1]
         ELSE IF i < Len(line) /\ line[i + 1] = Quote THEN f[i + 2]
         ELSE i]

\* Whether the field is closed at i, and where the walk goes on if not.
Closes(line, i) == i > Len(line) \/ (line[i] = Quote /\ ~(i < Len(line) /\ line[i + 1] = Quote))
Onwards(line, i) == IF line[i] = Quote THEN i + 2 ELSE i + 1

(* There is a search for the closing quote in every line. *)
LEMMA ClosingExists ==
  ASSUME NEW line, Len(line) \in Nat
  PROVE  \E f : ClosingWalk(f, line)
<1>1. PICK m, stop, value, part, next :
        /\ m = Len(line) + 1
        /\ stop = [i \in 1 .. m |-> Closes(line, i)] /\ value = [i \in 1 .. m |-> i]
        /\ part = [i \in 1 .. m |-> <<>>]
        /\ next = [i \in 1 .. m |-> Onwards(line, i)]
  OBVIOUS
<1>2. \A i \in 1 .. m : /\ stop[i] <=> Closes(line, i)
                        /\ value[i] = i /\ part[i] = <<>> /\ next[i] = Onwards(line, i)
  BY <1>1
<1>3. m \in Nat /\ \A i \in 1 .. m : ~stop[i] => next[i] \in i + 1 .. m
  <2>1. m \in Nat /\ m = Len(line) + 1
    BY <1>1
  <2>2. ASSUME NEW i \in 1 .. m, ~stop[i] PROVE next[i] \in i + 1 .. m
    BY <1>2, <2>1, <2>2 DEF Closes, Onwards
  <2> QED BY <2>1, <2>2
<1>4. PICK f : Walks(f, 1, m, stop, value, part, next)
  BY <1>3, WalkExists
<1>5. f = [i \in 1 .. m |-> IF stop[i] THEN value[i] ELSE Put(part[i], f[next[i]])]
  BY <1>4 DEF Walks
<1>6. f = [i \in 1 .. m |-> IF stop[i] THEN value[i] ELSE f[next[i]]]
  BY <1>2, <1>5 DEF Put
<1>7. f = [i \in 1 .. m |-> IF Closes(line, i) THEN i ELSE f[Onwards(line, i)]]
  BY <1>2, <1>6
<1>8. f = [i \in 1 .. m |-> IF i > Len(line) THEN i
                            ELSE IF line[i] # Quote THEN f[i + 1]
                            ELSE IF i < Len(line) /\ line[i + 1] = Quote THEN f[i + 2]
                            ELSE i]
  BY <1>7 DEF Closes, Onwards
<1> QED BY <1>1, <1>8 DEF ClosingWalk

(* "ClosingQuote" is where it ends. *)
LEMMA ClosingQuoteIs ==
  ASSUME NEW line, NEW start
  PROVE  ClosingQuote(line, start) = (CHOOSE f : ClosingWalk(f, line))[start]
<1>1. ClosingQuote(line, start) =
        (CHOOSE close : close = [i \in 1 .. Len(line) + 1 |->
           IF i > Len(line) THEN i
           ELSE IF line[i] # Quote THEN close[i + 1]
           ELSE IF i < Len(line) /\ line[i + 1] = Quote THEN close[i + 2]
           ELSE i])[start]
  BY Zenon DEF ClosingQuote
<1> QED BY <1>1, Zenon DEF ClosingWalk

(* The closing quote, place by place. *)
LEMMA ClosingQuoteAt ==
  ASSUME NEW line, Len(line) \in Nat, NEW i \in 1 .. Len(line) + 1
  PROVE  ClosingQuote(line, i) = IF Closes(line, i) THEN i ELSE ClosingQuote(line, Onwards(line, i))
<1>1. PICK f : f = CHOOSE g : ClosingWalk(g, line)
  OBVIOUS
<1>2. ClosingWalk(f, line)
  BY <1>1, ClosingExists
<1>3. f[i] = IF Closes(line, i) THEN i ELSE f[Onwards(line, i)]
  BY <1>2 DEF ClosingWalk, Closes, Onwards
<1>4. PICK k : k = Onwards(line, i)
  OBVIOUS
<1>5. ClosingQuote(line, i) = f[i] /\ ClosingQuote(line, k) = f[k]
  BY <1>1, ClosingQuoteIs
<1> QED BY <1>3, <1>4, <1>5

(* The closing quote is in the line, or just after it when there is none. *)
LEMMA ClosingQuoteInLine ==
  ASSUME NEW line, Len(line) \in Nat
  PROVE  \A i \in 1 .. Len(line) + 1 : ClosingQuote(line, i) \in i .. Len(line) + 1
<1>1. PICK m : m = Len(line) + 1
  OBVIOUS
<1> DEFINE B == {d \in 0 .. Len(line) : ClosingQuote(line, m - d) \notin m - d .. m}
<1> SUFFICES ASSUME B # {} PROVE FALSE
  <2>1. ASSUME NEW i \in 1 .. Len(line) + 1, B = {} PROVE ClosingQuote(line, i) \in i .. Len(line) + 1
    <3>1. m - i \in 0 .. Len(line) /\ m - (m - i) = i
      BY <1>1
    <3> QED BY <1>1, <2>1, <3>1
  <2> HIDE DEF B
  <2> QED BY <2>1
<1>2. PICK d \in B : \A j \in B : d <= j
  <2>1. B \subseteq Nat
    OBVIOUS
  <2> HIDE DEF B
  <2> QED BY <2>1, LeastOf
<1>3. PICK i : i = m - d
  OBVIOUS
<1>4. d \in 0 .. Len(line) /\ i \in 1 .. m /\ ClosingQuote(line, i) \notin i .. m
  BY <1>1, <1>2, <1>3
<1>5. ~Closes(line, i) /\ ClosingQuote(line, i) = ClosingQuote(line, Onwards(line, i))
  <2>1. ClosingQuote(line, i) = IF Closes(line, i) THEN i ELSE ClosingQuote(line, Onwards(line, i))
    BY <1>1, <1>4, ClosingQuoteAt
  <2>2. i \in i .. m
    BY <1>1, <1>4
  <2> QED BY <1>4, <2>1, <2>2
<1>6. PICK k : k = Onwards(line, i)
  OBVIOUS
<1>7. k \in i + 1 .. m
  BY <1>1, <1>4, <1>5, <1>6 DEF Closes, Onwards
<1>8. m - k \in 0 .. Len(line) /\ m - (m - k) = k /\ ~(d <= m - k)
  BY <1>1, <1>3, <1>4, <1>7
<1>9. m - k \notin B
  BY <1>2, <1>8
<1>10. ClosingQuote(line, k) \in k .. m
  BY <1>8, <1>9
<1> QED BY <1>1, <1>4, <1>5, <1>6, <1>7, <1>10

(* A comma is looked for from a place on. *)
LEMMA NextCommaIs ==
  ASSUME NEW line, Len(line) \in Nat, NEW i \in 1 .. Len(line) + 1
  PROVE  /\ NextComma(line, i) \in i .. Len(line) + 1
         /\ NextComma(line, i) <= Len(line) => line[NextComma(line, i)] = Comma
         /\ \A j \in i .. NextComma(line, i) - 1 : line[j] # Comma
<1>1. PICK at : at = {j \in i .. Len(line) : line[j] = Comma}
  OBVIOUS
<1>2. CASE at = {}
  <2>1. NextComma(line, i) = Len(line) + 1
    BY <1>1, <1>2 DEF NextComma
  <2>2. \A j \in i .. Len(line) : line[j] # Comma
    BY <1>1, <1>2
  <2> QED BY <2>1, <2>2
<1>3. CASE at # {}
  <2>1. PICK c : c = NextComma(line, i)
    OBVIOUS
  <2>2. c = CHOOSE k \in at : \A j \in at : k <= j
    BY <1>1, <1>3, <2>1 DEF NextComma
  <2>3. \E k \in at : \A j \in at : k <= j
    <3>1. at \subseteq Nat
      BY <1>1
    <3> QED BY <1>3, <3>1, LeastOf
  <2>4. c \in at /\ \A j \in at : c <= j
    BY <2>2, <2>3
  <2>5. c \in i .. Len(line) /\ line[c] = Comma
    BY <1>1, <2>4
  <2>6. ASSUME NEW j \in i .. c - 1, line[j] = Comma PROVE FALSE
    <3>1. j \in at /\ ~(c <= j)
      BY <1>1, <2>5, <2>6
    <3> QED BY <2>4, <3>1
  <2> QED BY <2>1, <2>5, <2>6
<1> QED BY <1>2, <1>3

-----------------------------------------------------------------------------
(* Cutting a line into cells *)

\* The recursive function of "Cells", and what it takes at a place.

Splitting(f, line) ==
  f = [i \in 1 .. Len(line) + 1 |->
        IF i > Len(line) THEN <<<<>>>>
        ELSE IF line[i] = Quote
          THEN <<Unquoted(SubSeq(line, i + 1, ClosingQuote(line, i + 1) - 1))>>
               \o f[AfterQuoted(line, ClosingQuote(line, i + 1))]
        ELSE <<SubSeq(line, i, NextComma(line, i) - 1)>>
             \o (IF NextComma(line, i) > Len(line) THEN <<>> ELSE f[NextComma(line, i) + 1])]

Field(line, i) == IF line[i] = Quote THEN Unquoted(SubSeq(line, i + 1, ClosingQuote(line, i + 1) - 1))
                                     ELSE SubSeq(line, i, NextComma(line, i) - 1)
NextField(line, i) == IF line[i] = Quote THEN AfterQuoted(line, ClosingQuote(line, i + 1))
                                         ELSE NextComma(line, i) + 1
LastField(line, i) == line[i] # Quote /\ NextComma(line, i) > Len(line)

(* The next field starts later, at the latest just after the line. *)
LEMMA NextFieldInLine ==
  ASSUME NEW line, Len(line) \in Nat, NEW i \in 1 .. Len(line), ~LastField(line, i)
  PROVE  NextField(line, i) \in i + 1 .. Len(line) + 1
<1>1. CASE line[i] = Quote
  <2>1. PICK e : e = ClosingQuote(line, i + 1)
    OBVIOUS
  <2>2. e \in i + 1 .. Len(line) + 1
    <3>1. i + 1 \in 1 .. Len(line) + 1
      OBVIOUS
    <3> QED BY <2>1, <3>1, ClosingQuoteInLine
  <2>3. AfterQuoted(line, e) \in i + 1 .. Len(line) + 1
    BY <2>2 DEF AfterQuoted
  <2> QED BY <1>1, <2>1, <2>3 DEF NextField
<1>2. CASE line[i] # Quote
  <2>1. PICK c : c = NextComma(line, i)
    OBVIOUS
  <2>2. c \in i .. Len(line) + 1
    <3>1. i \in 1 .. Len(line) + 1
      OBVIOUS
    <3> QED BY <2>1, <3>1, NextCommaIs
  <2>3. c <= Len(line)
    BY <1>2, <2>1, <2>2 DEF LastField
  <2> QED BY <1>2, <2>1, <2>2, <2>3 DEF NextField
<1> QED BY <1>1, <1>2

(* Every line can be cut into cells. *)
LEMMA SplittingExists ==
  ASSUME NEW line, Len(line) \in Nat
  PROVE  \E f : Splitting(f, line)
<1>1. PICK m, stop, value, part, next :
        /\ m = Len(line) + 1
        /\ stop = [i \in 1 .. m |-> i > Len(line) \/ LastField(line, i)]
        /\ value = [i \in 1 .. m |-> IF i > Len(line) THEN <<<<>>>> ELSE <<Field(line, i)>>]
        /\ part = [i \in 1 .. m |-> <<Field(line, i)>>]
        /\ next = [i \in 1 .. m |-> NextField(line, i)]
  OBVIOUS
<1>2. \A i \in 1 .. m : /\ stop[i] <=> i > Len(line) \/ LastField(line, i)
                        /\ value[i] = IF i > Len(line) THEN <<<<>>>> ELSE <<Field(line, i)>>
                        /\ part[i] = <<Field(line, i)>> /\ next[i] = NextField(line, i)
  BY <1>1
<1>3. m \in Nat /\ \A i \in 1 .. m : ~stop[i] => next[i] \in i + 1 .. m
  <2>1. m \in Nat /\ m = Len(line) + 1
    BY <1>1
  <2>2. ASSUME NEW i \in 1 .. m, ~stop[i] PROVE next[i] \in i + 1 .. m
    <3>0. stop[i] <=> i > Len(line) \/ LastField(line, i)
      BY <1>2
    <3>1. i \in 1 .. Len(line) /\ ~LastField(line, i)
      BY <3>0, <2>1, <2>2
    <3> QED BY <1>2, <2>1, <3>1, NextFieldInLine
  <2> QED BY <2>1, <2>2
<1>4. PICK f : Walks(f, 1, m, stop, value, part, next)
  BY <1>3, WalkExists
<1>5. f = [i \in 1 .. m |-> IF stop[i] THEN value[i] ELSE Put(part[i], f[next[i]])]
  BY <1>4 DEF Walks
<1>6. \A i \in 1 .. m : Put(part[i], f[next[i]]) = part[i] \o f[next[i]]
  <2>1. \A x : <<x>> # <<>>
    OBVIOUS
  <2> QED BY <1>2, <2>1 DEF Put
<1>7. f = [i \in 1 .. m |-> IF i > Len(line) THEN <<<<>>>>
                            ELSE IF LastField(line, i) THEN <<Field(line, i)>>
                            ELSE <<Field(line, i)>> \o f[NextField(line, i)]]
  BY <1>2, <1>5, <1>6
<1>8. ASSUME NEW i \in 1 .. m
      PROVE  f[i] = IF i > Len(line) THEN <<<<>>>>
                    ELSE IF line[i] = Quote
                      THEN <<Unquoted(SubSeq(line, i + 1, ClosingQuote(line, i + 1) - 1))>>
                           \o f[AfterQuoted(line, ClosingQuote(line, i + 1))]
                    ELSE <<SubSeq(line, i, NextComma(line, i) - 1)>>
                         \o (IF NextComma(line, i) > Len(line) THEN <<>> ELSE f[NextComma(line, i) + 1])
  <2>1. CASE i > Len(line)
    BY <1>7, <2>1
  <2>2. CASE ~(i > Len(line)) /\ line[i] = Quote
    BY <1>7, <2>2 DEF LastField, Field, NextField
  <2>3. CASE ~(i > Len(line)) /\ line[i] # Quote /\ NextComma(line, i) > Len(line)
    <3>1. \A x : <<x>> \o <<>> = <<x>>
      OBVIOUS
    <3>2. f[i] = <<SubSeq(line, i, NextComma(line, i) - 1)>>
      BY <1>7, <2>3 DEF LastField, Field
    <3> QED BY <2>3, <3>1, <3>2
  <2>4. CASE ~(i > Len(line)) /\ line[i] # Quote /\ ~(NextComma(line, i) > Len(line))
    BY <1>7, <2>4 DEF LastField, Field, NextField
  <2> QED BY <2>1, <2>2, <2>3, <2>4
<1>9. Splitting(f, line)
  BY <1>1, <1>7, <1>8 DEF Splitting
<1> QED BY <1>9

(* The cells are what is cut from the first place on. *)
LEMMA CellsSplit ==
  ASSUME NEW line, Len(line) \in Nat
  PROVE  \E f : Splitting(f, line) /\ Cells(line) = f[1]
<1>1. Cells(line) =
        (CHOOSE from : from = [i \in 1 .. Len(line) + 1 |->
           IF i > Len(line) THEN <<<<>>>>
           ELSE IF line[i] = Quote
             THEN <<Unquoted(SubSeq(line, i + 1, ClosingQuote(line, i + 1) - 1))>>
                  \o from[AfterQuoted(line, ClosingQuote(line, i + 1))]
           ELSE <<SubSeq(line, i, NextComma(line, i) - 1)>>
                \o (IF NextComma(line, i) > Len(line) THEN <<>> ELSE from[NextComma(line, i) + 1])])[1]
  BY Zenon DEF Cells
<1>2. Cells(line) = (CHOOSE f : Splitting(f, line))[1]
  BY <1>1, Zenon DEF Splitting
<1> QED BY <1>2, SplittingExists

-----------------------------------------------------------------------------
(* A field in quotes *)

Char == STRING \cup {Quote, Comma, "x", "'"}

Doubled(text) == [i \in DOMAIN text |-> IF text[i] = Quote THEN <<Quote, Quote>> ELSE <<text[i]>>]
DoubledText(text) == FlattenSeq(Doubled(text))
\* Where a character of the text stands in the body; past the last one, the end.
PlaceOf(text, i) == IF i > Len(text) THEN Len(DoubledText(text)) + 1 ELSE LengthBefore(Doubled(text), i) + 1

(* Each quote is doubled, and each other character stands alone. *)
LEMMA DoubledIsSeq ==
  ASSUME NEW text \in Seq(Char)
  PROVE  /\ Doubled(text) \in Seq(Seq(Char)) /\ Len(Doubled(text)) = Len(text)
         /\ \A i \in 1 .. Len(text) :
              Doubled(text)[i] = IF text[i] = Quote THEN <<Quote, Quote>> ELSE <<text[i]>>
<1>1. PICK n : n = Len(text) /\ n \in Nat
  OBVIOUS
<1>2. DOMAIN text = 1 .. n
  BY <1>1
<1>3. \A x \in Char : <<x>> \in Seq(Char) /\ <<Quote, Quote>> \in Seq(Char)
  <2>1. Quote \in Char
    BY DEF Char
  <2> QED BY <2>1
<1>4. \A i \in 1 .. n : text[i] \in Char
  BY <1>1
<1>5. Doubled(text) = [i \in 1 .. n |-> IF text[i] = Quote THEN <<Quote, Quote>> ELSE <<text[i]>>]
  BY <1>2 DEF Doubled
<1>6. Doubled(text) \in [1 .. n -> Seq(Char)]
  BY <1>3, <1>4, <1>5
<1>7. Doubled(text) \in Seq(Seq(Char)) /\ Len(Doubled(text)) = n
  BY <1>1, <1>6
<1> QED BY <1>1, <1>5, <1>7

(* Where each character of a text stands between the quotes. *)
LEMMA BodyIs ==
  ASSUME NEW text \in Seq(Char)
  PROVE  /\ DoubledText(text) \in Seq(Char) /\ PlaceOf(text, 1) = 1
         /\ PlaceOf(text, Len(text) + 1) = Len(DoubledText(text)) + 1
         /\ \A i \in 1 .. Len(text) :
              /\ PlaceOf(text, i) \in 1 .. Len(DoubledText(text)) /\ DoubledText(text)[PlaceOf(text, i)] = text[i]
              /\ text[i] = Quote => /\ PlaceOf(text, i + 1) = PlaceOf(text, i) + 2
                                    /\ PlaceOf(text, i) + 1 \in 1 .. Len(DoubledText(text))
                                    /\ DoubledText(text)[PlaceOf(text, i) + 1] = Quote
              /\ text[i] # Quote => PlaceOf(text, i + 1) = PlaceOf(text, i) + 1
<1>1. PICK n, p, f : n = Len(text) /\ p = Doubled(text) /\ f = DoubledText(text)
  OBVIOUS
<1>20. p \in Seq(Seq(Char)) /\ f = FlattenSeq(p)
  BY <1>1, DoubledIsSeq DEF DoubledText
<1>b. \A i \in 1 .. n : p[i] = IF text[i] = Quote THEN <<Quote, Quote>> ELSE <<text[i]>>
  BY <1>1, DoubledIsSeq
<1>2. n \in Nat /\ Len(p) = n
  BY <1>1, DoubledIsSeq
<1>3. /\ f \in Seq(Char)
      /\ Len(p) = 0 => f = <<>>
      /\ Len(p) # 0 => LengthBefore(p, 1) = 0 /\ Len(f) = LengthBefore(p, Len(p)) + Len(p[Len(p)])
      /\ \A i \in 1 .. Len(p) :
           /\ LengthBefore(p, i) \in Nat /\ LengthBefore(p, i) + Len(p[i]) <= Len(f)
           /\ i < Len(p) => LengthBefore(p, i + 1) = LengthBefore(p, i) + Len(p[i])
           /\ \A j \in 1 .. Len(p[i]) : f[LengthBefore(p, i) + j] = p[i][j]
  BY <1>20, PiecesStand
<1>4. \A i \in 1 .. n : PlaceOf(text, i) = LengthBefore(p, i) + 1
  BY <1>1, <1>2 DEF PlaceOf
<1>5. PlaceOf(text, n + 1) = Len(f) + 1
  BY <1>1, <1>2 DEF PlaceOf
<1>6. PlaceOf(text, 1) = 1
  <2>1. CASE n = 0
    BY <1>2, <1>3, <1>5, <2>1
  <2>2. CASE n # 0
    <3>1. 1 \in 1 .. n /\ LengthBefore(p, 1) = 0
      BY <1>2, <1>3, <2>2
    <3> QED BY <1>4, <3>1
  <2> QED BY <2>1, <2>2
<1>7. ASSUME NEW i \in 1 .. n
      PROVE  /\ PlaceOf(text, i) \in 1 .. Len(f) /\ f[PlaceOf(text, i)] = text[i]
             /\ text[i] = Quote => /\ PlaceOf(text, i + 1) = PlaceOf(text, i) + 2
                                   /\ PlaceOf(text, i) + 1 \in 1 .. Len(f) /\ f[PlaceOf(text, i) + 1] = Quote
             /\ text[i] # Quote => PlaceOf(text, i + 1) = PlaceOf(text, i) + 1
  <2>1. PICK b, e : b = LengthBefore(p, i) /\ e = p[i]
    OBVIOUS
  <2>2. /\ b \in Nat /\ b + Len(e) <= Len(f)
        /\ i < n => LengthBefore(p, i + 1) = b + Len(e)
        /\ \A j \in 1 .. Len(e) : f[b + j] = e[j]
    BY <1>2, <1>3, <2>1
  <2>3. PlaceOf(text, i) = b + 1
    BY <1>4, <2>1
  <2>4. PlaceOf(text, i + 1) = b + Len(e) + 1
    <3>1. CASE i < n
      <4>1. i + 1 \in 1 .. n
        BY <1>2, <3>1
      <4> QED BY <1>3, <1>2, <1>4, <2>1, <3>1, <4>1
    <3>2. CASE i = n
      BY <1>2, <1>3, <1>5, <2>1, <3>2
    <3> QED BY <1>2, <3>1, <3>2
  <2>5. Len(f) \in Nat
    BY <1>3
  <2>6. CASE text[i] = Quote
    <3>1. e = <<Quote, Quote>>
      BY <1>b, <2>1, <2>6
    <3>2. Len(e) = 2 /\ e[1] = Quote /\ e[2] = Quote /\ 1 \in 1 .. Len(e) /\ 2 \in 1 .. Len(e)
      BY <3>1
    <3>3. f[b + 1] = e[1] /\ f[b + 2] = e[2]
      BY <2>2, <3>2
    <3>4. b + 2 <= Len(f)
      BY <2>2, <2>5, <3>2
    <3>5. PlaceOf(text, i) \in 1 .. Len(f) /\ PlaceOf(text, i) + 1 \in 1 .. Len(f) /\ PlaceOf(text, i) + 1 = b + 2
      BY <2>2, <2>3, <2>5, <3>4
    <3>6. PlaceOf(text, i + 1) = PlaceOf(text, i) + 2
      BY <2>2, <2>3, <2>4, <3>2
    <3> QED BY <2>3, <2>6, <3>2, <3>3, <3>5, <3>6
  <2>7. CASE text[i] # Quote
    <3>1. e = <<text[i]>>
      BY <1>b, <2>1, <2>7
    <3>2. Len(e) = 1 /\ e[1] = text[i] /\ 1 \in 1 .. Len(e)
      BY <3>1
    <3>3. f[b + 1] = e[1]
      BY <2>2, <3>2
    <3>4. b + 1 <= Len(f)
      BY <2>2, <2>5, <3>2
    <3>5. PlaceOf(text, i) \in 1 .. Len(f)
      BY <2>2, <2>3, <2>5, <3>4
    <3>6. PlaceOf(text, i + 1) = PlaceOf(text, i) + 1
      BY <2>2, <2>3, <2>4, <3>2
    <3> QED BY <2>3, <2>7, <3>2, <3>3, <3>5, <3>6
  <2> QED BY <2>6, <2>7
<1> QED BY <1>1, <1>3, <1>5, <1>6, <1>7

(* A body is read back as the text. *)
LEMMA BodyIsRead ==
  ASSUME NEW text \in Seq(Char)
  PROVE  Unquoted(DoubledText(text)) = text
<1>1. PICK n, w : n = Len(text) /\ w = DoubledText(text)
  OBVIOUS
<1>2. /\ n \in Nat /\ w \in Seq(Char) /\ Len(w) \in Nat /\ PlaceOf(text, 1) = 1 /\ PlaceOf(text, n + 1) = Len(w) + 1
  BY <1>1, BodyIs
<1>20. n \in Nat /\ Len(w) \in Nat
  BY <1>2
<1>3. \A i \in 1 .. n : PlaceOf(text, i) \in 1 .. Len(w) /\ w[PlaceOf(text, i)] = text[i]
  BY <1>1, BodyIs
<1>4. \A i \in 1 .. n : PlaceOf(text, i + 1) = IF text[i] = Quote THEN PlaceOf(text, i) + 2 ELSE PlaceOf(text, i) + 1
  BY <1>1, BodyIs
<1>5. PICK f : Reading(f, w) /\ Unquoted(w) = f[1]
  BY <1>2, UnquotedReads
<1> DEFINE B == {d \in 0 .. n : f[PlaceOf(text, n + 1 - d)] # SubSeq(text, n + 1 - d, n)}
<1>6. B = {}
  <2> SUFFICES ASSUME B # {} PROVE FALSE
    OBVIOUS
  <2>1. PICK d \in B : \A j \in B : d <= j
    <3>1. B \subseteq Nat
      OBVIOUS
    <3> HIDE DEF B
    <3> QED BY <3>1, LeastOf
  <2>2. PICK i, a : i = n + 1 - d /\ a = PlaceOf(text, i)
    OBVIOUS
  <2>3. d \in 0 .. n /\ i \in 1 .. n + 1 /\ f[a] # SubSeq(text, i, n)
    BY <1>2, <2>1, <2>2
  <2>4. i # n + 1
    <3> SUFFICES ASSUME i = n + 1 PROVE FALSE
      OBVIOUS
    <3>1. a = Len(w) + 1 /\ a \in 1 .. Len(w) + 2 /\ a > Len(w)
      BY <1>2, <2>2
    <3>2. f[a] = <<>>
      BY <1>5, <3>1 DEF Reading
    <3>3. SubSeq(text, n + 1, n) = <<>>
      BY <1>1, <1>2
    <3> QED BY <2>3, <3>2, <3>3
  <2>5. i \in 1 .. n /\ a \in 1 .. Len(w) /\ w[a] = text[i]
    <3>1. i \in 1 .. n
      <4> HIDE DEF B
      <4> QED BY <1>20, <2>3, <2>4
    <3> QED BY <1>3, <2>2, <3>1
  <2>6. PICK b : b = PlaceOf(text, i + 1)
    OBVIOUS
  <2>7. b = IF w[a] = Quote THEN a + 2 ELSE a + 1
    BY <1>4, <2>2, <2>5, <2>6
  <2>8. f[a] = <<w[a]>> \o f[b]
    <3>1. a \in 1 .. Len(w) + 2 /\ ~(a > Len(w))
      <4> HIDE DEF B
      <4> QED BY <1>20, <2>5
    <3> QED BY <1>5, <2>7, <3>1 DEF Reading
  <2>9. d - 1 \in 0 .. n /\ ~(d <= d - 1) /\ n + 1 - (d - 1) = i + 1
    BY <1>20, <2>2, <2>3, <2>5
  <2>10. f[b] = SubSeq(text, i + 1, n)
    BY <2>1, <2>6, <2>9
  <2>11. <<text[i]>> \o SubSeq(text, i + 1, n) = SubSeq(text, i, n)
    BY <1>1, <2>5
  <2> QED BY <2>3, <2>5, <2>8, <2>10, <2>11
<1>7. f[PlaceOf(text, n + 1 - n)] = SubSeq(text, n + 1 - n, n)
  <2>0. n \in 0 .. n
    BY <1>20
  <2>1. n \in 0 .. n /\ n \notin B
    <3> HIDE DEF B
    <3> QED BY <2>0, <1>6
  <2> QED BY <2>1
<1>8. n + 1 - n = 1 /\ SubSeq(text, 1, n) = text
  BY <1>1, <1>2
<1> QED BY <1>1, <1>2, <1>5, <1>7, <1>8

(* The quote that closes a field is the one after its body. *)
LEMMA BodyIsClosed ==
  ASSUME NEW text \in Seq(Char), NEW line, Len(line) \in Nat, NEW s \in 1 .. Len(line), NEW e,
         e = s + Len(DoubledText(text)), e <= Len(line), line[e] = Quote, ~(e < Len(line) /\ line[e + 1] = Quote),
         \A j \in 1 .. Len(DoubledText(text)) : line[s + j - 1] = DoubledText(text)[j]
  PROVE  ClosingQuote(line, s) = e
<1>1. PICK n, w : n = Len(text) /\ w = DoubledText(text)
  OBVIOUS
<1>2. /\ n \in Nat /\ w \in Seq(Char) /\ Len(w) \in Nat /\ PlaceOf(text, 1) = 1 /\ PlaceOf(text, n + 1) = Len(w) + 1
  BY <1>1, BodyIs
<1>20. n \in Nat /\ Len(w) \in Nat
  BY <1>2
<1>3. \A i \in 1 .. n : PlaceOf(text, i) \in 1 .. Len(w) /\ w[PlaceOf(text, i)] = text[i]
  BY <1>1, BodyIs
<1>4. \A i \in 1 .. n :
        /\ text[i] = Quote => /\ PlaceOf(text, i + 1) = PlaceOf(text, i) + 2 /\ PlaceOf(text, i) + 1 \in 1 .. Len(w)
                              /\ w[PlaceOf(text, i) + 1] = Quote
        /\ text[i] # Quote => PlaceOf(text, i + 1) = PlaceOf(text, i) + 1
  BY <1>1, BodyIs
<1>5. \A j \in 1 .. Len(w) : line[s + j - 1] = w[j]
  BY <1>1
<1>6. e = s + Len(w) /\ e \in 1 .. Len(line) /\ Closes(line, e)
  BY <1>1, <1>2 DEF Closes
<1> DEFINE B == {d \in 0 .. n : ClosingQuote(line, s + PlaceOf(text, n + 1 - d) - 1) # e}
<1>7. B = {}
  <2> SUFFICES ASSUME B # {} PROVE FALSE
    OBVIOUS
  <2>1. PICK d \in B : \A j \in B : d <= j
    <3>1. B \subseteq Nat
      OBVIOUS
    <3> HIDE DEF B
    <3> QED BY <3>1, LeastOf
  <2>2. PICK i, a, x : i = n + 1 - d /\ a = PlaceOf(text, i) /\ x = s + a - 1
    OBVIOUS
  <2>3. d \in 0 .. n /\ i \in 1 .. n + 1 /\ ClosingQuote(line, x) # e
    BY <1>2, <2>1, <2>2
  <2>4. i # n + 1
    <3> SUFFICES ASSUME i = n + 1 PROVE FALSE
      OBVIOUS
    <3>1. x = e
      BY <1>2, <1>6, <2>2
    <3>2. e \in 1 .. Len(line) + 1
      BY <1>6
    <3>3. ClosingQuote(line, e) = e
      BY <1>6, <3>2, ClosingQuoteAt
    <3> QED BY <2>3, <3>1, <3>3
  <2>5. i \in 1 .. n /\ a \in 1 .. Len(w) /\ w[a] = text[i]
    <3>1. i \in 1 .. n
      <4> HIDE DEF B
      <4> QED BY <1>20, <2>3, <2>4
    <3> QED BY <1>3, <2>2, <3>1
  <2>6. x \in 1 .. Len(line) /\ x < e /\ line[x] = text[i] /\ x \in 1 .. Len(line) + 1
    <3>1. x \in 1 .. Len(line) /\ x < e /\ x \in 1 .. Len(line) + 1
      <4> HIDE DEF B
      <4>1. PICK m, l : m = Len(line) /\ l = Len(w)
        OBVIOUS
      <4>2. m \in Nat /\ l \in Nat /\ s \in 1 .. m /\ e = s + l /\ e \in 1 .. m /\ a \in 1 .. l /\ x = s + a - 1
        BY <1>20, <1>6, <2>2, <2>5, <4>1
      <4>3. x \in 1 .. m /\ x < e /\ x \in 1 .. m + 1
        BY <4>2
      <4> QED BY <4>1, <4>3
    <3> QED BY <1>5, <2>2, <2>5, <3>1
  <2>7. PICK b, y : b = PlaceOf(text, i + 1) /\ y = s + b - 1
    OBVIOUS
  <2>8. ~Closes(line, x) /\ Onwards(line, x) = y
    <3>1. CASE text[i] = Quote
      <4>1. b = a + 2 /\ a + 1 \in 1 .. Len(w) /\ w[a + 1] = Quote
        BY <1>4, <2>2, <2>5, <2>7, <3>1
      <4>2. s + (a + 1) - 1 = x + 1 /\ x + 1 <= Len(line) /\ y = x + 2
        <5> HIDE DEF B
        <5>1. PICK m, l : m = Len(line) /\ l = Len(w)
          OBVIOUS
        <5>2. /\ m \in Nat /\ l \in Nat /\ s \in 1 .. m /\ e = s + l /\ e \in 1 .. m /\ a \in 1 .. l
              /\ x = s + a - 1 /\ a + 1 \in 1 .. l /\ y = s + b - 1 /\ b = a + 2
          BY <1>20, <1>6, <2>2, <2>5, <2>7, <4>1, <5>1
        <5>3. /\ m \in Nat /\ l \in Nat /\ s \in Nat /\ a \in Nat /\ s + l <= m /\ a + 1 <= l
              /\ x = s + a - 1 /\ y = s + (a + 2) - 1
          <6>1. s \in Nat /\ a \in Nat /\ a + 1 <= l
            BY <5>2
          <6> QED BY <5>2, <6>1
        <5>4. s + (a + 1) - 1 = x + 1 /\ y = x + 2
          BY <5>3
        <5>5. x + 1 <= m
          BY <5>3
        <5> QED BY <5>1, <5>4, <5>5
      <4>3. line[x + 1] = Quote
        BY <1>5, <4>1, <4>2
      <4> QED BY <2>6, <3>1, <4>2, <4>3 DEF Closes, Onwards
    <3>2. CASE text[i] # Quote
      <4>1. b = a + 1
        BY <1>4, <2>2, <2>5, <2>7, <3>2
      <4>2. y = x + 1
        <5> HIDE DEF B
        <5>1. a \in Nat /\ s \in Nat
          BY <1>20, <2>5
        <5>2. x = s + a - 1 /\ y = s + (a + 1) - 1
          BY <2>2, <2>7, <4>1
        <5> QED BY <5>1, <5>2
      <4> QED BY <2>6, <3>2, <4>2 DEF Closes, Onwards
    <3> QED BY <3>1, <3>2
  <2>9. ClosingQuote(line, x) = ClosingQuote(line, y)
    BY <2>6, <2>8, ClosingQuoteAt
  <2>10. d - 1 \in 0 .. n /\ ~(d <= d - 1) /\ n + 1 - (d - 1) = i + 1
    BY <1>20, <2>2, <2>3, <2>5
  <2>11. ClosingQuote(line, y) = e
    BY <2>1, <2>7, <2>10
  <2> QED BY <2>3, <2>9, <2>11
<1>8. ClosingQuote(line, s + PlaceOf(text, n + 1 - n) - 1) = e
  <2>0. n \in 0 .. n
    BY <1>20
  <2>1. n \in 0 .. n /\ n \notin B
    <3> HIDE DEF B
    <3> QED BY <2>0, <1>7
  <2> QED BY <2>1
<1>9. n + 1 - n = 1 /\ s + 1 - 1 = s
  BY <1>2
<1> QED BY <1>2, <1>8, <1>9

-----------------------------------------------------------------------------
(* A line of fields *)

\* The fields after the first, each with its comma; where a field stands in the line.
CellParts(e) == [i \in 1 .. Len(e) - 1 |-> <<Comma>> \o e[i + 1]]
Place(e, k) == IF k = 1 THEN 1 ELSE Len(e[1]) + LengthBefore(CellParts(e), k - 1) + 2

IsLine(line, e) ==
  /\ Place(e, 1) = 1 /\ Len(line) = Place(e, Len(e)) + Len(e[Len(e)]) - 1
  /\ \A k \in 1 .. Len(e) :
       /\ Place(e, k) \in Nat \ {0} /\ Place(e, k) + Len(e[k]) <= Len(line) + 1
       /\ \A j \in 1 .. Len(e[k]) : line[Place(e, k) + j - 1] = e[k][j]
       /\ k < Len(e) => /\ Place(e, k) + Len(e[k]) <= Len(line)
                        /\ line[Place(e, k) + Len(e[k])] = Comma
                        /\ Place(e, k + 1) = Place(e, k) + Len(e[k]) + 1

(* Each field after the first has its comma before it. *)
LEMMA PartsAre ==
  ASSUME NEW e \in Seq(Seq(Char)), Len(e) # 0
  PROVE  /\ CellParts(e) \in Seq(Seq(Char)) /\ Len(CellParts(e)) = Len(e) - 1
         /\ \A i \in 1 .. Len(e) - 1 :
              /\ e[i + 1] \in Seq(Char) /\ Len(CellParts(e)[i]) = Len(e[i + 1]) + 1
              /\ CellParts(e)[i][1] = Comma /\ \A j \in 1 .. Len(e[i + 1]) : CellParts(e)[i][j + 1] = e[i + 1][j]
<1>1. PICK n : n = Len(e) - 1 /\ n \in Nat
  OBVIOUS
<1>2. \A i \in 1 .. n : e[i + 1] \in Seq(Char)
  BY <1>1
<1>3. <<Comma>> \in Seq(Char) /\ Len(<<Comma>>) = 1 /\ <<Comma>>[1] = Comma
  <2>1. Comma \in Char
    BY DEF Char
  <2> QED BY <2>1
<1>4. ASSUME NEW t \in Seq(Char)
      PROVE  /\ <<Comma>> \o t \in Seq(Char) /\ Len(<<Comma>> \o t) = Len(t) + 1
             /\ (<<Comma>> \o t)[1] = Comma /\ \A j \in 1 .. Len(t) : (<<Comma>> \o t)[j + 1] = t[j]
  BY <1>3
<1>5. CellParts(e) = [i \in 1 .. n |-> <<Comma>> \o e[i + 1]]
  BY <1>1 DEF CellParts
<1>6. ASSUME NEW i \in 1 .. n PROVE <<Comma>> \o e[i + 1] \in Seq(Char)
  <2>1. PICK t : t = e[i + 1]
    OBVIOUS
  <2>2. t \in Seq(Char)
    BY <1>2, <2>1
  <2> QED BY <1>4, <2>1, <2>2
<1>7. CellParts(e) \in [1 .. n -> Seq(Char)]
  <2>1. PICK g : g = [i \in 1 .. n |-> <<Comma>> \o e[i + 1]]
    OBVIOUS
  <2>2. \A i \in 1 .. n : g[i] \in Seq(Char)
    BY <1>6, <2>1
  <2>3. g \in [1 .. n -> Seq(Char)]
    BY <2>1, <2>2
  <2> QED BY <1>5, <2>1, <2>3
<1>8. CellParts(e) \in Seq(Seq(Char)) /\ Len(CellParts(e)) = n
  <2>1. PICK g : g = CellParts(e)
    OBVIOUS
  <2>2. g \in [1 .. n -> Seq(Char)] /\ n \in Nat
    BY <1>1, <1>7, <2>1
  <2>3. g \in Seq(Seq(Char)) /\ Len(g) = n
    BY <2>2
  <2> QED BY <2>1, <2>3
<1>9. ASSUME NEW i \in 1 .. n
      PROVE  /\ e[i + 1] \in Seq(Char) /\ Len(CellParts(e)[i]) = Len(e[i + 1]) + 1
             /\ CellParts(e)[i][1] = Comma /\ \A j \in 1 .. Len(e[i + 1]) : CellParts(e)[i][j + 1] = e[i + 1][j]
  <2>1. PICK t : t = e[i + 1]
    OBVIOUS
  <2>2. t \in Seq(Char) /\ CellParts(e)[i] = <<Comma>> \o t
    BY <1>2, <1>5, <2>1
  <2> QED BY <1>4, <2>1, <2>2
<1> QED BY <1>1, <1>8, <1>9

(* Every field stands in the line at its place, with a comma between two of them and nothing after the last. *)
LEMMA LineIs ==
  ASSUME NEW e \in Seq(Seq(Char)), Len(e) # 0, NEW line, line = Joined(e, Comma)
  PROVE  line \in Seq(Char) /\ IsLine(line, e)
<1>1. PICK n, h, p, f : n = Len(e) /\ h = e[1] /\ p = CellParts(e) /\ f = FlattenSeq(p)
  OBVIOUS
<1>2. n \in Nat /\ n >= 1 /\ h \in Seq(Char) /\ line = h \o f
  <2>1. n \in Nat /\ n >= 1
    BY <1>1
  <2>2. h \in Seq(Char)
    <3>1. 1 \in 1 .. Len(e)
      BY <1>1, <2>1
    <3> QED BY <1>1, <3>1
  <2>3. Head(e) = h
    BY <1>1
  <2>4. line = Head(e) \o FlattenSeq(CellParts(e))
    BY Zenon DEF Joined, CellParts
  <2> QED BY <1>1, <2>1, <2>2, <2>3, <2>4
<1>3. p \in Seq(Seq(Char)) /\ Len(p) = n - 1
  BY <1>1, PartsAre
<1>4. ASSUME NEW i \in 1 .. n - 1
      PROVE  /\ e[i + 1] \in Seq(Char) /\ Len(p[i]) = Len(e[i + 1]) + 1
             /\ p[i][1] = Comma /\ \A j \in 1 .. Len(e[i + 1]) : p[i][j + 1] = e[i + 1][j]
  BY <1>1, PartsAre
<1>5. /\ f \in Seq(Char)
      /\ Len(p) = 0 => f = <<>>
      /\ Len(p) # 0 => LengthBefore(p, 1) = 0 /\ Len(f) = LengthBefore(p, Len(p)) + Len(p[Len(p)])
      /\ \A i \in 1 .. Len(p) :
           /\ LengthBefore(p, i) \in Nat /\ LengthBefore(p, i) + Len(p[i]) <= Len(f)
           /\ i < Len(p) => LengthBefore(p, i + 1) = LengthBefore(p, i) + Len(p[i])
           /\ \A j \in 1 .. Len(p[i]) : f[LengthBefore(p, i) + j] = p[i][j]
  <2>1. p \in Seq(Seq(Char)) /\ f = FlattenSeq(p)
    BY <1>1, <1>3
  <2>2. f \in Seq(Char) /\ (Len(p) = 0 => f = <<>>)
    BY <2>1, PiecesStand
  <2>3. Len(p) # 0 => LengthBefore(p, 1) = 0 /\ Len(f) = LengthBefore(p, Len(p)) + Len(p[Len(p)])
    BY <2>1, PiecesStand
  <2>4. ASSUME NEW i \in 1 .. Len(p)
        PROVE  /\ LengthBefore(p, i) \in Nat /\ LengthBefore(p, i) + Len(p[i]) <= Len(f)
               /\ i < Len(p) => LengthBefore(p, i + 1) = LengthBefore(p, i) + Len(p[i])
               /\ \A j \in 1 .. Len(p[i]) : f[LengthBefore(p, i) + j] = p[i][j]
    BY <2>1, PiecesStand
  <2> QED BY <2>2, <2>3, <2>4
<1>6. PICK a, m : a = Len(h) /\ m = Len(f)
  OBVIOUS
<1>7. /\ a \in Nat /\ m \in Nat /\ line \in Seq(Char) /\ Len(line) = a + m
      /\ \A x \in 1 .. a : line[x] = h[x]
      /\ \A x \in 1 .. m : line[a + x] = f[x]
  BY <1>2, <1>5, <1>6
<1>8. Place(e, 1) = 1
  BY DEF Place
(* Where the comma before field i + 1 stands, and the field itself. *)
<1>9. ASSUME NEW i \in 1 .. n - 1
      PROVE  /\ LengthBefore(p, i) \in Nat /\ Place(e, i + 1) = a + LengthBefore(p, i) + 2
             /\ Place(e, i + 1) + Len(e[i + 1]) <= a + m + 1
             /\ line[a + LengthBefore(p, i) + 1] = Comma
             /\ \A j \in 1 .. Len(e[i + 1]) : line[Place(e, i + 1) + j - 1] = e[i + 1][j]
  <2>1. PICK b, t : b = LengthBefore(p, i) /\ t = e[i + 1]
    OBVIOUS
  <2>2. i \in 1 .. Len(p)
    BY <1>3
  <2>3. t \in Seq(Char) /\ Len(t) \in Nat /\ Len(p[i]) = Len(t) + 1
    BY <1>4, <2>1
  <2>4. b \in Nat /\ b + Len(t) + 1 <= m
    <3>1. LengthBefore(p, i) \in Nat /\ LengthBefore(p, i) + Len(p[i]) <= Len(f)
      BY <1>5, <2>2
    <3>2. b \in Nat /\ b + (Len(t) + 1) <= m
      BY <1>6, <2>1, <2>3, <3>1
    <3>3. m \in Nat /\ Len(t) \in Nat
      BY <1>7, <2>3
    <3> QED BY <3>2, <3>3
  <2>5. \A j \in 1 .. Len(t) + 1 : f[b + j] = p[i][j]
    BY <1>5, <2>1, <2>2, <2>3
  <2>6. Place(e, i + 1) = a + b + 2
    <3>1. i + 1 # 1 /\ (i + 1) - 1 = i
      BY <2>2
    <3> QED BY <1>1, <1>6, <2>1, <3>1 DEF Place
  <2>7. line[a + (b + 1)] = Comma
    <3>1. b + 1 \in 1 .. m /\ 1 \in 1 .. Len(t) + 1
      BY <1>7, <2>3, <2>4
    <3> QED BY <1>4, <1>7, <2>5, <3>1
  <2>8. ASSUME NEW j \in 1 .. Len(t) PROVE line[a + b + 2 + j - 1] = t[j]
    <3>1. j + 1 \in 1 .. Len(t) + 1 /\ b + (j + 1) \in 1 .. m /\ a + b + 2 + j - 1 = a + (b + (j + 1))
      BY <1>7, <2>3, <2>4
    <3>2. line[a + (b + (j + 1))] = f[b + (j + 1)]
      BY <1>7, <3>1
    <3>3. f[b + (j + 1)] = p[i][j + 1]
      BY <2>5, <3>1
    <3>4. p[i][j + 1] = t[j]
      BY <1>4, <2>1
    <3> QED BY <3>1, <3>2, <3>3, <3>4
  <2>9. a + b + 2 + Len(t) <= a + m + 1 /\ a + b + 1 = a + (b + 1)
    BY <1>7, <2>3, <2>4
  <2> QED BY <2>1, <2>4, <2>6, <2>7, <2>8, <2>9
<1>10. ASSUME NEW k \in 1 .. n
       PROVE  /\ Place(e, k) \in Nat \ {0} /\ Place(e, k) + Len(e[k]) <= Len(line) + 1
              /\ \A j \in 1 .. Len(e[k]) : line[Place(e, k) + j - 1] = e[k][j]
  <2>1. CASE k = 1
    <3>1. \A j \in 1 .. a : line[1 + j - 1] = h[j]
      <4>1. \A j \in 1 .. a : 1 + j - 1 = j
        BY <1>7
      <4> QED BY <1>7, <4>1
    <3>2. 1 + a <= Len(line) + 1
      BY <1>7
    <3> QED BY <1>1, <1>6, <1>8, <2>1, <3>1, <3>2
  <2>2. CASE k # 1
    <3>1. PICK i : i = k - 1
      OBVIOUS
    <3>2. i \in 1 .. n - 1 /\ k = i + 1
      BY <1>2, <2>2, <3>1
    <3>3. /\ LengthBefore(p, i) \in Nat /\ Place(e, k) = a + LengthBefore(p, i) + 2 /\ Place(e, k) + Len(e[k]) <= a + m + 1
          /\ \A j \in 1 .. Len(e[k]) : line[Place(e, k) + j - 1] = e[k][j]
      BY <1>9, <3>2
    <3>4. a + LengthBefore(p, i) + 2 \in Nat \ {0}
      <4>1. a \in Nat /\ LengthBefore(p, i) \in Nat
        BY <1>7, <3>3
      <4> QED BY <4>1
    <3> QED BY <1>7, <3>3, <3>4
  <2> QED BY <2>1, <2>2
<1>11. ASSUME NEW k \in 1 .. n, k < n
       PROVE  Place(e, k) + Len(e[k]) = a + LengthBefore(p, k) + 1 /\ k \in 1 .. n - 1
  <2>1. k \in 1 .. n - 1 /\ k \in 1 .. Len(p)
    BY <1>2, <1>3, <1>11
  <2>2. CASE k = 1
    <3>1. LengthBefore(p, 1) = 0
      BY <1>3, <1>5, <2>1, <2>2
    <3> QED BY <1>1, <1>6, <1>7, <1>8, <2>1, <2>2, <3>1
  <2>3. CASE k # 1
    <3>1. PICK i : i = k - 1
      OBVIOUS
    <3>2. i \in 1 .. n - 1 /\ i \in 1 .. Len(p) /\ k = i + 1 /\ i < Len(p)
      BY <1>2, <1>3, <2>1, <2>3, <3>1
    <3>3. LengthBefore(p, i + 1) = LengthBefore(p, i) + Len(p[i]) /\ LengthBefore(p, i) \in Nat
      BY <1>5, <3>2
    <3>4. Len(p[i]) = Len(e[k]) + 1 /\ Len(e[k]) \in Nat
      BY <1>4, <3>2
    <3>5. Place(e, k) = a + LengthBefore(p, i) + 2
      BY <1>9, <3>2
    <3>6. a + LengthBefore(p, i) + 2 + Len(e[k]) = a + (LengthBefore(p, i) + (Len(e[k]) + 1)) + 1
      <4>1. PICK b, l : b = LengthBefore(p, i) /\ l = Len(e[k])
        OBVIOUS
      <4>2. a \in Nat /\ b \in Nat /\ l \in Nat
        BY <1>7, <3>3, <3>4, <4>1
      <4>3. a + b + 2 + l = a + (b + (l + 1)) + 1
        BY <4>2
      <4> QED BY <4>1, <4>3
    <3> QED BY <2>1, <3>2, <3>3, <3>4, <3>5, <3>6
  <2> QED BY <2>2, <2>3
<1>12. ASSUME NEW k \in 1 .. n, k < n
       PROVE  /\ Place(e, k) + Len(e[k]) <= Len(line) /\ line[Place(e, k) + Len(e[k])] = Comma
              /\ Place(e, k + 1) = Place(e, k) + Len(e[k]) + 1
  <2>1. Place(e, k) + Len(e[k]) = a + LengthBefore(p, k) + 1 /\ k \in 1 .. n - 1
    BY <1>11, <1>12
  <2>2. /\ LengthBefore(p, k) \in Nat /\ Place(e, k + 1) = a + LengthBefore(p, k) + 2
        /\ line[a + LengthBefore(p, k) + 1] = Comma
    BY <1>9, <2>1
  <2>3. LengthBefore(p, k) + Len(p[k]) <= m /\ Len(p[k]) \in Nat /\ Len(p[k]) >= 1
    <3>1. k \in 1 .. Len(p) /\ Len(e[k + 1]) \in Nat /\ Len(p[k]) = Len(e[k + 1]) + 1
      <4>1. k \in 1 .. Len(p) /\ e[k + 1] \in Seq(Char) /\ Len(p[k]) = Len(e[k + 1]) + 1
        BY <1>3, <1>4, <2>1
      <4> QED BY <4>1
    <3>2. LengthBefore(p, k) + Len(p[k]) <= Len(f)
      BY <1>5, <3>1
    <3> QED BY <1>6, <3>1, <3>2
  <2>4. a + LengthBefore(p, k) + 1 <= a + m /\ a + LengthBefore(p, k) + 2 = a + LengthBefore(p, k) + 1 + 1
    <3>1. a \in Nat /\ m \in Nat
      BY <1>7
    <3>2. LengthBefore(p, k) \in Nat
      BY <2>2
    <3> QED BY <2>3, <3>1, <3>2
  <2> QED BY <1>7, <2>1, <2>2, <2>4
<1>13. Len(line) = Place(e, n) + Len(e[n]) - 1
  <2>1. CASE n = 1
    <3>1. m = 0
      BY <1>3, <1>5, <1>6, <2>1
    <3> QED BY <1>1, <1>6, <1>7, <1>8, <2>1, <3>1
  <2>2. CASE n # 1
    <3>1. PICK i : i = n - 1
      OBVIOUS
    <3>2. i \in 1 .. n - 1 /\ n = i + 1 /\ Len(p) = i /\ Len(p) # 0
      BY <1>2, <1>3, <2>2, <3>1
    <3>3. m = LengthBefore(p, i) + Len(p[i])
      BY <1>5, <1>6, <3>2
    <3>4. Len(p[i]) = Len(e[n]) + 1 /\ Len(e[n]) \in Nat
      <4>1. Len(p[i]) = Len(e[n]) + 1 /\ e[n] \in Seq(Char)
        BY <1>4, <3>2
      <4> QED BY <4>1
    <3>5. Place(e, n) = a + LengthBefore(p, i) + 2 /\ LengthBefore(p, i) \in Nat
      BY <1>9, <3>2
    <3>6. PICK b, l : b = LengthBefore(p, i) /\ l = Len(e[n])
      OBVIOUS
    <3>7. a \in Nat /\ b \in Nat /\ l \in Nat /\ m = b + (l + 1) /\ Place(e, n) = a + b + 2
      BY <1>7, <3>3, <3>4, <3>5, <3>6
    <3>8. a + (b + (l + 1)) = (a + b + 2) + l - 1
      BY <3>7
    <3> QED BY <1>7, <3>6, <3>7, <3>8
  <2> QED BY <2>1, <2>2
<1> QED BY <1>1, <1>7, <1>8, <1>10, <1>12, <1>13 DEF IsLine

-----------------------------------------------------------------------------
(* A field in its line *)

\* A text is written in quotes, or as it is when it holds neither a comma nor a quote.
Encodes(enc, text) == enc = InQuotes(text) \/ (enc = text /\ ~Has(text, Comma) /\ ~Has(text, Quote))
\* A text stands in the line from a place on; the field there is read as the text,
\* up to its comma or the end of the line at z.
Stands(line, i, enc) == \A j \in 1 .. Len(enc) : line[i + j - 1] = enc[j]
IsReadAs(line, i, z, text) ==
  /\ Field(line, i) = text
  /\ z <= Len(line) => ~LastField(line, i) /\ NextField(line, i) = z + 1
  /\ z = Len(line) + 1 => LastField(line, i) \/ NextField(line, i) = Len(line) + 1

(* What stands in a line is cut out of it. *)
LEMMA SubSeqIs ==
  ASSUME NEW T, NEW line \in Seq(T), NEW w \in Seq(T), NEW i \in 1 .. Len(line) + 1,
         NEW z, z = i + Len(w), z <= Len(line) + 1,
         Stands(line, i, w)
  PROVE  SubSeq(line, i, z - 1) = w
<1>1. PICK n, m : n = Len(line) /\ m = Len(w)
  OBVIOUS
<1>2. n \in Nat /\ m \in Nat /\ i \in 1 .. n + 1 /\ z = i + m /\ z <= n + 1
  BY <1>1
<1>3. z - 1 \in i - 1 .. n /\ (z - 1) - i + 1 = m /\ z - 1 \in Int /\ i \in Int
  BY <1>2
<1>4. PICK v : v = SubSeq(line, i, z - 1)
  OBVIOUS
<1>5. v = [j \in 1 .. (z - 1) - i + 1 |-> line[i + j - 1]]
  BY <1>3, <1>4
<1>6. v = [j \in 1 .. m |-> line[i + j - 1]]
  BY <1>3, <1>5
<1>7. w = [j \in 1 .. m |-> w[j]]
  BY <1>1
<1> QED BY <1>1, <1>4, <1>6, <1>7 DEF Stands

(* Where the members of two sequences stand in the one they make. *)
LEMMA JoinIs ==
  ASSUME NEW T, NEW u \in Seq(T), NEW v \in Seq(T)
  PROVE  /\ u \o v \in Seq(T) /\ Len(u \o v) = Len(u) + Len(v)
         /\ \A j \in 1 .. Len(u) : (u \o v)[j] = u[j]
         /\ \A j \in 1 .. Len(v) : (u \o v)[Len(u) + j] = v[j]
  OBVIOUS

(* A text in quotes is a quote, its body and a quote. *)
LEMMA InQuotesIs ==
  ASSUME NEW text \in Seq(Char)
  PROVE  /\ InQuotes(text) \in Seq(Char) /\ Len(InQuotes(text)) = Len(DoubledText(text)) + 2
         /\ InQuotes(text)[1] = Quote /\ InQuotes(text)[Len(DoubledText(text)) + 2] = Quote
         /\ \A j \in 1 .. Len(DoubledText(text)) : InQuotes(text)[j + 1] = DoubledText(text)[j]
<1>1. PICK b : b = DoubledText(text) /\ b \in Seq(Char)
  BY BodyIs
<1>2. DoubledText(text) = FlattenSeq([i \in DOMAIN text |-> IF text[i] = Quote THEN <<Quote, Quote>> ELSE <<text[i]>>])
  BY Zenon DEF DoubledText, Doubled
<1>3. InQuotes(text) = <<Quote>> \o FlattenSeq([i \in DOMAIN text |->
                         IF text[i] = Quote THEN <<Quote, Quote>> ELSE <<text[i]>>]) \o <<Quote>>
  BY Zenon DEF InQuotes
<1>4. InQuotes(text) = (<<Quote>> \o b) \o <<Quote>>
  BY <1>1, <1>2, <1>3
<1>5. PICK o : o = <<Quote>>
  OBVIOUS
<1>6. o \in Seq(Char) /\ Len(o) = 1 /\ o[1] = Quote
  <2>1. Quote \in Char
    BY DEF Char
  <2> QED BY <1>5, <2>1
<1>7. PICK u : u = o \o b
  OBVIOUS
<1>8. /\ u \in Seq(Char) /\ Len(u) = Len(b) + 1 /\ u[1] = Quote
      /\ \A j \in 1 .. Len(b) : u[j + 1] = b[j]
  <2>1. /\ u \in Seq(Char) /\ Len(u) = Len(o) + Len(b)
        /\ \A j \in 1 .. Len(o) : u[j] = o[j]
        /\ \A j \in 1 .. Len(b) : u[Len(o) + j] = b[j]
    BY <1>1, <1>6, <1>7, JoinIs
  <2>2. Len(b) \in Nat
    BY <1>1
  <2>3. 1 \in 1 .. Len(o) /\ 1 + Len(b) = Len(b) + 1 /\ \A j \in 1 .. Len(b) : 1 + j = j + 1
    BY <1>6, <2>2
  <2>4. u[1] = Quote
    BY <1>6, <2>1, <2>3
  <2>5. \A j \in 1 .. Len(b) : u[j + 1] = b[j]
    BY <1>6, <2>1, <2>3
  <2> QED BY <1>6, <2>1, <2>3, <2>4, <2>5
<1>9. PICK q : q = u \o o
  OBVIOUS
<1>10. /\ q \in Seq(Char) /\ Len(q) = Len(b) + 2 /\ q[1] = Quote /\ q[Len(b) + 2] = Quote
       /\ \A j \in 1 .. Len(b) : q[j + 1] = u[j + 1]
  <2>1. /\ q \in Seq(Char) /\ Len(q) = Len(u) + Len(o)
        /\ \A j \in 1 .. Len(u) : q[j] = u[j]
        /\ \A j \in 1 .. Len(o) : q[Len(u) + j] = o[j]
    <3>1. u \in Seq(Char) /\ o \in Seq(Char)
      BY <1>6, <1>8
    <3> QED BY <1>9, <3>1, JoinIs
  <2>2. Len(b) \in Nat
    BY <1>1
  <2>3. /\ 1 \in 1 .. Len(o) /\ 1 \in 1 .. Len(u) /\ Len(u) + 1 = Len(b) + 2
        /\ \A j \in 1 .. Len(b) : j + 1 \in 1 .. Len(u)
    BY <1>6, <1>8, <2>2
  <2>4. q[1] = Quote /\ q[Len(u) + 1] = Quote
    BY <1>6, <1>8, <2>1, <2>3
  <2>5. \A j \in 1 .. Len(b) : q[j + 1] = u[j + 1]
    BY <2>1, <2>3
  <2> QED BY <1>6, <2>1, <2>3, <2>4, <2>5
<1>11. InQuotes(text) = q
  BY <1>4, <1>5, <1>7, <1>9
<1> QED BY <1>1, <1>8, <1>10, <1>11

(* A field that is followed by a comma or the end of the line is read as its text. *)
LEMMA PlainBack ==
  ASSUME NEW text \in Seq(Char), ~Has(text, Comma), ~Has(text, Quote),
         NEW line \in Seq(Char), NEW i \in 1 .. Len(line), NEW z, z = i + Len(text), z <= Len(line) + 1,
         Stands(line, i, text), z <= Len(line) => line[z] = Comma
  PROVE  IsReadAs(line, i, z, text)
<1>1. PICK n, m, c : n = Len(line) /\ m = Len(text) /\ c = NextComma(line, i)
  OBVIOUS
<1>2. n \in Nat /\ m \in Nat /\ i \in 1 .. n /\ z = i + m /\ z <= n + 1
  BY <1>1
<1>3. \A j \in 1 .. m : text[j] # Comma /\ text[j] # Quote
  BY <1>1 DEF Has
<1>4. Quote # Comma
  BY DEF Quote, Comma
<1>5. line[i] # Quote
  <2>1. CASE m = 0
    <3>1. z = i /\ z <= n
      BY <1>2, <2>1
    <3> QED BY <1>1, <1>4, <3>1
  <2>2. CASE m # 0
    <3>1. 1 \in 1 .. m /\ i + 1 - 1 = i
      BY <1>2, <2>2
    <3>2. line[i + 1 - 1] = text[1]
      BY <1>1, <3>1 DEF Stands
    <3> QED BY <1>3, <3>1, <3>2
  <2> QED BY <2>1, <2>2
<1>6. /\ c \in i .. n + 1
      /\ c <= n => line[c] = Comma
      /\ \A j \in i .. c - 1 : line[j] # Comma
  <2>1. i \in 1 .. Len(line) + 1 /\ Len(line) \in Nat
    BY <1>1, <1>2
  <2> QED BY <1>1, <2>1, NextCommaIs
<1>7. c = z
  <2>1. CASE c < z
    <3>1. PICK j : j = c - i + 1
      OBVIOUS
    <3>2. j \in 1 .. m /\ i + j - 1 = c /\ c <= n
      BY <1>2, <1>6, <2>1, <3>1
    <3>3. line[i + j - 1] = text[j]
      BY <1>1, <3>2 DEF Stands
    <3> QED BY <1>3, <1>6, <3>2, <3>3
  <2>2. CASE z < c
    <3>1. z \in i .. c - 1 /\ z <= n
      BY <1>2, <1>6, <2>2
    <3> QED BY <1>1, <1>6, <3>1
  <2>3. c \in Int /\ z \in Int
    BY <1>2, <1>6
  <2> QED BY <2>1, <2>2, <2>3
<1>8. Field(line, i) = text
  <2>1. i \in 1 .. Len(line) + 1
    BY <1>1, <1>2
  <2>2. SubSeq(line, i, z - 1) = text
    <3>1. i \in 1 .. Len(line) + 1 /\ z = i + Len(text) /\ z <= Len(line) + 1
      BY <2>1
    <3> QED BY <3>1, SubSeqIs
  <2>3. Field(line, i) = SubSeq(line, i, NextComma(line, i) - 1)
    BY <1>5 DEF Field
  <2> QED BY <1>1, <1>7, <2>2, <2>3
<1>9. NextField(line, i) = z + 1 /\ (LastField(line, i) <=> z > n)
  BY <1>1, <1>5, <1>7 DEF NextField, LastField
<1>10. (z <= n => ~(z > n)) /\ (z = n + 1 => z > n)
  BY <1>2
<1> QED BY <1>1, <1>8, <1>9, <1>10 DEF IsReadAs

(* The same for a text in quotes, whatever it holds. *)
LEMMA QuotedBack ==
  ASSUME NEW text \in Seq(Char), NEW enc, enc = InQuotes(text),
         NEW line \in Seq(Char), NEW i \in 1 .. Len(line), NEW z, z = i + Len(enc), z <= Len(line) + 1,
         Stands(line, i, enc), z <= Len(line) => line[z] = Comma
  PROVE  IsReadAs(line, i, z, text)
<1>1. PICK n, m, b : n = Len(line) /\ b = DoubledText(text) /\ m = Len(b)
  OBVIOUS
<1>2. /\ b \in Seq(Char) /\ Len(enc) = m + 2 /\ enc[1] = Quote /\ enc[m + 2] = Quote
      /\ \A j \in 1 .. m : enc[j + 1] = b[j]
  BY <1>1, InQuotesIs, BodyIs
<1>3. n \in Nat /\ m \in Nat /\ i \in 1 .. n /\ z = i + (m + 2) /\ z <= n + 1
  <2>1. n \in Nat /\ m \in Nat
    BY <1>1, <1>2
  <2> QED BY <1>1, <1>2, <2>1
<1>4. \A j \in 1 .. m + 2 : line[i + j - 1] = enc[j]
  BY <1>2 DEF Stands
<1>5. Quote # Comma
  BY DEF Quote, Comma
<1>6. line[i] = Quote /\ line[z - 1] = Quote
  <2>1. 1 \in 1 .. m + 2 /\ m + 2 \in 1 .. m + 2 /\ i + 1 - 1 = i /\ i + (m + 2) - 1 = z - 1
    <3>1. m \in Nat /\ i \in Nat /\ z = i + (m + 2)
      <4>1. n \in Nat /\ i \in 1 .. n
        BY <1>3
      <4>2. i \in Nat
        BY <4>1
      <4> QED BY <1>3, <4>2
    <3> QED BY <3>1
  <2>2. line[i + 1 - 1] = enc[1] /\ line[i + (m + 2) - 1] = enc[m + 2]
    BY <1>4, <2>1
  <2> QED BY <1>2, <2>1, <2>2
<1>7. PICK s, e : s = i + 1 /\ e = z - 1
  OBVIOUS
<1>8. s \in 1 .. n /\ e = s + m /\ e <= n /\ e + 1 = z /\ (e < n => z <= n) /\ e - 1 = (s + m) - 1
  <2>1. n \in Nat /\ m \in Nat /\ i \in Nat /\ i >= 1 /\ z = i + (m + 2) /\ z <= n + 1
    <3>1. n \in Nat /\ i \in 1 .. n
      BY <1>3
    <3>2. i \in Nat /\ i >= 1
      BY <3>1
    <3> QED BY <1>3, <3>2
  <2>2. s \in Nat /\ s >= 1 /\ s <= n
    BY <1>7, <2>1
  <2>3. e = s + m
    BY <1>7, <2>1
  <2>4. e <= n /\ e + 1 = z
    BY <1>7, <2>1
  <2>5. e \in Nat /\ (e < n => z <= n)
    BY <2>1, <2>2, <2>3, <2>4
  <2> QED BY <2>1, <2>2, <2>3, <2>4, <2>5
<1>9. \A j \in 1 .. m : line[s + j - 1] = b[j]
  <2>1. ASSUME NEW j \in 1 .. m PROVE line[s + j - 1] = b[j]
    <3>1. j + 1 \in 1 .. m + 2 /\ i + (j + 1) - 1 = s + j - 1
      BY <1>3, <1>7
    <3>2. line[i + (j + 1) - 1] = enc[j + 1]
      BY <1>4, <3>1
    <3> QED BY <1>2, <3>1, <3>2
  <2> QED BY <2>1
<1>10. line[e] = Quote /\ ~(e < n /\ line[e + 1] = Quote)
  <2>1. z <= n => line[z] = Comma
    BY <1>1
  <2> QED BY <1>5, <1>6, <1>7, <1>8, <2>1
<1>11. ClosingQuote(line, s) = e
  <2>1. /\ Len(line) \in Nat /\ s \in 1 .. Len(line) /\ e = s + Len(DoubledText(text)) /\ e <= Len(line)
        /\ line[e] = Quote /\ ~(e < Len(line) /\ line[e + 1] = Quote)
        /\ \A j \in 1 .. Len(DoubledText(text)) : line[s + j - 1] = DoubledText(text)[j]
    BY <1>1, <1>3, <1>8, <1>9, <1>10
  <2> QED BY <2>1, BodyIsClosed
<1>12. Field(line, i) = text
  <2>1. s \in 1 .. Len(line) + 1 /\ e = s + Len(b) /\ e <= Len(line) + 1
    BY <1>1, <1>3, <1>8
  <2>2. Stands(line, s, b)
    BY <1>1, <1>9 DEF Stands
  <2>3. SubSeq(line, s, e - 1) = b
    BY <1>2, <2>1, <2>2, SubSeqIs
  <2>4. Field(line, i) = Unquoted(SubSeq(line, i + 1, ClosingQuote(line, i + 1) - 1))
    BY <1>6 DEF Field
  <2>5. Unquoted(b) = text
    BY <1>1, BodyIsRead
  <2> QED BY <1>7, <1>11, <2>3, <2>4, <2>5
<1>13. NextField(line, i) = AfterQuoted(line, e) /\ ~LastField(line, i)
  BY <1>6, <1>7, <1>11 DEF NextField, LastField
<1>14. AfterQuoted(line, e) = IF z <= n /\ line[z] = Comma THEN z + 1 ELSE z
  <2>1. ~(e > n)
    BY <1>3, <1>8
  <2> QED BY <1>1, <1>8, <2>1 DEF AfterQuoted
<1>15. (z <= n => AfterQuoted(line, e) = z + 1) /\ (z = n + 1 => AfterQuoted(line, e) = n + 1)
  <2>1. z = n + 1 => ~(z <= n)
    BY <1>3
  <2> QED BY <1>1, <1>14, <2>1
<1> QED BY <1>1, <1>12, <1>13, <1>15 DEF IsReadAs

(* The same for a text that is written either way. *)
LEMMA FieldBack ==
  ASSUME NEW text \in Seq(Char), NEW enc, Encodes(enc, text),
         NEW line \in Seq(Char), NEW i \in 1 .. Len(line), NEW z, z = i + Len(enc), z <= Len(line) + 1,
         Stands(line, i, enc), z <= Len(line) => line[z] = Comma
  PROVE  IsReadAs(line, i, z, text)
<1>1. CASE enc = InQuotes(text)
  BY <1>1, QuotedBack
<1>2. CASE enc = text /\ ~Has(text, Comma) /\ ~Has(text, Quote)
  BY <1>2, PlainBack
<1> QED BY <1>1, <1>2 DEF Encodes

(* A written text is a text. *)
LEMMA EncodedIsSeq ==
  ASSUME NEW text \in Seq(Char), NEW enc, Encodes(enc, text)
  PROVE  enc \in Seq(Char)
  BY InQuotesIs DEF Encodes

-----------------------------------------------------------------------------
(* A line read back *)

(* What is cut from a place on: the field there, and what is cut from the next one on. *)
LEMMA SplittingAt ==
  ASSUME NEW f, NEW line, Len(line) \in Nat, Splitting(f, line), NEW i \in 1 .. Len(line) + 1
  PROVE  /\ i > Len(line) => f[i] = <<<<>>>>
         /\ i <= Len(line) /\ LastField(line, i) => f[i] = <<Field(line, i)>> \o <<>>
         /\ i <= Len(line) /\ ~LastField(line, i) => f[i] = <<Field(line, i)>> \o f[NextField(line, i)]
<1>1. f[i] = IF i > Len(line) THEN <<<<>>>>
             ELSE IF line[i] = Quote
               THEN <<Unquoted(SubSeq(line, i + 1, ClosingQuote(line, i + 1) - 1))>>
                    \o f[AfterQuoted(line, ClosingQuote(line, i + 1))]
             ELSE <<SubSeq(line, i, NextComma(line, i) - 1)>>
                  \o (IF NextComma(line, i) > Len(line) THEN <<>> ELSE f[NextComma(line, i) + 1])
  BY Zenon DEF Splitting
<1>2. i <= Len(line) => ~(i > Len(line))
  OBVIOUS
<1>3. CASE i > Len(line)
  BY <1>1, <1>2, <1>3
<1>4. CASE ~(i > Len(line)) /\ line[i] = Quote
  <2>1. /\ f[i] = <<Unquoted(SubSeq(line, i + 1, ClosingQuote(line, i + 1) - 1))>>
                  \o f[AfterQuoted(line, ClosingQuote(line, i + 1))]
        /\ ~LastField(line, i) /\ NextField(line, i) = AfterQuoted(line, ClosingQuote(line, i + 1))
        /\ Field(line, i) = Unquoted(SubSeq(line, i + 1, ClosingQuote(line, i + 1) - 1))
    BY <1>1, <1>4, Zenon DEF Field, LastField, NextField
  <2> QED BY <1>4, <2>1, Zenon
<1>5. CASE ~(i > Len(line)) /\ line[i] # Quote
  <2>1. /\ f[i] = <<SubSeq(line, i, NextComma(line, i) - 1)>>
                  \o (IF NextComma(line, i) > Len(line) THEN <<>> ELSE f[NextComma(line, i) + 1])
        /\ (LastField(line, i) <=> NextComma(line, i) > Len(line))
        /\ NextField(line, i) = NextComma(line, i) + 1
        /\ Field(line, i) = SubSeq(line, i, NextComma(line, i) - 1)
    BY <1>1, <1>5, Zenon DEF Field, LastField, NextField
  <2> QED BY <1>5, <2>1, Zenon
<1> QED BY <1>3, <1>4, <1>5

\* What is read from field k of n on begins with the texts from k on.
Begins(cells, t, k) ==
  /\ cells \in Seq(Seq(Char)) /\ Len(cells) >= Len(t) - k + 1
  /\ \A j \in 1 .. Len(t) - k + 1 : cells[j] = t[k + j - 1]

(* A text read before the texts from k + 1 on gives the texts from k on. *)
LEMMA BeginsBefore ==
  ASSUME NEW t \in Seq(Seq(Char)), NEW k \in 1 .. Len(t), NEW rest, rest \in Seq(Seq(Char)),
         k < Len(t) => Begins(rest, t, k + 1)
  PROVE  Begins(<<t[k]>> \o rest, t, k)
<1>1. PICK n, o, c : n = Len(t) /\ o = <<t[k]>> /\ c = o \o rest
  OBVIOUS
<1>2. n \in Nat /\ k \in 1 .. n
  BY <1>1
<1>3. o \in Seq(Seq(Char)) /\ Len(o) = 1 /\ o[1] = t[k]
  <2>1. t[k] \in Seq(Char)
    BY <1>2
  <2> QED BY <1>1, <2>1
<1>4. PICK m : m = Len(rest)
  OBVIOUS
<1>5. m \in Nat
  BY <1>4
<1>6. /\ c \in Seq(Seq(Char)) /\ Len(c) = 1 + m
      /\ \A j \in 1 .. 1 : c[j] = o[j]
      /\ \A j \in 1 .. m : c[1 + j] = rest[j]
  <2>1. /\ c \in Seq(Seq(Char)) /\ Len(c) = Len(o) + Len(rest)
        /\ \A j \in 1 .. Len(o) : c[j] = o[j]
        /\ \A j \in 1 .. Len(rest) : c[Len(o) + j] = rest[j]
    BY <1>1, <1>3, JoinIs
  <2> QED BY <1>3, <1>4, <2>1
<1>7. c[1] = t[k]
  BY <1>3, <1>6
<1>8. CASE k < n
  <2>1. m >= n - (k + 1) + 1 /\ \A j \in 1 .. n - (k + 1) + 1 : rest[j] = t[(k + 1) + j - 1]
    BY <1>1, <1>4, <1>8 DEF Begins
  <2>2. 1 + m >= n - k + 1
    BY <1>2, <1>5, <2>1
  <2>3. ASSUME NEW j \in 1 .. n - k + 1 PROVE c[j] = t[k + j - 1]
    <3>1. CASE j = 1
      <4>1. k + j - 1 = k
        BY <1>2, <3>1
      <4> QED BY <1>7, <3>1, <4>1
    <3>2. CASE j # 1
      <4>1. PICK i : i = j - 1
        OBVIOUS
      <4>2. i \in 1 .. n - (k + 1) + 1 /\ i \in 1 .. m /\ j = 1 + i /\ (k + 1) + i - 1 = k + j - 1
        BY <1>2, <1>5, <2>1, <3>2, <4>1
      <4>3. c[1 + i] = rest[i] /\ rest[i] = t[(k + 1) + i - 1]
        BY <1>6, <2>1, <4>2
      <4> QED BY <4>2, <4>3
    <3> QED BY <3>1, <3>2
  <2> QED BY <1>1, <1>6, <2>2, <2>3 DEF Begins
<1>9. CASE k = n
  <2>1. n - k + 1 = 1 /\ 1 + m >= 1 /\ k + 1 - 1 = k
    BY <1>2, <1>5, <1>9
  <2>2. \A j \in 1 .. 1 : c[j] = t[k + j - 1]
    BY <1>7, <2>1
  <2> QED BY <1>1, <1>6, <2>1, <2>2 DEF Begins
<1> QED BY <1>2, <1>8, <1>9

(* A line of fields, each written either way, is cut into their texts. *)
LEMMA CellsAreBack ==
  ASSUME NEW e \in Seq(Seq(Char)), Len(e) # 0, NEW t \in Seq(Seq(Char)), Len(t) = Len(e),
         \A k \in 1 .. Len(e) : Encodes(e[k], t[k]), NEW line, line = Joined(e, Comma)
  PROVE  line \in Seq(Char) /\ Begins(Cells(line), t, 1)
<1>1. PICK n, m : n = Len(e) /\ m = Len(line)
  OBVIOUS
<1>2. line \in Seq(Char) /\ n \in Nat /\ n >= 1 /\ n = Len(t)
  BY <1>1, LineIs
<1>3. m \in Nat
  BY <1>1, <1>2
<1>4. /\ Place(e, 1) = 1 /\ m = Place(e, n) + Len(e[n]) - 1
      /\ \A k \in 1 .. n :
           /\ Place(e, k) \in Nat \ {0} /\ Place(e, k) + Len(e[k]) <= m + 1
           /\ \A j \in 1 .. Len(e[k]) : line[Place(e, k) + j - 1] = e[k][j]
           /\ k < n => /\ Place(e, k) + Len(e[k]) <= m /\ line[Place(e, k) + Len(e[k])] = Comma
                       /\ Place(e, k + 1) = Place(e, k) + Len(e[k]) + 1
  <2>1. IsLine(line, e)
    BY LineIs
  <2> QED BY <1>1, <2>1, Zenon DEF IsLine
<1>5. PICK f : Splitting(f, line) /\ Cells(line) = f[1]
  <2>1. Len(line) \in Nat
    BY <1>1, <1>3
  <2> QED BY <2>1, CellsSplit
(* The field at k, given what is read after its comma. *)
<1>6. ASSUME NEW k \in 1 .. n, k < n => Begins(f[Place(e, k + 1)], t, k + 1)
      PROVE  Begins(f[Place(e, k)], t, k)
  <2>1. PICK i, l, z : i = Place(e, k) /\ l = Len(e[k]) /\ z = i + l
    OBVIOUS
  <2>2. /\ i \in Nat /\ i >= 1 /\ z <= m + 1
        /\ k < n => z <= m /\ line[z] = Comma /\ Place(e, k + 1) = z + 1
    BY <1>4, <2>1
  <2>3. l \in Nat /\ e[k] \in Seq(Char) /\ t[k] \in Seq(Char) /\ k \in 1 .. Len(t)
    <3>1. k \in 1 .. Len(e) /\ k \in 1 .. Len(t)
      BY <1>1, <1>2
    <3>2. e[k] \in Seq(Char) /\ t[k] \in Seq(Char)
      BY <3>1
    <3> QED BY <2>1, <3>1, <3>2
  <2>4. k = n => z = m + 1
    <3>1. m = Place(e, n) + Len(e[n]) - 1
      BY <1>4
    <3> QED BY <1>3, <2>1, <2>2, <2>3, <3>1
  <2>5. i <= m + 1 /\ (i > m => k = n /\ l = 0)
    <3>1. /\ i \in Nat /\ l \in Nat /\ m \in Nat /\ k \in Nat /\ n \in Nat /\ k <= n
          /\ i + l <= m + 1 /\ (k < n => i + l <= m)
      <4>1. k \in Nat /\ k <= n
        BY <1>2
      <4> QED BY <1>2, <1>3, <2>1, <2>2, <2>3, <4>1
    <3> QED BY <3>1
  <2>6. Encodes(e[k], t[k]) /\ Stands(line, i, e[k])
    BY <1>1, <1>4, <2>1 DEF Stands
  <2>7. CASE i > m
    <3>1. f[i] = <<<<>>>>
      <4>1. i \in 1 .. Len(line) + 1 /\ i > Len(line) /\ Len(line) \in Nat
        BY <1>1, <1>3, <2>2, <2>5, <2>7
      <4> QED BY <1>5, <4>1, SplittingAt
    <3>2. t[k] = <<>>
      <4>1. Len(e[k]) = 0
        BY <2>1, <2>5, <2>7
      <4>2. e[k] # InQuotes(t[k])
        <5>1. Len(InQuotes(t[k])) = Len(DoubledText(t[k])) + 2 /\ DoubledText(t[k]) \in Seq(Char)
          BY <2>3, InQuotesIs, BodyIs
        <5>2. Len(DoubledText(t[k])) \in Nat
          BY <5>1
        <5>3. Len(InQuotes(t[k])) # 0
          BY <5>1, <5>2
        <5> QED BY <4>1, <5>3
      <4>3. t[k] = e[k]
        BY <2>6, <4>2 DEF Encodes
      <4> QED BY <2>3, <4>1, <4>3
    <3>3. PICK rest : rest = <<>> /\ rest \in Seq(Seq(Char))
      <4>1. <<>> \in Seq(Seq(Char))
        OBVIOUS
      <4> QED BY <4>1
    <3>4. Begins(<<t[k]>> \o rest, t, k)
      <4>1. ~(k < Len(t))
        BY <1>2, <2>5, <2>7
      <4> QED BY <2>3, <3>3, <4>1, BeginsBefore
    <3>5. <<t[k]>> \o rest = <<t[k]>>
      BY <2>3, <3>3
    <3> QED BY <2>1, <3>1, <3>2, <3>4, <3>5
  <2>8. CASE i <= m
    <3>1. IsReadAs(line, i, z, t[k])
      <4>1. /\ i \in 1 .. Len(line) /\ z = i + Len(e[k]) /\ z <= Len(line) + 1
            /\ z <= Len(line) => line[z] = Comma
        BY <1>1, <1>3, <2>1, <2>2, <2>4, <2>8
      <4> QED BY <1>2, <2>3, <2>6, <4>1, FieldBack
    <3>2. /\ Field(line, i) = t[k]
          /\ z <= m => ~LastField(line, i) /\ NextField(line, i) = z + 1
          /\ z = m + 1 => LastField(line, i) \/ NextField(line, i) = m + 1
      BY <1>1, <3>1 DEF IsReadAs
    <3>3. /\ LastField(line, i) => f[i] = <<t[k]>> \o <<>>
          /\ ~LastField(line, i) => f[i] = <<t[k]>> \o f[NextField(line, i)]
      <4>1. i \in 1 .. Len(line) + 1 /\ i <= Len(line) /\ Len(line) \in Nat
        BY <1>1, <1>3, <2>2, <2>8
      <4>2. /\ LastField(line, i) => f[i] = <<Field(line, i)>> \o <<>>
            /\ ~LastField(line, i) => f[i] = <<Field(line, i)>> \o f[NextField(line, i)]
        BY <1>5, <4>1, SplittingAt
      <4> QED BY <3>2, <4>2
    <3>4. CASE k < n
      <4>1. f[i] = <<t[k]>> \o f[Place(e, k + 1)]
        BY <2>2, <3>2, <3>3, <3>4
      <4>2. PICK rest : rest = f[Place(e, k + 1)]
        OBVIOUS
      <4>3. Begins(rest, t, k + 1)
        BY <1>6, <3>4, <4>2
      <4>4. rest \in Seq(Seq(Char))
        BY <4>3 DEF Begins
      <4>5. Begins(<<t[k]>> \o rest, t, k)
        BY <2>3, <4>3, <4>4, BeginsBefore
      <4> QED BY <2>1, <4>1, <4>2, <4>5
    <3>5. CASE k = n
      <4>1. z = m + 1 /\ ~(k < Len(t))
        BY <1>2, <2>4, <3>5
      <4>2. \E rest : rest \in Seq(Seq(Char)) /\ f[i] = <<t[k]>> \o rest
        <5>1. CASE LastField(line, i)
          <6>1. <<>> \in Seq(Seq(Char)) /\ f[i] = <<t[k]>> \o <<>>
            BY <3>3, <5>1
          <6> QED BY <6>1
        <5>2. CASE ~LastField(line, i)
          <6>1. f[i] = <<t[k]>> \o f[m + 1]
            BY <3>2, <3>3, <4>1, <5>2
          <6>2. f[m + 1] = <<<<>>>>
            <7>1. m + 1 \in 1 .. Len(line) + 1 /\ m + 1 > Len(line) /\ Len(line) \in Nat
              BY <1>1, <1>3
            <7> QED BY <1>5, <7>1, SplittingAt
          <6>3. <<<<>>>> \in Seq(Seq(Char))
            OBVIOUS
          <6> QED BY <6>1, <6>2, <6>3
        <5> QED BY <5>1, <5>2
      <4>3. PICK rest : rest \in Seq(Seq(Char)) /\ f[i] = <<t[k]>> \o rest
        BY <4>2
      <4>4. Begins(<<t[k]>> \o rest, t, k)
        BY <2>3, <4>1, <4>3, BeginsBefore
      <4> QED BY <2>1, <4>3, <4>4
    <3> QED BY <1>2, <3>4, <3>5
  <2>9. i <= m \/ i > m
    BY <1>3, <2>2
  <2> QED BY <2>7, <2>8, <2>9
(* From the last field back to the first. *)
<1>7. Begins(f[Place(e, 1)], t, 1)
  <2> DEFINE B == {d \in 0 .. n - 1 : ~Begins(f[Place(e, n - d)], t, n - d)}
  <2> SUFFICES ASSUME B # {} PROVE FALSE
    <3>1. n - 1 \in 0 .. n - 1 /\ n - (n - 1) = 1
      BY <1>2
    <3> QED BY <3>1
  <2>1. PICK d \in B : \A j \in B : d <= j
    <3>1. B \subseteq Nat
      OBVIOUS
    <3> HIDE DEF B
    <3> QED BY <3>1, LeastOf
  <2>2. PICK k : k = n - d
    OBVIOUS
  <2>3. d \in 0 .. n - 1 /\ ~Begins(f[Place(e, k)], t, k)
    BY <2>1, <2>2
  <2>4. k \in 1 .. n /\ (k < n => d - 1 \in 0 .. n - 1 /\ n - (d - 1) = k + 1 /\ ~(d <= d - 1))
    <3> HIDE DEF B
    <3> QED BY <1>2, <2>2, <2>3
  <2>5. ASSUME k < n PROVE Begins(f[Place(e, k + 1)], t, k + 1)
    <3>1. d - 1 \notin B
      BY <2>1, <2>4, <2>5
    <3> QED BY <2>4, <2>5, <3>1
  <2> HIDE DEF B
  <2> QED BY <1>6, <2>3, <2>4, <2>5
<1> QED BY <1>2, <1>4, <1>5, <1>7

-----------------------------------------------------------------------------
(* A row's line, and a row's export *)

(* Every text is made of the characters the lemmas speak of. *)
LEMMA TextsAreChars == Seq(STRING) \subseteq Seq(Char)
<1> SUFFICES ASSUME NEW t \in Seq(STRING) PROVE t \in Seq(Char)
  OBVIOUS
<1>1. PICK n : n = Len(t) /\ n \in Nat
  OBVIOUS
<1>2. t \in [1 .. n -> STRING]
  BY <1>1
<1>3. STRING \subseteq Char
  BY DEF Char
<1>4. t \in [1 .. n -> Char]
  BY <1>2, <1>3
<1> QED BY <1>1, <1>4

(* A spreadsheet and the exports write a text one of these two ways. *)
LEMMA QuotedEncodes ==
  ASSUME NEW text
  PROVE  Encodes(Quoted(text), text) /\ Encodes(InQuotes(text), text)
<1>1. Comma \in {Comma, Quote} \cup LineBreaks /\ Quote \in {Comma, Quote} \cup LineBreaks
  OBVIOUS
<1> QED BY <1>1, Zenon DEF Quoted, Encodes

(* The line of any texts, at least one, is read back as those texts. *)
LEMMA LineIsBack ==
  ASSUME NEW t \in Seq(Seq(Char)), Len(t) # 0, NEW quoteAll, NEW line, line = LineOf(t, quoteAll)
  PROVE  line \in Seq(Char) /\ Begins(Cells(line), t, 1)
<1>1. PICK n, e : n = Len(t) /\ e = [i \in DOMAIN t |-> IF quoteAll THEN InQuotes(t[i]) ELSE Quoted(t[i])]
  OBVIOUS
<1>2. n \in Nat /\ n # 0 /\ DOMAIN t = 1 .. n
  BY <1>1
<1>3. e = [i \in 1 .. n |-> IF quoteAll THEN InQuotes(t[i]) ELSE Quoted(t[i])]
  BY <1>1, <1>2
<1>4. \A k \in 1 .. n : t[k] \in Seq(Char) /\ Encodes(e[k], t[k])
  <2>1. ASSUME NEW k \in 1 .. n PROVE t[k] \in Seq(Char) /\ Encodes(e[k], t[k])
    <3>1. e[k] = InQuotes(t[k]) \/ e[k] = Quoted(t[k])
      BY <1>3
    <3>2. t[k] \in Seq(Char)
      BY <1>1
    <3> QED BY <3>1, <3>2, QuotedEncodes
  <2> QED BY <2>1
<1>5. \A k \in 1 .. n : e[k] \in Seq(Char)
  BY <1>4, EncodedIsSeq
<1>6. e \in [1 .. n -> Seq(Char)]
  BY <1>3, <1>5
<1>7. e \in Seq(Seq(Char)) /\ Len(e) = n
  BY <1>2, <1>6
<1>8. line = Joined(e, Comma)
  BY <1>1, Zenon DEF LineOf
<1>9. Len(e) # 0 /\ Len(t) = Len(e) /\ \A k \in 1 .. Len(e) : Encodes(e[k], t[k])
  BY <1>1, <1>2, <1>4, <1>7
<1> QED BY <1>7, <1>8, <1>9, CellsAreBack

(* An empty line has one cell, so a line with two is not empty. *)
LEMMA NothingHasOneCell == Len(Cells(<<>>)) = 1
<1>1. PICK line : line = <<>>
  OBVIOUS
<1>2. Len(line) \in Nat /\ Len(line) = 0
  BY <1>1
<1>3. PICK f : Splitting(f, line) /\ Cells(line) = f[1]
  BY <1>2, CellsSplit
<1>4. 1 \in 1 .. Len(line) + 1 /\ 1 > Len(line)
  BY <1>2
<1>5. f[1] = <<<<>>>>
  BY <1>2, <1>3, <1>4, SplittingAt
<1> QED BY <1>1, <1>3, <1>5

(* A column that is not missing is found in the header. *)
LEMMA ColumnIs ==
  ASSUME NEW h \in Seq(STRING), Missing(h) = {}, NEW c \in Columns
  PROVE  ColumnOf(h, c) \in 1 .. Len(h) /\ h[ColumnOf(h, c)] = c
<1>1. PICK at : at = {i \in DOMAIN h : h[i] = c}
  OBVIOUS
<1>2. ColumnOf(h, c) # 0
  BY DEF Missing
<1>3. at # {}
  BY <1>1, <1>2 DEF ColumnOf
<1>4. PICK k : k = ColumnOf(h, c)
  OBVIOUS
<1>5. k = CHOOSE i \in at : \A j \in at : i <= j
  BY <1>1, <1>3, <1>4 DEF ColumnOf
<1>6. at \subseteq Nat /\ at \subseteq 1 .. Len(h)
  BY <1>1
<1>7. \E i \in at : \A j \in at : i <= j
  BY <1>3, <1>6, LeastOf
<1>8. k \in at
  BY <1>5, <1>7
<1> QED BY <1>1, <1>4, <1>6, <1>8

\* What a sheet's line holds of a row.
TextsOf(h, row) == [k \in DOMAIN h |-> IF h[k] \in Columns THEN row[h[k]] ELSE <<"x">>]

(* The line of a row is read back as the row, and it is not blank. *)
LEMMA RowIsBack ==
  ASSUME NEW h \in Seq(STRING), Missing(h) = {}, NEW row \in [Columns -> Seq(STRING)],
         NEW quoteAll, NEW line, line = LineOf(TextsOf(h, row), quoteAll)
  PROVE  line \in Seq(Char) /\ line # BlankLine /\ RowOf(line, h) = Trimmed(row)
<1>1. PICK n, t : n = Len(h) /\ t = TextsOf(h, row)
  OBVIOUS
<1>2. n \in Nat /\ DOMAIN h = 1 .. n
  BY <1>1
<1>3. t = [k \in 1 .. n |-> IF h[k] \in Columns THEN row[h[k]] ELSE <<"x">>]
  BY <1>1, <1>2 DEF TextsOf
<1>4. ASSUME NEW k \in 1 .. n PROVE t[k] \in Seq(Char)
  <2>1. CASE h[k] \in Columns
    <3>1. t[k] = row[h[k]]
      BY <1>3, <2>1
    <3>2. row[h[k]] \in Seq(STRING)
      BY <2>1
    <3> QED BY <3>1, <3>2, TextsAreChars
  <2>2. CASE h[k] \notin Columns
    <3>1. t[k] = <<"x">>
      BY <1>3, <2>2
    <3>2. \A x \in Char : <<x>> \in Seq(Char)
      OBVIOUS
    <3>3. "x" \in Char
      BY DEF Char
    <3> QED BY <3>1, <3>2, <3>3
  <2> QED BY <2>1, <2>2
<1>5. t \in [1 .. n -> Seq(Char)]
  BY <1>3, <1>4
<1>6. t \in Seq(Seq(Char)) /\ Len(t) = n
  BY <1>2, <1>5
<1>7. \A c \in Columns : ColumnOf(h, c) \in 1 .. n /\ h[ColumnOf(h, c)] = c
  BY <1>1, ColumnIs
<1>8. n >= 2
  <2>1. "phone" \in Columns /\ "item" \in Columns /\ "phone" # "item"
    BY DEF Columns
  <2>2. PICK i, j : i = ColumnOf(h, "phone") /\ j = ColumnOf(h, "item")
    OBVIOUS
  <2>3. i \in 1 .. n /\ j \in 1 .. n /\ h[i] = "phone" /\ h[j] = "item"
    BY <1>7, <2>1, <2>2
  <2>4. i # j
    BY <2>1, <2>3
  <2> QED BY <1>2, <2>3, <2>4
<1>9. line \in Seq(Char) /\ Begins(Cells(line), t, 1)
  <2>1. Len(t) # 0 /\ line = LineOf(t, quoteAll)
    BY <1>1, <1>6, <1>8
  <2> QED BY <1>6, <2>1, LineIsBack
<1>10. PICK cells : cells = Cells(line)
  OBVIOUS
<1>11. Len(cells) \in Nat /\ Len(cells) >= n /\ \A j \in 1 .. n : cells[j] = t[j]
  <2>1. cells \in Seq(Seq(Char)) /\ Len(cells) >= n - 1 + 1 /\ \A j \in 1 .. n - 1 + 1 : cells[j] = t[1 + j - 1]
    BY <1>6, <1>9, <1>10 DEF Begins
  <2>2. n - 1 + 1 = n /\ \A j \in 1 .. n : 1 + j - 1 = j
    BY <1>2
  <2> QED BY <2>1, <2>2
<1>12. line # BlankLine
  BY <1>8, <1>10, <1>11, <1>2, NothingHasOneCell DEF BlankLine
<1>13. ASSUME NEW c \in Columns
       PROVE  (IF ColumnOf(h, c) <= Len(cells) THEN cells[ColumnOf(h, c)] ELSE <<>>) = row[c]
  <2>1. PICK k : k = ColumnOf(h, c)
    OBVIOUS
  <2>2. k \in 1 .. n /\ h[k] = c
    BY <1>7, <2>1
  <2>3. k <= Len(cells)
    BY <1>2, <1>11, <2>2
  <2>4. cells[k] = t[k] /\ t[k] = row[c]
    BY <1>3, <1>11, <2>2
  <2> QED BY <2>1, <2>3, <2>4
<1>14. RowOf(line, h) =
         Trimmed([c \in Columns |-> IF ColumnOf(h, c) <= Len(cells) THEN cells[ColumnOf(h, c)] ELSE <<>>])
  BY <1>10, Zenon DEF RowOf
<1>15. [c \in Columns |-> IF ColumnOf(h, c) <= Len(cells) THEN cells[ColumnOf(h, c)] ELSE <<>>] = row
  BY <1>13
<1>16. RowOf(line, h) = Trimmed(row)
  BY <1>14, <1>15
<1> QED BY <1>9, <1>12, <1>16

(* A text that would be run as a formula is still a text with its apostrophe. *)
LEMMA NeutralIsSeq ==
  ASSUME NEW text \in Seq(STRING)
  PROVE  Neutral(text) \in Seq(Char)
<1>1. text \in Seq(Char)
  BY TextsAreChars
<1>2. <<"'">> \in Seq(Char)
  <2>1. "'" \in Char
    BY DEF Char
  <2> QED BY <2>1
<1>3. <<"'">> \o text \in Seq(Char)
  BY <1>1, <1>2
<1> QED BY <1>1, <1>3 DEF Neutral

(* The line of an export is read back as its cells. *)
LEMMA ExportIsBack ==
  ASSUME NEW a \in Seq(STRING), NEW b \in Seq(STRING),
         NEW line, line = Joined(<<CsvCell(a), CsvCell(b)>>, Comma)
  PROVE  SubSeq(Cells(line), 1, 2) = <<Neutral(a), Neutral(b)>>
<1>1. PICK e, t : e = <<CsvCell(a), CsvCell(b)>> /\ t = <<Neutral(a), Neutral(b)>>
  OBVIOUS
<1>2. t \in Seq(Seq(Char)) /\ Len(t) = 2 /\ t[1] = Neutral(a) /\ t[2] = Neutral(b)
  BY <1>1, NeutralIsSeq
<1>3. Encodes(CsvCell(a), Neutral(a)) /\ Encodes(CsvCell(b), Neutral(b))
  BY QuotedEncodes DEF CsvCell
<1>4. CsvCell(a) \in Seq(Char) /\ CsvCell(b) \in Seq(Char)
  BY <1>3, NeutralIsSeq, EncodedIsSeq
<1>5. e \in Seq(Seq(Char)) /\ Len(e) = 2 /\ e[1] = CsvCell(a) /\ e[2] = CsvCell(b)
  BY <1>1, <1>4
<1>6. \A k \in 1 .. 2 : Encodes(e[k], t[k])
  <2>1. \A k \in 1 .. 2 : k = 1 \/ k = 2
    OBVIOUS
  <2> QED BY <1>2, <1>3, <1>5, <2>1
<1>7. Begins(Cells(line), t, 1)
  <2>1. /\ Len(e) # 0 /\ Len(t) = Len(e) /\ \A k \in 1 .. Len(e) : Encodes(e[k], t[k])
        /\ line = Joined(e, Comma)
    BY <1>1, <1>2, <1>5, <1>6
  <2> QED BY <1>2, <1>5, <2>1, CellsAreBack
<1>8. PICK cells : cells = Cells(line)
  OBVIOUS
<1>9. cells \in Seq(Seq(Char)) /\ Len(cells) >= 2 /\ cells[1] = t[1] /\ cells[2] = t[2]
  <2>1. cells \in Seq(Seq(Char)) /\ Len(cells) >= 2 - 1 + 1 /\ \A j \in 1 .. 2 - 1 + 1 : cells[j] = t[1 + j - 1]
    BY <1>2, <1>7, <1>8 DEF Begins
  <2>2. 2 - 1 + 1 = 2 /\ 1 \in 1 .. 2 /\ 2 \in 1 .. 2 /\ 1 + 1 - 1 = 1 /\ 1 + 2 - 1 = 2
    OBVIOUS
  <2> QED BY <2>1, <2>2
<1>10. SubSeq(cells, 1, 2) = <<cells[1], cells[2]>>
  <2>1. PICK w : w = <<cells[1], cells[2]>>
    OBVIOUS
  <2>2. cells[1] \in Seq(Char) /\ cells[2] \in Seq(Char)
    BY <1>2, <1>9
  <2>3. w \in Seq(Seq(Char)) /\ Len(w) = 2 /\ w[1] = cells[1] /\ w[2] = cells[2]
    BY <2>1, <2>2
  <2>4. Stands(cells, 1, w)
    <3>1. 1 + 1 - 1 = 1 /\ 1 + 2 - 1 = 2 /\ \A j \in 1 .. 2 : j = 1 \/ j = 2
      OBVIOUS
    <3> QED BY <2>3, <3>1 DEF Stands
  <2>5. 1 \in 1 .. Len(cells) + 1 /\ 3 = 1 + Len(w) /\ 3 <= Len(cells) + 1
    BY <1>9, <2>3
  <2>6. SubSeq(cells, 1, 3 - 1) = w
    BY <1>9, <2>3, <2>4, <2>5, SubSeqIs
  <2> QED BY <2>1, <2>6
<1> QED BY <1>2, <1>8, <1>9, <1>10

-----------------------------------------------------------------------------
(* A sheet read back *)

(* One thing, or none, is a sequence. *)
LEMMA OneIsSeq ==
  ASSUME NEW T, NEW x \in T
  PROVE  <<x>> \in Seq(T) /\ <<>> \in Seq(T) /\ Len(<<x>>) = 1 /\ <<x>>[1] = x
  OBVIOUS

\* The lines of a sheet before the blank ones are dropped, and either without them.
SheetLines(h, rows, quoteAll) ==
  [i \in DOMAIN rows |-> IF rows[i] = BlankLine THEN BlankLine ELSE LineOf(TextsOf(h, rows[i]), quoteAll)]
Kept(lines) == [i \in DOMAIN lines |-> IF lines[i] = BlankLine THEN <<>> ELSE <<lines[i]>>]

\* A list of n lines, each blank or in T.
LinesOver(lines, n, T) == DOMAIN lines = 1 .. n /\ \A i \in 1 .. n : lines[i] = BlankLine \/ lines[i] \in T

(* What is kept of each line: the line, or nothing. *)
LEMMA KeptIs ==
  ASSUME NEW T, NEW lines, NEW n \in Nat, LinesOver(lines, n, T)
  PROVE  /\ Kept(lines) \in Seq(Seq(T)) /\ Len(Kept(lines)) = n
         /\ \A i \in 1 .. n : Kept(lines)[i] = IF lines[i] = BlankLine THEN <<>> ELSE <<lines[i]>>
<1>1. Kept(lines) = [i \in 1 .. n |-> IF lines[i] = BlankLine THEN <<>> ELSE <<lines[i]>>]
  BY DEF Kept, LinesOver
<1>2. ASSUME NEW i \in 1 .. n PROVE Kept(lines)[i] \in Seq(T)
  <2>1. CASE lines[i] = BlankLine
    <3>1. Kept(lines)[i] = <<>>
      BY <1>1, <2>1
    <3>2. <<>> \in Seq(T)
      OBVIOUS
    <3> QED BY <3>1, <3>2
  <2>2. CASE lines[i] # BlankLine
    <3>1. Kept(lines)[i] = <<lines[i]>> /\ lines[i] \in T
      BY <1>1, <2>2 DEF LinesOver
    <3> QED BY <3>1, OneIsSeq
  <2> QED BY <2>1, <2>2
<1>3. Kept(lines) \in [1 .. n -> Seq(T)]
  BY <1>1, <1>2
<1>4. Kept(lines) \in Seq(Seq(T)) /\ Len(Kept(lines)) = n
  BY <1>3
<1> QED BY <1>1, <1>4

(* The lines without the blank ones are what is kept of each. *)
LEMMA WithoutBlanksIs ==
  ASSUME NEW lines
  PROVE  WithoutBlanks(lines) = FlattenSeq(Kept(lines))
  BY Zenon DEF WithoutBlanks, Kept

\* What is written: rows, and blank lines between them.
WrittenRows == Seq(Rows \cup {BlankLine})

(* Without its blank lines a sheet is a sequence of rows. *)
LEMMA WrittenIs ==
  ASSUME NEW rows \in WrittenRows
  PROVE  /\ Len(rows) \in Nat /\ DOMAIN rows = 1 .. Len(rows)
         /\ \A i \in 1 .. Len(rows) : rows[i] = BlankLine \/ rows[i] \in Rows
         /\ WithoutBlanks(rows) \in Seq(Rows)
<1>1. /\ Len(rows) \in Nat /\ DOMAIN rows = 1 .. Len(rows)
      /\ \A i \in 1 .. Len(rows) : rows[i] = BlankLine \/ rows[i] \in Rows
  <2>1. rows \in Seq(Rows \cup {BlankLine})
    BY DEF WrittenRows
  <2> QED BY <2>1
<1>2. PICK p : p = Kept(rows)
  OBVIOUS
<1>3. p \in Seq(Seq(Rows))
  <2>1. LinesOver(rows, Len(rows), Rows)
    BY <1>1 DEF LinesOver
  <2> QED BY <1>1, <1>2, <2>1, KeptIs
<1>4. PICK f : f = FlattenSeq(p)
  OBVIOUS
<1>5. f \in Seq(Rows)
  BY <1>3, <1>4, PiecesStand
<1> QED BY <1>1, <1>2, <1>4, <1>5, WithoutBlanksIs

\* The rows of a sheet, each without the spaces around its texts.
TrimmedRows(rows) == [i \in DOMAIN WithoutBlanks(rows) |-> Trimmed(WithoutBlanks(rows)[i])]

(* The lines of a sheet are read back as its rows, in their order. *)
LEMMA LinesAreBack ==
  ASSUME NEW h \in Seq(STRING), Missing(h) = {}, NEW rows \in WrittenRows, NEW quoteAll,
         NEW lines, lines = WithoutBlanks(SheetLines(h, rows, quoteAll))
  PROVE  [i \in DOMAIN lines |-> RowOf(lines[i], h)] = TrimmedRows(rows)
<1>1. PICK n, l, w : n = Len(rows) /\ l = SheetLines(h, rows, quoteAll) /\ w = WithoutBlanks(rows)
  OBVIOUS
<1>2. /\ n \in Nat /\ DOMAIN rows = 1 .. n /\ w \in Seq(Rows)
      /\ \A i \in 1 .. n : rows[i] = BlankLine \/ rows[i] \in Rows
  BY <1>1, WrittenIs
<1>3. l = [i \in 1 .. n |-> IF rows[i] = BlankLine THEN BlankLine ELSE LineOf(TextsOf(h, rows[i]), quoteAll)]
  BY <1>1, <1>2 DEF SheetLines
<1>4. ASSUME NEW row \in Rows, NEW x, x = LineOf(TextsOf(h, row), quoteAll)
      PROVE  x \in Seq(Char) /\ x # BlankLine /\ RowOf(x, h) = Trimmed(row)
  <2>1. row \in [Columns -> Seq(STRING)]
    BY ImportAssumption
  <2> QED BY <1>4, <2>1, RowIsBack
<1>5. \A i \in 1 .. n : rows[i] # BlankLine => /\ l[i] \in Seq(Char) /\ l[i] # BlankLine
                                              /\ RowOf(l[i], h) = Trimmed(rows[i])
  <2>1. ASSUME NEW i \in 1 .. n, rows[i] # BlankLine
        PROVE  l[i] \in Seq(Char) /\ l[i] # BlankLine /\ RowOf(l[i], h) = Trimmed(rows[i])
    <3>1. PICK row, x : row = rows[i] /\ x = l[i]
      OBVIOUS
    <3>2. row \in Rows /\ x = LineOf(TextsOf(h, row), quoteAll)
      BY <1>2, <1>3, <2>1, <3>1
    <3> QED BY <1>4, <3>1, <3>2
  <2> QED BY <2>1
<1>6. \A i \in 1 .. n : rows[i] = BlankLine => l[i] = BlankLine
  BY <1>3
<1>7. PICK p, q : p = Kept(l) /\ q = Kept(rows)
  OBVIOUS
<1>8. /\ p \in Seq(Seq(Seq(Char))) /\ Len(p) = n
      /\ \A i \in 1 .. n : p[i] = IF l[i] = BlankLine THEN <<>> ELSE <<l[i]>>
  <2>1. DOMAIN l = 1 .. n
    BY <1>3
  <2>2. PICK T : T = Seq(Char)
    OBVIOUS
  <2>3. \A i \in 1 .. n : l[i] = BlankLine \/ l[i] \in T
    BY <1>5, <1>6, <2>2
  <2>4. /\ Kept(l) \in Seq(Seq(T)) /\ Len(Kept(l)) = n
        /\ \A i \in 1 .. n : Kept(l)[i] = IF l[i] = BlankLine THEN <<>> ELSE <<l[i]>>
    <3>1. LinesOver(l, n, T)
      BY <2>1, <2>3 DEF LinesOver
    <3> QED BY <1>2, <3>1, KeptIs
  <2> QED BY <1>7, <2>2, <2>4
<1>9. /\ q \in Seq(Seq(Rows)) /\ Len(q) = n
      /\ \A i \in 1 .. n : q[i] = IF rows[i] = BlankLine THEN <<>> ELSE <<rows[i]>>
  <2>1. LinesOver(rows, n, Rows)
    BY <1>2 DEF LinesOver
  <2> QED BY <1>2, <1>7, <2>1, KeptIs
<1>10. PICK R : \A x, row : <<x, row>> \in R <=> x \in Seq(Char) /\ row \in Rows /\ RowOf(x, h) = Trimmed(row)
  <2>1. PICK R : R = {z \in Seq(Char) \X Rows : RowOf(z[1], h) = Trimmed(z[2])}
    OBVIOUS
  <2>2. \A x, row : <<x, row>> \in R <=> x \in Seq(Char) /\ row \in Rows /\ RowOf(x, h) = Trimmed(row)
    BY <2>1
  <2> QED BY <2>2
<1>11. MapsAll(R, p, q)
  <2>1. ASSUME NEW i \in 1 .. n PROVE Maps(R, p[i], q[i])
    <3>1. CASE rows[i] = BlankLine
      <4>1. p[i] = <<>> /\ q[i] = <<>>
        BY <1>6, <1>8, <1>9, <3>1
      <4> QED BY <4>1 DEF Maps
    <3>2. CASE rows[i] # BlankLine
      <4>1. PICK x, row : x = l[i] /\ row = rows[i]
        OBVIOUS
      <4>2. p[i] = <<x>> /\ q[i] = <<row>>
        BY <1>5, <1>8, <1>9, <3>2, <4>1
      <4>3. <<x, row>> \in R
        BY <1>2, <1>5, <1>10, <3>2, <4>1
      <4>4. /\ Len(<<x>>) = 1 /\ <<x>>[1] = x /\ Len(<<row>>) = 1 /\ <<row>>[1] = row
            /\ \A j \in 1 .. 1 : j = 1
        BY OneIsSeq
      <4> QED BY <4>2, <4>3, <4>4 DEF Maps
    <3> QED BY <3>1, <3>2
  <2> QED BY <1>8, <1>9, <2>1 DEF MapsAll
<1>12. lines = FlattenSeq(p) /\ w = FlattenSeq(q)
  BY <1>1, <1>7, WithoutBlanksIs
<1>13. Maps(R, lines, w)
  BY <1>8, <1>9, <1>11, <1>12, FlattenMaps
<1>14. lines \in Seq(Seq(Char))
  BY <1>8, <1>12, PiecesStand
<1>15. PICK m : m = Len(lines)
  OBVIOUS
<1>16. m \in Nat /\ DOMAIN lines = 1 .. m /\ Len(w) = m /\ \A j \in 1 .. m : <<lines[j], w[j]>> \in R
  BY <1>13, <1>14, <1>15 DEF Maps
<1>17. \A j \in 1 .. m : RowOf(lines[j], h) = Trimmed(w[j])
  BY <1>10, <1>16
<1>18. DOMAIN w = 1 .. m
  BY <1>2, <1>16
<1>19. [j \in 1 .. m |-> RowOf(lines[j], h)] = [j \in 1 .. m |-> Trimmed(w[j])]
  BY <1>17
<1>20. TrimmedRows(rows) = [j \in 1 .. m |-> Trimmed(w[j])]
  BY <1>1, <1>18 DEF TrimmedRows
<1> QED BY <1>16, <1>19, <1>20

-----------------------------------------------------------------------------
(* The import *)

\* The orders of a sheet as it is written, and the places of its other rows.
OrdersFound(rows) == OrdersFrom(TrimmedRows(rows))
ErrorsOf(rows) ==
  {i + 1 : i \in {j \in DOMAIN TrimmedRows(rows) : ~Valid(TrimmedRows(rows)[j])}}
AnswerTo(stage, rows) == [stage |-> stage, good |-> OrdersFound(rows), errors |-> ErrorsOf(rows)]

\* What each import of the sheet has inserted.
Copies(n, orders) == IF n = 0 THEN <<>> ELSE IF n = 1 THEN orders ELSE orders \o orders

ImportInv ==
  /\ sheet \in [header : Headers, quoteAll : BOOLEAN, rows : WrittenRows]
  /\ imports \in 0 .. 2
  /\ \/ upload = Refused
     \/ upload = Editing /\ imports < 2
     \/ upload = AnswerTo("writing", sheet.rows) /\ imports < 2
     \/ upload = AnswerTo("answered", sheet.rows)
  /\ stored = Copies(imports, OrdersFound(sheet.rows))

OrderLabels == {"customer", "phone", "items", "total"}

(* The orders made of rows are a sequence, each with the same labels. *)
LEMMA OrdersIsSeq ==
  ASSUME NEW rows, NEW n \in Nat, DOMAIN rows = 1 .. n
  PROVE  \E T : OrdersFrom(rows) \in Seq(T) /\ \A x \in T : DOMAIN x = OrderLabels
<1>1. PICK T : T = {OrderFrom(rows[i]) : i \in 1 .. n}
  OBVIOUS
<1>2. n \in Nat /\ DOMAIN rows = 1 .. n
  OBVIOUS
<1>3. PICK p : p = [i \in DOMAIN rows |-> IF Valid(rows[i]) THEN <<OrderFrom(rows[i])>> ELSE <<>>]
  OBVIOUS
<1>4. p = [i \in 1 .. n |-> IF Valid(rows[i]) THEN <<OrderFrom(rows[i])>> ELSE <<>>]
  BY <1>2, <1>3
<1>5. ASSUME NEW i \in 1 .. n PROVE p[i] \in Seq(T)
  <2>1. OrderFrom(rows[i]) \in T
    BY <1>1, <1>2
  <2>2. PICK x : x = OrderFrom(rows[i])
    OBVIOUS
  <2>3. <<x>> \in Seq(T) /\ <<>> \in Seq(T)
    BY <2>1, <2>2, OneIsSeq
  <2>4. p[i] = <<x>> \/ p[i] = <<>>
    BY <1>4, <2>2
  <2> QED BY <2>3, <2>4
<1>6. p \in [1 .. n -> Seq(T)]
  BY <1>4, <1>5
<1>7. p \in Seq(Seq(T))
  BY <1>2, <1>6
<1>8. OrdersFrom(rows) = FlattenSeq(p)
  BY <1>3, Zenon DEF OrdersFrom
<1>9. \A r : DOMAIN OrderFrom(r) = OrderLabels
  BY DEF OrderFrom, OrderLabels
<1>10. \A x \in T : DOMAIN x = OrderLabels
  BY <1>1, <1>9
<1> QED BY <1>7, <1>8, <1>10, PiecesStand

(* So are the orders of a sheet. *)
LEMMA OrdersOfIsSeq ==
  ASSUME NEW w \in WrittenRows
  PROVE  \E T : OrdersFound(w) \in Seq(T) /\ \A x \in T : DOMAIN x = OrderLabels
<1>1. PICK v, n : v = WithoutBlanks(w) /\ n = Len(v)
  OBVIOUS
<1>2. v \in Seq(Rows)
  BY <1>1, WrittenIs
<1>3. n \in Nat /\ DOMAIN v = 1 .. n
  BY <1>1, <1>2
<1>4. DOMAIN TrimmedRows(w) = 1 .. n
  BY <1>1, <1>3 DEF TrimmedRows
<1> QED BY <1>3, <1>4, OrdersIsSeq DEF OrdersFound

(* No import, one or two of the same orders, put together. *)
LEMMA CopiesAre ==
  ASSUME NEW T, NEW orders \in Seq(T)
  PROVE  \A n \in 0 .. 2 : FlattenSeq([i \in 1 .. n |-> orders]) = Copies(n, orders)
<1>1. ASSUME NEW n \in 0 .. 2, NEW p, p = [i \in 1 .. n |-> orders], NEW f, f = FlattenSeq(p)
      PROVE  f = Copies(n, orders)
  <2>1. p \in [1 .. n -> Seq(T)] /\ n \in Nat
    BY <1>1
  <2>2. p \in Seq(Seq(T)) /\ Len(p) = n /\ \A i \in 1 .. n : p[i] = orders
    BY <1>1, <2>1
  <2>3. CASE n = 0
    <3>1. f = <<>>
      BY <1>1, <2>2, <2>3, FlattenIsWhole
    <3> QED BY <2>3, <3>1 DEF Copies
  <2>4. CASE n # 0
    <3>1. f = Whole(p)[n]
      BY <1>1, <2>2, <2>4, FlattenIsWhole
    <3>2. Whole(p)[1] = orders
      BY <2>1, <2>2, <2>4, WholeGrows
    <3>3. CASE n = 1
      BY <3>1, <3>2, <3>3 DEF Copies
    <3>4. CASE n = 2
      <4>1. Whole(p)[2] = Whole(p)[1] \o orders
        <5>1. 2 \in 1 .. Len(p) /\ 2 # 1 /\ 2 - 1 = 1 /\ p[2] = orders
          BY <2>2, <3>4
        <5> QED BY <2>2, <5>1, WholeGrows
      <4> QED BY <3>1, <3>2, <3>4, <4>1 DEF Copies
    <3> QED BY <2>1, <2>4, <3>3, <3>4
  <2> QED BY <2>3, <2>4
<1> QED BY <1>1

(* An upload that is not refused holds the orders of the sheet and the places of its other rows. *)
LEMMA UploadIs ==
  ASSUME ImportInv, Upload
  PROVE  \/ upload' = Refused
         \/ upload' = AnswerTo("answered", sheet.rows) \/ upload' = AnswerTo("writing", sheet.rows)
<1>1. PICK h, w, q : h = sheet.header /\ w = sheet.rows /\ q = sheet.quoteAll
  OBVIOUS
<1>2. h \in Seq(STRING) /\ w \in WrittenRows
  BY <1>1, ImportAssumption DEF ImportInv
<1>3. PICK lines : lines = LinesOf(sheet)
  OBVIOUS
<1>4. PICK rows : rows = [i \in DOMAIN lines |-> RowOf(lines[i], h)]
  OBVIOUS
<1>5. SUFFICES ASSUME upload' # Refused PROVE upload' = AnswerTo("answered", w) \/ upload' = AnswerTo("writing", w)
  BY <1>1
<1>6. /\ Missing(h) = {}
      /\ \E stage \in {"answered", "writing"} :
           upload' = [stage |-> stage, good |-> OrdersFrom(rows),
                      errors |-> {i + 1 : i \in {i \in DOMAIN rows : ~Valid(rows[i])}}]
  BY <1>1, <1>3, <1>4, <1>5 DEF Upload
<1>7. lines = WithoutBlanks(SheetLines(h, w, q))
  BY <1>1, <1>3, Zenon DEF LinesOf, SheetLines, TextsOf
<1>8. rows = TrimmedRows(w)
  BY <1>2, <1>4, <1>6, <1>7, LinesAreBack
<1> QED BY <1>6, <1>8 DEF AnswerTo, OrdersFound, ErrorsOf

(* Every step keeps the invariant. *)
LEMMA StepKeepsImport ==
  ASSUME ImportInv, [ImportNext]_importVars
  PROVE  ImportInv'
<1>1. PICK w, o : w = sheet.rows /\ o = OrdersFound(w)
  OBVIOUS
<1>2. w \in WrittenRows /\ imports \in 0 .. 2 /\ stored = Copies(imports, o)
  BY <1>1 DEF ImportInv
<1>4. PICK T : o \in Seq(T)
  BY <1>1, <1>2, OrdersOfIsSeq
<1>5. "editing" # "writing" /\ "editing" # "answered" /\ "refused" # "writing" /\ "answered" # "writing"
      /\ "refused" # "editing" /\ "refused" # "answered"
  OBVIOUS
<1>6. ASSUME NEW stage, NEW rows
      PROVE  AnswerTo(stage, rows).stage = stage /\ AnswerTo(stage, rows).good = OrdersFound(rows)
  BY DEF AnswerTo
<1>7. Editing.stage = "editing" /\ Refused.stage = "refused"
  BY DEF Editing, Refused
<1>8. CASE WritesRow
  <2>1. upload = Editing /\ imports = 0 /\ upload' = upload /\ stored' = stored /\ imports' = imports
    BY <1>8 DEF WritesRow
  <2>2. sheet' \in [header : Headers, quoteAll : BOOLEAN, rows : WrittenRows]
    <3>1. PICK row \in Rows \cup {BlankLine} : sheet' = [sheet EXCEPT !.rows = Append(@, row)]
      BY <1>8 DEF WritesRow
    <3>2. Append(w, row) \in WrittenRows
      BY <1>2 DEF WrittenRows
    <3>3. sheet \in [header : Headers, quoteAll : BOOLEAN, rows : WrittenRows]
      BY DEF ImportInv
    <3> QED BY <1>1, <3>1, <3>2, <3>3
  <2>3. stored = <<>>
    BY <1>2, <2>1 DEF Copies
  <2> QED BY <2>1, <2>2, <2>3 DEF ImportInv, Copies
<1>9. CASE Upload
  <2>1. sheet' = sheet /\ stored' = stored /\ imports' = imports /\ upload.stage = "editing"
    BY <1>9 DEF Upload
  <2>2. imports < 2
    BY <1>5, <1>6, <1>7, <2>1 DEF ImportInv
  <2>3. upload' = Refused \/ upload' = AnswerTo("answered", sheet.rows) \/ upload' = AnswerTo("writing", sheet.rows)
    BY <1>9, UploadIs
  <2> QED BY <2>1, <2>2, <2>3 DEF ImportInv
<1>10. CASE Insert
  <2>1. /\ upload.stage = "writing" /\ upload' = [upload EXCEPT !.stage = "answered"]
        /\ stored' = stored \o upload.good /\ imports' = imports + 1 /\ sheet' = sheet
    BY <1>10 DEF Insert
  <2>2. upload = AnswerTo("writing", w) /\ imports < 2
    BY <1>1, <1>5, <1>6, <1>7, <2>1 DEF ImportInv
  <2>3. upload' = AnswerTo("answered", w)
    BY <2>1, <2>2 DEF AnswerTo
  <2>4. stored' = Copies(imports, o) \o o
    BY <1>1, <1>2, <1>6, <2>1, <2>2
  <2>5. imports' \in 0 .. 2 /\ (imports = 0 \/ imports = 1)
    BY <1>2, <2>1, <2>2
  <2>6. stored' = Copies(imports', o)
    <3>1. CASE imports = 0
      <4>1. <<>> \o o = o
        BY <1>4
      <4> QED BY <2>1, <2>4, <3>1, <4>1 DEF Copies
    <3>2. CASE imports = 1
      BY <2>1, <2>4, <3>2 DEF Copies
    <3> QED BY <2>5, <3>1, <3>2
  <2> QED BY <1>1, <2>1, <2>3, <2>5, <2>6 DEF ImportInv
<1>11. CASE InsertFails
  BY <1>11 DEF InsertFails, ImportInv
<1>12. CASE SendsAgain
  BY <1>12 DEF SendsAgain, ImportInv
<1>13. CASE UNCHANGED importVars
  BY <1>13 DEF importVars, ImportInv
<1> QED BY <1>8, <1>9, <1>10, <1>11, <1>12, <1>13 DEF ImportNext

(* The invariant says that an import keeps the rows. *)
LEMMA ImportInvKeepsRows == ImportInv => ImportKeepsRows
<1> SUFFICES ASSUME ImportInv PROVE ImportKeepsRows
  OBVIOUS
<1>1. PICK w, v, t : w = sheet.rows /\ v = WithoutBlanks(w) /\ t = TrimmedRows(w)
  OBVIOUS
<1>2. w \in WrittenRows /\ imports \in 0 .. 2 /\ stored = Copies(imports, OrdersFound(w))
  BY <1>1 DEF ImportInv
<1>3. v \in Seq(Rows)
  BY <1>1, <1>2, WrittenIs
<1>4. OrdersFound(w) = OrdersFrom(t) /\ t = [i \in DOMAIN v |-> Trimmed(v[i])]
  BY <1>1 DEF OrdersFound, TrimmedRows
<1>5. stored = FlattenSeq([n \in 1 .. imports |-> OrdersFrom(t)])
  <2>1. PICK T : OrdersFrom(t) \in Seq(T)
    BY <1>2, <1>4, OrdersOfIsSeq
  <2> QED BY <1>2, <1>4, <2>1, CopiesAre
<1>6. upload.stage = "answered" =>
        upload.errors = {i + 1 : i \in {j \in DOMAIN t : ~Valid(t[j])}} /\ upload.good = OrdersFrom(t)
  <2>1. SUFFICES ASSUME upload.stage = "answered"
                 PROVE  upload.errors = ErrorsOf(w) /\ upload.good = OrdersFound(w)
    BY <1>1, <1>4 DEF ErrorsOf
  <2>2. upload = AnswerTo("answered", w)
    <3>1. Editing.stage # "answered" /\ Refused.stage # "answered" /\ AnswerTo("writing", w).stage # "answered"
      BY DEF Editing, Refused, AnswerTo
    <3> QED BY <1>1, <2>1, <3>1 DEF ImportInv
  <2> QED BY <2>2 DEF AnswerTo
<1>7. ASSUME NEW i \in DOMAIN v
      PROVE  SubSeq(Cells(Joined(<<CsvCell(v[i]["customer"]), CsvCell(v[i]["item"])>>, Comma)), 1, 2)
               = <<Neutral(v[i]["customer"]), Neutral(v[i]["item"])>>
  <2>1. v[i] \in [Columns -> Seq(STRING)]
    BY <1>3, ImportAssumption
  <2>2. PICK a, b : a = v[i]["customer"] /\ b = v[i]["item"]
    OBVIOUS
  <2>3. a \in Seq(STRING) /\ b \in Seq(STRING)
    BY <2>1, <2>2 DEF Columns
  <2>4. SubSeq(Cells(Joined(<<CsvCell(a), CsvCell(b)>>, Comma)), 1, 2) = <<Neutral(a), Neutral(b)>>
    BY <2>3, ExportIsBack
  <2> QED BY <2>2, <2>4
<1> QED BY <1>1, <1>4, <1>5, <1>6, <1>7, Zenon DEF ImportKeepsRows

(* Nothing was imported of the first sheet. *)
LEMMA ImportStart == ImportInit => ImportInv
<1> SUFFICES ASSUME ImportInit PROVE ImportInv
  OBVIOUS
<1>1. sheet \in [header : Headers, quoteAll : BOOLEAN, rows : {<<>>}] /\ upload = Editing
      /\ stored = <<>> /\ imports = 0
  BY DEF ImportInit
<1>2. <<>> \in WrittenRows
  BY DEF WrittenRows
<1>3. sheet \in [header : Headers, quoteAll : BOOLEAN, rows : WrittenRows]
  BY <1>1, <1>2
<1>4. imports \in 0 .. 2 /\ imports < 2 /\ stored = Copies(imports, OrdersFound(sheet.rows))
  BY <1>1 DEF Copies
<1> QED BY <1>1, <1>3, <1>4 DEF ImportInv

(* The sheet is made of rows, and the orders in the table of labels. *)
LEMMA ImportHasType == ImportInv => ImportTypeOK
<1> SUFFICES ASSUME ImportInv PROVE ImportTypeOK
  OBVIOUS
<1>1. PICK w, o, s : w = sheet.rows /\ o = OrdersFound(w) /\ s = stored
  OBVIOUS
<1>2. sheet.header \in Headers /\ w \in WrittenRows /\ imports \in 0 .. 2 /\ s = Copies(imports, o)
  BY <1>1 DEF ImportInv
<1>3. \A x \in Range(w) : x \in Rows \cup {BlankLine}
  BY <1>2, WrittenIs DEF Range
<1>4. upload.stage \in {"editing", "writing", "answered", "refused"}
  BY DEF ImportInv, Editing, Refused, AnswerTo
<1>5. PICK T : o \in Seq(T) /\ \A x \in T : DOMAIN x = OrderLabels
  BY <1>1, <1>2, OrdersOfIsSeq
<1>6. s \in Seq(T)
  <2>1. <<>> \in Seq(T) /\ o \o o \in Seq(T)
    BY <1>5
  <2> QED BY <1>2, <1>5, <2>1 DEF Copies
<1>7. \A i \in DOMAIN s : DOMAIN s[i] = OrderLabels
  BY <1>5, <1>6
<1> QED BY <1>1, <1>2, <1>3, <1>4, <1>7 DEF ImportTypeOK, OrderLabels

(* An import keeps the rows (importCsv, parseCsvLine, csvCell): what is inserted is, import by import, the
   orders of the good rows in their order, each other row is reported at its place, and a line of an export is
   read back as its cells. *)
THEOREM ImportKeeps == ImportSpec => []ImportKeepsRows
BY ImportStart, StepKeepsImport, ImportInvKeepsRows, PTL DEF ImportSpec
=============================================================================
