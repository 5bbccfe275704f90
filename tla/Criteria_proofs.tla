-------------------------- MODULE Criteria_proofs ---------------------------

(***************************************************************************)
(* Proofs about Criteria, for every set of rows, columns and calls, every  *)
(* page size and every width of int.  CriteriaInv says that the builder    *)
(* and the criteria are well formed and keep their whitelist; PagingInv    *)
(* says which rows a client has seen.  The loops of the code are recursive *)
(* functions: that they exist and what they compute is proved by induction *)
(* over sets of naturals (NatSetInduction).                                *)
(***************************************************************************)
EXTENDS Criteria, FiniteSetTheorems, WellFoundedInduction, SequenceTheorems, TLAPS

------------------------------------------------------------------------------
(* Induction and recursion.                                                *)

(***************************************************************************)
(* Every nonempty set of naturals has a least element.                     *)
(***************************************************************************)
LEMMA LeastNat ==
  ASSUME NEW T, T \subseteq Nat, T # {}
  PROVE  \E m \in T : \A k \in T : m =< k
<1> DEFINE R == OpToRel(<, Nat)
<1>1. IsWellFoundedOn(R, Nat)
  BY NatLessThanWellFounded
<1>2. \E m \in T : \A k \in T : ~ (<<k, m>> \in R)
  <2> HIDE DEF R
  <2> QED BY <1>1, WFMin
<1>3. \A k, m \in Nat : <<k, m>> \in R <=> k < m
  BY DEF OpToRel
<1> HIDE DEF R
<1>4. PICK m \in T : \A k \in T : ~ (<<k, m>> \in R)
  BY <1>2
<1>5. \A k \in T : ~ (k < m)
  BY <1>3, <1>4
<1> QED
  BY <1>5

(***************************************************************************)
(* Induction over the naturals, stated with a set.                         *)
(***************************************************************************)
LEMMA NatSetInduction ==
  ASSUME NEW T, 0 \in T, \A n \in Nat : n \in T => n + 1 \in T
  PROVE  Nat \subseteq T
<1> SUFFICES ASSUME Nat \ T # {} PROVE FALSE
  OBVIOUS
<1>1. PICK m \in Nat \ T : \A k \in Nat \ T : m =< k
  BY LeastNat
<1>2. m - 1 \in Nat /\ m - 1 \notin Nat \ T
  BY <1>1
<1> QED
  BY <1>1, <1>2

(***************************************************************************)
(* A function defined over 0 .. m, each value from the one before it,      *)
(* exists.                                                                 *)
(***************************************************************************)
Iterates(V, a, F, m, g) ==
  /\ g \in [0 .. m -> V] /\ g[0] = a
  /\ \A n \in 1 .. m : g[n] = F[<<g[n - 1], n>>]

\* A recursive function on 0 .. m exists.
LEMMA RecursionExists ==
  ASSUME NEW V, NEW a \in V, NEW F \in [V \X Nat -> V], NEW m \in Nat
  PROVE  \E g : Iterates(V, a, F, m, g)
<1> DEFINE Upto(g, k) == /\ g[0] = a
                         /\ \A n \in 1 .. k : g[n] = F[<<g[n - 1], n>>]
           M == {k \in Nat : \E g \in [0 .. k -> V] : Upto(g, k)}
<1>1. 0 \in M
  <2> DEFINE g == [k \in 0 .. 0 |-> a]
  <2>1. g \in [0 .. 0 -> V] /\ Upto(g, 0)
    OBVIOUS
  <2> HIDE DEF Upto, g
  <2> QED BY <2>1
<1>2. ASSUME NEW k \in Nat, k \in M PROVE k + 1 \in M
  <2>1. PICK g \in [0 .. k -> V] : Upto(g, k)
    BY <1>2
  <2> DEFINE h == [n \in 0 .. k + 1 |-> IF n = k + 1 THEN F[<<g[k], k + 1>>] ELSE g[n]]
  <2>2. h \in [0 .. k + 1 -> V]
    <3>1. F[<<g[k], k + 1>>] \in V
      OBVIOUS
    <3> QED BY <3>1
  <2>3. \A n \in 0 .. k : h[n] = g[n]
    OBVIOUS
  <2>4. h[k + 1] = F[<<g[k], k + 1>>]
    OBVIOUS
  <2> HIDE DEF h
  <2>5. Upto(h, k + 1)
    <3>1. h[0] = a
      BY <2>1, <2>3
    <3>2. ASSUME NEW n \in 1 .. k PROVE h[n] = F[<<h[n - 1], n>>]
      <4>1. h[n] = g[n] /\ h[n - 1] = g[n - 1]
        BY <2>3
      <4> QED BY <2>1, <4>1
    <3>3. h[k + 1] = F[<<h[k + 1 - 1], k + 1>>]
      BY <2>3, <2>4
    <3> QED BY <3>1, <3>2, <3>3
  <2> HIDE DEF Upto
  <2> QED BY <2>2, <2>5
<1> HIDE DEF M
<1>3. Nat \subseteq M
  BY <1>1, <1>2, NatSetInduction
<1> QED BY <1>3 DEF M, Iterates

(***************************************************************************)
(* The loop of Keeping, round by round.                                    *)
(***************************************************************************)
KeepsInRounds(X, S, s, g) ==
  /\ g \in [0 .. Len(s) -> Seq(X)] /\ g[0] = <<>>
  /\ \A n \in 1 .. Len(s) :
       g[n] = IF s[n] \in S THEN Append(g[n - 1], s[n]) ELSE g[n - 1]
  /\ Keeping(s, S) = g[Len(s)]

\* The loop of Keeping runs.
LEMMA KeepingRounds ==
  ASSUME NEW X, NEW S, NEW s \in Seq(X)
  PROVE  \E g : KeepsInRounds(X, S, s, g)
<1> DEFINE m == Len(s)
           Round(r, n) == IF s[n] \in S THEN Append(r, s[n]) ELSE r
           Step(g, n) == IF n = 0 THEN <<>> ELSE Round(g[n - 1], n)
           Rec(g) == g = [n \in 0 .. m |-> Step(g, n)]
           F == [p \in Seq(X) \X Nat |-> IF p[2] \in 1 .. m THEN Round(p[1], p[2]) ELSE <<>>]
           kept == CHOOSE g : Rec(g)
           V == Seq(X)
           a == <<>>
<1>1. F \in [V \X Nat -> V]
  OBVIOUS
<1>2. m \in Nat /\ a \in V
  OBVIOUS
<1>3. Keeping(s, S) = kept[m]
  BY DEF Keeping
<1>4. \A r, n : Round(r, n) = IF s[n] \in S THEN Append(r, s[n]) ELSE r
  OBVIOUS
<1> HIDE DEF Round
<1>5. \A r \in V, n \in 1 .. m : F[<<r, n>>] = Round(r, n)
  OBVIOUS
<1> HIDE DEF F, m, V, a, kept
<1>6. PICK g : Iterates(V, a, F, m, g)
  BY <1>1, <1>2, RecursionExists
<1>7. g \in [0 .. m -> V] /\ g[0] = a /\ \A n \in 1 .. m : g[n] = F[<<g[n - 1], n>>]
  BY <1>6 DEF Iterates
<1>8. \A n \in 1 .. m : g[n] = Round(g[n - 1], n)
  <2> SUFFICES ASSUME NEW n \in 1 .. m PROVE g[n] = Round(g[n - 1], n)
    OBVIOUS
  <2>1. g[n - 1] \in V
    BY <1>2, <1>7
  <2> QED BY <1>5, <1>7, <2>1
<1>9. Rec(g)
  <2>1. \A n \in 0 .. m : g[n] = Step(g, n)
    BY <1>2, <1>7, <1>8 DEF a
  <2> HIDE DEF Step
  <2> QED BY <1>7, <2>1
<1>10. Rec(kept)
  <2> HIDE DEF Rec
  <2> QED BY <1>9 DEF kept
<1>11. kept[0] = a /\ \A n \in 1 .. m : kept[n] = Round(kept[n - 1], n)
  <2>1. \A n \in 0 .. m : kept[n] = Step(kept, n)
    <3> HIDE DEF Step
    <3> QED BY <1>10
  <2> QED BY <1>2, <2>1 DEF a
<1>12. \A n \in 0 .. m : kept[n] = g[n]
  <2> DEFINE T == {n \in Nat : n =< m => kept[n] = g[n]}
  <2>1. 0 \in T
    BY <1>7, <1>11
  <2>2. ASSUME NEW n \in Nat, n \in T PROVE n + 1 \in T
    <3> SUFFICES ASSUME n + 1 =< m PROVE kept[n + 1] = g[n + 1]
      OBVIOUS
    <3>1. n + 1 \in 1 .. m /\ n + 1 - 1 = n
      BY <1>2
    <3>2. kept[n] = g[n]
      BY <1>2, <2>2
    <3>3. g[n + 1] = Round(g[n], n + 1)
      BY <1>8, <3>1
    <3>4. kept[n + 1] = Round(kept[n], n + 1)
      BY <1>11, <3>1
    <3> QED BY <3>2, <3>3, <3>4
  <2> HIDE DEF T
  <2>3. Nat \subseteq T
    BY <2>1, <2>2, NatSetInduction
  <2> QED BY <1>2, <2>3 DEF T
<1>13. Keeping(s, S) = g[m]
  BY <1>2, <1>12, <1>3
<1> QED BY <1>7, <1>8, <1>13, <1>4 DEF m, a, V, KeepsInRounds

(***************************************************************************)
(* What the loop keeps: the elements of s that are in S, each of them, in  *)
(* a sequence without repetition if s has none.                            *)
(***************************************************************************)
LEMMA AppendFacts ==
  ASSUME NEW X, NEW r \in Seq(X), NEW e \in X
  PROVE  /\ Append(r, e) \in Seq(X)
         /\ ToSet(Append(r, e)) = ToSet(r) \cup {e}
         /\ IsInjective(r) /\ e \notin ToSet(r) => IsInjective(Append(r, e))
<1> DEFINE u == Append(r, e)
<1>1. u \in Seq(X) /\ DOMAIN u = 1 .. Len(r) + 1 /\ u[Len(r) + 1] = e
  OBVIOUS
<1>2. DOMAIN r = 1 .. Len(r) /\ Len(r) \in Nat /\ \A i \in 1 .. Len(r) : u[i] = r[i]
  OBVIOUS
<1> HIDE DEF u
<1>3. ToSet(u) = ToSet(r) \cup {e}
  <2>1. ASSUME NEW x \in ToSet(u) PROVE x \in ToSet(r) \cup {e}
    <3>1. PICK i \in 1 .. Len(r) + 1 : x = u[i]
      BY <1>1 DEF ToSet
    <3>2. CASE i \in 1 .. Len(r)
      BY <1>2, <3>1, <3>2 DEF ToSet
    <3>3. CASE i = Len(r) + 1
      BY <1>1, <3>1, <3>3
    <3> QED BY <1>2, <3>2, <3>3
  <2>2. ASSUME NEW x \in ToSet(r) PROVE x \in ToSet(u)
    <3>1. PICK i \in 1 .. Len(r) : x = r[i]
      BY <1>2 DEF ToSet
    <3>2. i \in DOMAIN u /\ u[i] = x
      BY <1>1, <1>2, <3>1
    <3> QED BY <3>2 DEF ToSet
  <2>3. e \in ToSet(u)
    <3>1. Len(r) + 1 \in DOMAIN u
      BY <1>1, <1>2
    <3> QED BY <1>1, <3>1 DEF ToSet
  <2> QED BY <2>1, <2>2, <2>3
<1>4. ASSUME IsInjective(r), e \notin ToSet(r) PROVE IsInjective(u)
  <2>1. \A i \in 1 .. Len(r) : r[i] # e
    BY <1>2, <1>4 DEF ToSet
  <2>2. \A i, j \in 1 .. Len(r) : r[i] = r[j] => i = j
    BY <1>2, <1>4 DEF IsInjective
  <2>3. \A i, j \in 1 .. Len(r) + 1 : u[i] = u[j] => i = j
    BY <1>1, <1>2, <2>1, <2>2
  <2> QED BY <1>1, <2>3 DEF IsInjective
<1> QED BY <1>1, <1>3, <1>4 DEF u

\* Keeping keeps the elements in S, each as often as before.
LEMMA KeepingFacts ==
  ASSUME NEW X, NEW S, NEW s \in Seq(X)
  PROVE  /\ Keeping(s, S) \in Seq(X)
         /\ ToSet(Keeping(s, S)) = ToSet(s) \cap S
         /\ IsInjective(s) => IsInjective(Keeping(s, S))
<1> DEFINE m == Len(s)
           First(n) == {s[i] : i \in 1 .. n}
<1>1. m \in Nat /\ DOMAIN s = 1 .. m /\ \A i \in 1 .. m : s[i] \in X
  OBVIOUS
<1>2. PICK g : KeepsInRounds(X, S, s, g)
  BY KeepingRounds
<1>3. /\ g \in [0 .. m -> Seq(X)] /\ g[0] = <<>>
      /\ \A n \in 1 .. m : g[n] = IF s[n] \in S THEN Append(g[n - 1], s[n]) ELSE g[n - 1]
      /\ Keeping(s, S) = g[m]
  BY <1>2 DEF KeepsInRounds
<1> HIDE DEF m
<1> DEFINE Kept(n) == /\ ToSet(g[n]) = First(n) \cap S
                      /\ IsInjective(s) => IsInjective(g[n])
           T == {n \in Nat : n =< m => Kept(n)}
<1>4. 0 \in T
  <2>1. ToSet(<<>>) = {} /\ IsInjective(<<>>)
    BY DEF ToSet, IsInjective
  <2>2. First(0) = {}
    OBVIOUS
  <2> QED BY <1>3, <2>1, <2>2
<1>5. ASSUME NEW n \in Nat, n \in T PROVE n + 1 \in T
  <2> SUFFICES ASSUME n + 1 =< m PROVE Kept(n + 1)
    OBVIOUS
  <2> DEFINE e == s[n + 1]  r == g[n]
  <2>1. n + 1 \in 1 .. m /\ n \in 0 .. m /\ n + 1 - 1 = n /\ n =< m
    BY <1>1
  <2>2. e \in X /\ r \in Seq(X) /\ Kept(n)
    BY <1>1, <1>3, <1>5, <2>1
  <2>3. g[n + 1] = IF e \in S THEN Append(r, e) ELSE r
    BY <1>3, <2>1
  <2>4. First(n + 1) = First(n) \cup {e}
    OBVIOUS
  <2>5. IsInjective(s) => e \notin First(n)
    BY <1>1, <2>1 DEF IsInjective
  <2> HIDE DEF First, e, r
  <2>6. CASE e \in S
    BY <2>2, <2>3, <2>4, <2>5, <2>6, AppendFacts DEF r
  <2>7. CASE e \notin S
    BY <2>2, <2>3, <2>4, <2>7 DEF r
  <2> QED BY <2>6, <2>7
<1> HIDE DEF T
<1>6. m \in T
  BY <1>1, <1>4, <1>5, NatSetInduction
<1>7. Kept(m)
  BY <1>1, <1>6 DEF T
<1>8. First(m) = ToSet(s)
  BY <1>1 DEF ToSet
<1> QED BY <1>1, <1>3, <1>7, <1>8

------------------------------------------------------------------------------
(* Placeholders and parameters.                                            *)

(***************************************************************************)
(* Consecutive runs of numbers, one after the other from 1, flatten to the *)
(* numbers from 1 in order.  start holds where each run begins.            *)
(***************************************************************************)
Consecutive(seqs, start) ==
  /\ start \in [1 .. Len(seqs) + 1 -> Nat] /\ start[1] = 1
  /\ \A i \in 1 .. Len(seqs) :
       /\ seqs[i] \in Seq(Nat)
       /\ start[i + 1] = start[i] + Len(seqs[i])
       /\ \A j \in 1 .. Len(seqs[i]) : seqs[i][j] = start[i] + j - 1

\* 1 .. k followed by k + 1 .. k + n is 1 .. k + n.
LEMMA ConcatUpTo ==
  ASSUME NEW k \in Nat, NEW s \in Seq(Nat),
         \A j \in 1 .. Len(s) : s[j] = k + j
  PROVE  [j \in 1 .. k |-> j] \o s = [j \in 1 .. k + Len(s) |-> j]
<1> DEFINE u == [j \in 1 .. k |-> j]
           w == [j \in 1 .. k + Len(s) |-> j]
           n == Len(s)
<1>1. u \in Seq(Nat) /\ Len(u) = k /\ w \in Seq(Nat) /\ Len(w) = k + n /\ n \in Nat
  OBVIOUS
<1>2. \A j \in 1 .. k : u[j] = j
  OBVIOUS
<1>3. \A j \in 1 .. k + n : w[j] = j
  OBVIOUS
<1> HIDE DEF u, w
<1>4. /\ u \o s \in Seq(Nat) /\ Len(u \o s) = k + n
      /\ \A i \in 1 .. k + n : (u \o s)[i] = IF i =< k THEN u[i] ELSE s[i - k]
  BY <1>1, ConcatProperties
<1> HIDE DEF n
<1>5. \A j \in 1 .. k + n : (u \o s)[j] = j
  <2> SUFFICES ASSUME NEW j \in 1 .. k + n PROVE (u \o s)[j] = j
    OBVIOUS
  <2>1. CASE j =< k
    BY <1>1, <1>2, <1>4, <2>1
  <2>2. CASE j > k
    <3>1. j - k \in 1 .. n /\ k + (j - k) = j /\ j \in Int /\ ~(j =< k)
      BY <1>1, <2>2
    <3>2. (u \o s)[j] = s[j - k]
      BY <1>4, <3>1
    <3>3. s[j - k] = k + (j - k)
      BY <3>1 DEF n
    <3> QED BY <3>1, <3>2, <3>3
  <2>3. j =< k \/ j > k
    BY <1>1
  <2> QED BY <2>1, <2>2, <2>3
<1>6. u \o s = w
  BY <1>1, <1>3, <1>4, <1>5, SeqEqual
<1> QED BY <1>6 DEF u, w, n

\* Runs of consecutive numbers flatten to one run.
LEMMA FlattenConsecutive ==
  ASSUME NEW seqs \in Seq(Seq(Nat)), NEW start, Consecutive(seqs, start)
  PROVE  FlattenSeq(seqs) = [i \in 1 .. start[Len(seqs) + 1] - 1 |-> i]
<1> DEFINE m == Len(seqs)
           UpTo(k) == [j \in 1 .. k |-> j]
           g == [i \in 1 .. m |-> UpTo(start[i + 1] - 1)]
           Step(h, i) == IF i = 1 THEN seqs[i] ELSE h[i - 1] \o seqs[i]
           Rec(h) == h = [i \in 1 .. m |-> Step(h, i)]
           flatten == CHOOSE h : Rec(h)
<1>1. m \in Nat
  OBVIOUS
<1>2. CASE m = 0
  <2>1. seqs = <<>> /\ FlattenSeq(seqs) = seqs
    BY <1>2 DEF FlattenSeq
  <2>2. [i \in 1 .. start[m + 1] - 1 |-> i] = <<>>
    BY <1>2 DEF Consecutive
  <2> QED BY <2>1, <2>2
<1>3. CASE m # 0
  <2>1. FlattenSeq(seqs) = flatten[m]
    BY <1>3 DEF FlattenSeq
  <2>2. /\ start \in [1 .. m + 1 -> Nat] /\ start[1] = 1
        /\ \A i \in 1 .. m :
             /\ seqs[i] \in Seq(Nat)
             /\ start[i + 1] = start[i] + Len(seqs[i])
             /\ \A j \in 1 .. Len(seqs[i]) : seqs[i][j] = start[i] + j - 1
    BY DEF Consecutive
  <2> HIDE DEF m
  <2>3. \A i \in 1 .. m + 1 : start[i] \in Nat /\ start[i] >= 1
    <3> DEFINE T == {i \in Nat : i + 1 =< m + 1 => start[i + 1] \in Nat /\ start[i + 1] >= 1}
    <3>1. 0 \in T
      BY <1>1, <2>2
    <3>2. ASSUME NEW i \in Nat, i \in T PROVE i + 1 \in T
      <4> SUFFICES ASSUME i + 2 =< m + 1 PROVE start[i + 2] \in Nat /\ start[i + 2] >= 1
        OBVIOUS
      <4>1. i + 1 \in 1 .. m /\ start[i + 1] \in Nat /\ start[i + 1] >= 1
        BY <1>1, <3>2
      <4>2. start[i + 1 + 1] = start[i + 1] + Len(seqs[i + 1]) /\ seqs[i + 1] \in Seq(Nat)
        BY <2>2, <4>1
      <4>3. Len(seqs[i + 1]) \in Nat
        BY <4>2
      <4> QED BY <4>1, <4>2, <4>3
    <3> HIDE DEF T
    <3>3. Nat \subseteq T
      BY <3>1, <3>2, NatSetInduction
    <3>4. \A i \in 1 .. m + 1 : i - 1 \in T
      BY <1>1, <3>3
    <3> QED BY <1>1, <3>4 DEF T
  <2>4. \A i \in 1 .. m : g[i] = UpTo(start[i + 1] - 1)
    OBVIOUS
  <2> HIDE DEF g
  <2>11. \A i \in 1 .. m :
            /\ start[i] - 1 \in Nat /\ seqs[i] \in Seq(Nat)
            /\ start[i + 1] - 1 = start[i] - 1 + Len(seqs[i])
            /\ \A j \in 1 .. Len(seqs[i]) : seqs[i][j] = start[i] - 1 + j
    <3> SUFFICES ASSUME NEW i \in 1 .. m
                 PROVE  /\ start[i] - 1 \in Nat /\ seqs[i] \in Seq(Nat)
                        /\ start[i + 1] - 1 = start[i] - 1 + Len(seqs[i])
                        /\ \A j \in 1 .. Len(seqs[i]) : seqs[i][j] = start[i] - 1 + j
      OBVIOUS
    <3> DEFINE t == seqs[i]  n == Len(t)  k == start[i]
    <3>1. i \in 1 .. m + 1
      BY <1>1
    <3>2. k \in Nat /\ k >= 1
      BY <2>3, <3>1
    <3>3. /\ t \in Seq(Nat) /\ start[i + 1] = k + n
          /\ \A j \in 1 .. n : t[j] = k + j - 1
      BY <2>2
    <3>4. n \in Nat
      BY <3>3
    <3> HIDE DEF t, n, k
    <3>5. k - 1 \in Nat /\ start[i + 1] - 1 = k - 1 + n
      BY <3>2, <3>3, <3>4
    <3>6. \A j \in 1 .. n : t[j] = k - 1 + j
      BY <3>2, <3>3, <3>4
    <3> QED BY <3>3, <3>5, <3>6 DEF t, n, k
  <2>5. UpTo(start[2] - 1) = seqs[1]
    <3> DEFINE t == seqs[1]  n == Len(t)
    <3>1. 1 \in 1 .. m /\ start[1] - 1 = 0
      BY <1>1, <1>3, <2>2
    <3>6. t \in Seq(Nat) /\ start[1 + 1] - 1 = 0 + n /\ \A j \in 1 .. n : t[j] = 0 + j
      BY <2>11, <3>1
    <3>3. n \in Nat
      BY <3>6
    <3>2. t \in Seq(Nat) /\ start[2] - 1 = n /\ \A j \in 1 .. n : t[j] = j
      BY <3>3, <3>6
    <3>4. UpTo(n) \in Seq(Nat) /\ Len(UpTo(n)) = n /\ \A j \in 1 .. n : UpTo(n)[j] = j
      BY <3>3
    <3> HIDE DEF UpTo, t
    <3>5. UpTo(n) = t
      BY <3>2, <3>4, SeqEqual
    <3> QED BY <3>2, <3>5 DEF t
  <2>6. \A i \in 2 .. m : UpTo(start[i + 1] - 1) = UpTo(start[i] - 1) \o seqs[i]
    <3> SUFFICES ASSUME NEW i \in 2 .. m
                 PROVE  UpTo(start[i + 1] - 1) = UpTo(start[i] - 1) \o seqs[i]
      OBVIOUS
    <3> DEFINE k == start[i] - 1  t == seqs[i]
    <3>1. i \in 1 .. m
      BY <1>1
    <3>2. k \in Nat /\ t \in Seq(Nat) /\ start[i + 1] - 1 = k + Len(t)
          /\ \A j \in 1 .. Len(t) : t[j] = k + j
      BY <2>11, <3>1
    <3> HIDE DEF k, t
    <3>3. [j \in 1 .. k |-> j] \o t = [j \in 1 .. k + Len(t) |-> j]
      BY <3>2, ConcatUpTo
    <3> QED BY <3>2, <3>3 DEF k, t
  <2> HIDE DEF UpTo
  <2>7. Rec(g)
    <3>1. \A i \in 1 .. m : g[i] = Step(g, i)
      <4> SUFFICES ASSUME NEW i \in 1 .. m PROVE g[i] = Step(g, i)
        OBVIOUS
      <4>1. CASE i = 1
        BY <2>4, <2>5, <4>1
      <4>2. CASE i # 1
        <5>1. i \in 2 .. m /\ i - 1 \in 1 .. m /\ i - 1 + 1 = i
          BY <1>1, <4>2
        <5> QED BY <2>4, <2>6, <4>2, <5>1
      <4> QED BY <4>1, <4>2
    <3>2. g = [i \in 1 .. m |-> g[i]]
      BY DEF g
    <3> HIDE DEF Step
    <3> QED BY <3>1, <3>2
  <2>8. Rec(flatten)
    <3> HIDE DEF Rec
    <3> QED BY <2>7
  <2> HIDE DEF flatten
  <2>9. \A i \in 1 .. m : flatten[i] = Step(flatten, i)
    <3> HIDE DEF Step
    <3> QED BY <2>8
  <2>12. \A i \in 2 .. m : flatten[i] = flatten[i - 1] \o seqs[i]
    <3> SUFFICES ASSUME NEW i \in 2 .. m PROVE flatten[i] = flatten[i - 1] \o seqs[i]
      OBVIOUS
    <3>1. i \in 1 .. m /\ i # 1
      BY <1>1
    <3>2. flatten[i] = Step(flatten, i)
      BY <2>9, <3>1
    <3> QED BY <3>1, <3>2, Zenon
  <2>10. \A i \in 1 .. m : flatten[i] = UpTo(start[i + 1] - 1)
    <3> DEFINE T == {n \in Nat : \A i \in 1 .. m : i = n + 1 => flatten[i] = UpTo(start[i + 1] - 1)}
    <3>1. 0 \in T
      BY <1>1, <2>5, <2>9
    <3>2. ASSUME NEW n \in Nat, n \in T PROVE n + 1 \in T
      <4> SUFFICES ASSUME NEW i \in 1 .. m, i = n + 2
                   PROVE  flatten[i] = UpTo(start[i + 1] - 1)
        OBVIOUS
      <4>1. i \in 2 .. m /\ i - 1 \in 1 .. m /\ i - 1 = n + 1 /\ i - 1 + 1 = i
        BY <1>1
      <4>2. flatten[i - 1] = UpTo(start[i] - 1)
        BY <3>2, <4>1
      <4>3. flatten[i] = flatten[i - 1] \o seqs[i]
        BY <2>12, <4>1
      <4>4. UpTo(start[i + 1] - 1) = UpTo(start[i] - 1) \o seqs[i]
        BY <2>6, <4>1
      <4> QED BY <4>2, <4>3, <4>4
    <3> HIDE DEF T
    <3>3. Nat \subseteq T
      BY <3>1, <3>2, NatSetInduction
    <3>4. \A i \in 1 .. m : i - 1 \in T /\ i - 1 + 1 = i
      BY <1>1, <3>3
    <3> QED BY <1>1, <3>4 DEF T
  <2> QED BY <1>1, <1>3, <2>1, <2>10 DEF UpTo, m
<1> QED BY <1>2, <1>3

(***************************************************************************)
(* The clauses that can be built from filters of Fs.                       *)
(***************************************************************************)
ParamSet(Fs) ==
  (UNION {ToSet(f.value.items) : f \in Fs}) \cup {ParameterOf(f) : f \in Fs}
ConditionSet(Fs) == {Condition(f, slots) : f \in Fs, slots \in Seq(Nat)}
ClauseSet(Fs) == [conditions : Seq(ConditionSet(Fs)), params : Seq(ParamSet(Fs)), next : Nat]

NullTests == {"IS NULL", "IS NOT NULL"}
Lists == {"IN", "NOT IN"}

\* The values a filter binds are parameters.
LEMMA BoundType ==
  ASSUME NEW Fs, NEW f \in Fs, IsValue(f.value)
  PROVE  Bound(f) \in Seq(ParamSet(Fs)) /\ f.value.items \in Seq(ParamSet(Fs))
<1>1. ToSet(f.value.items) \subseteq ParamSet(Fs) /\ ParameterOf(f) \in ParamSet(Fs)
  BY DEF ParamSet
<1>2. f.value.items \in Seq(ParamSet(Fs))
  BY <1>1, SeqMonotonic DEF IsValue
<1>3. <<>> \in Seq(ParamSet(Fs)) /\ <<ParameterOf(f)>> \in Seq(ParamSet(Fs))
  BY <1>1
<1> QED BY <1>2, <1>3 DEF Bound

\* The clause with the condition of f added.
Added(c, f, b) ==
  [conditions |-> Append(c.conditions, Condition(f, [j \in 1 .. Len(b) |-> c.next + j - 1])),
   params |-> c.params \o b,
   next |-> c.next + Len(b)]

(***************************************************************************)
(* A filter that is not dropped adds one condition, as many parameters as  *)
(* it has values, and the placeholders of these parameters.                *)
(***************************************************************************)
LEMMA ExtendAdds ==
  ASSUME NEW Fs, NEW c \in ClauseSet(Fs), NEW f \in Fs, IsValue(f.value),
         ~Dropped(f), ~UndefinedNil(f), HasItsValue(f)
  PROVE  Extend(c, f) = Added(c, f, Bound(f))
<1>1. c.params \in Seq(ParamSet(Fs)) /\ c.next \in Nat
  BY DEF ClauseSet
<1>2. CASE f.op \in Lists
  <2>1. Bound(f) = f.value.items /\ Extend(c, f) = ExpandIn(c, f)
    BY <1>2 DEF Bound, Extend, Lists
  <2>2. DOMAIN f.value.items = 1 .. Len(f.value.items)
    BY DEF IsValue
  <2>3. ExpandIn(c, f) = Added(c, f, f.value.items)
    BY <2>2 DEF ExpandIn, Added
  <2> QED BY <2>1, <2>3
<1>3. CASE f.op \in NullTests
  <2>1. ParameterOf(f) = Nil /\ SlotsOf(c, f) = <<>> /\ f.op \notin Lists
    BY <1>3 DEF ParameterOf, SlotsOf, NullTests, Likes, Lists
  <2>2. Bound(f) = <<>> /\ Extend(c, f) = ProcessFilterWithIndex(c, f)
    BY <2>1 DEF Bound, Extend, Lists
  <2>3. c.params \o <<>> = c.params /\ c.next + 0 = c.next
    BY <1>1
  <2>4. [j \in 1 .. 0 |-> c.next + j - 1] = <<>> /\ Len(<<>>) = 0
    OBVIOUS
  <2> QED BY <2>1, <2>2, <2>3, <2>4 DEF ProcessFilterWithIndex, Added
<1>4. CASE f.op \notin Lists \cup NullTests
  <2>1. f.value # Nil
    BY <1>4 DEF UndefinedNil, HasItsValue, NullTests, RequiresValue, Comparisons, Likes
  <2>2. Wrapped(f.value) # Nil
    BY <2>1 DEF Wrapped, IsText, Nil
  <2>3. ParameterOf(f) # Nil /\ SlotsOf(c, f) = <<c.next>>
    BY <1>4, <2>1, <2>2 DEF ParameterOf, SlotsOf, NullTests
  <2> DEFINE p == ParameterOf(f)
  <2>4. Bound(f) = <<p>> /\ Extend(c, f) = ProcessFilterWithIndex(c, f)
    BY <1>4, <2>3 DEF Bound, Extend, Lists
  <2>5. c.params \o <<p>> = Append(c.params, p)
    BY <1>1, AppendIsConcat DEF ParamSet
  <2>6. Len(<<p>>) = 1 /\ [j \in 1 .. 1 |-> c.next + j - 1] = <<c.next>>
    BY <1>1
  <2>7. ProcessFilterWithIndex(c, f) =
          [conditions |-> Append(c.conditions, Condition(f, <<c.next>>)),
           params |-> Append(c.params, p), next |-> c.next + 1]
    BY <2>3 DEF ProcessFilterWithIndex
  <2> HIDE DEF p
  <2> QED BY <2>4, <2>5, <2>6, <2>7 DEF Added
<1> QED BY <1>2, <1>3, <1>4

\* A filter extends a clause to a clause.
LEMMA ExtendType ==
  ASSUME NEW Fs, NEW c \in ClauseSet(Fs), NEW f \in Fs, IsValue(f.value)
  PROVE  Extend(c, f) \in ClauseSet(Fs)
<1> DEFINE C == ConditionSet(Fs)  P == ParamSet(Fs)
<1>1. c.conditions \in Seq(C) /\ c.params \in Seq(P) /\ c.next \in Nat
  BY DEF ClauseSet
<1>2. \A slots \in Seq(Nat) : Append(c.conditions, Condition(f, slots)) \in Seq(C)
  <2>1. \A slots \in Seq(Nat) : Condition(f, slots) \in C
    BY DEF ConditionSet
  <2> QED BY <1>1, <2>1, AppendProperties
<1>3. f.value.items \in Seq(P) /\ ParameterOf(f) \in P
  BY BoundType DEF ParamSet
<1>4. c.params \o f.value.items \in Seq(P) /\ Append(c.params, ParameterOf(f)) \in Seq(P)
  BY <1>1, <1>3, ConcatProperties, AppendProperties
<1>5. ASSUME NEW cond \in Seq(C), NEW ps \in Seq(P), NEW n \in Nat
      PROVE  [conditions |-> cond, params |-> ps, next |-> n] \in ClauseSet(Fs)
  BY DEF ClauseSet
<1> HIDE DEF C, P
<1>6. ExpandIn(c, f) \in ClauseSet(Fs)
  <2> DEFINE sl == [i \in DOMAIN f.value.items |-> c.next + i - 1]  n == Len(f.value.items)
  <2>1. n \in Nat /\ DOMAIN f.value.items = 1 .. n
    BY <1>3
  <2>2. sl \in Seq(Nat)
    BY <1>1, <2>1
  <2>3. c.next + n \in Nat
    BY <1>1, <2>1
  <2>4. ExpandIn(c, f) = [conditions |-> Append(c.conditions, Condition(f, sl)),
                          params |-> c.params \o f.value.items, next |-> c.next + n]
    BY DEF ExpandIn
  <2> HIDE DEF sl, n
  <2> QED BY <1>2, <1>4, <1>5, <2>2, <2>3, <2>4
<1>7. ProcessFilterWithIndex(c, f) \in ClauseSet(Fs)
  <2>1. SlotsOf(c, f) \in Seq(Nat)
    <3>1. <<>> \in Seq(Nat) /\ <<c.next>> \in Seq(Nat)
      BY <1>1
    <3> QED BY <3>1 DEF SlotsOf
  <2>2. c.next + 1 \in Nat
    BY <1>1
  <2> QED BY <1>1, <1>2, <1>4, <1>5, <2>1, <2>2 DEF ProcessFilterWithIndex
<1> QED BY <1>6, <1>7 DEF Extend

(***************************************************************************)
(* The loop of buildWhereClause, filter by filter.                         *)
(***************************************************************************)
BuildsInRounds(Fs, s, g) ==
  /\ g \in [0 .. Len(s) -> ClauseSet(Fs)] /\ g[0] = EmptyClause
  /\ \A n \in 1 .. Len(s) : g[n] = Extend(g[n - 1], s[n])
  /\ BuildWhereClause(s) = g[Len(s)]

\* The loop of BuildWhereClause runs.
LEMMA BuildRounds ==
  ASSUME NEW Fs, \A f \in Fs : IsValue(f.value), NEW s \in Seq(Fs)
  PROVE  \E g : BuildsInRounds(Fs, s, g)
<1> DEFINE m == Len(s)
           Round(r, n) == Extend(r, s[n])
           Step(g, n) == IF n = 0 THEN EmptyClause ELSE Round(g[n - 1], n)
           Rec(g) == g = [n \in 0 .. m |-> Step(g, n)]
           V == ClauseSet(Fs)
           F == [p \in V \X Nat |-> IF p[2] \in 1 .. m THEN Round(p[1], p[2]) ELSE p[1]]
           clause == CHOOSE g : Rec(g)
           a == EmptyClause
<1>1. \A r \in V, n \in 1 .. m : Round(r, n) \in V
  BY ExtendType
<1>2. m \in Nat /\ a \in V
  BY DEF ClauseSet, EmptyClause
<1>3. BuildWhereClause(s) = clause[m]
  BY DEF BuildWhereClause
<1>4. \A r, n : Round(r, n) = Extend(r, s[n])
  OBVIOUS
<1> HIDE DEF Round, V
<1>5. F \in [V \X Nat -> V]
  BY <1>1
<1>6. \A r \in V, n \in 1 .. m : F[<<r, n>>] = Round(r, n)
  OBVIOUS
<1> HIDE DEF F, m, V, a, clause
<1>7. PICK g : Iterates(V, a, F, m, g)
  BY <1>5, <1>2, RecursionExists
<1>8. g \in [0 .. m -> V] /\ g[0] = a /\ \A n \in 1 .. m : g[n] = F[<<g[n - 1], n>>]
  BY <1>7 DEF Iterates
<1>9. \A n \in 1 .. m : g[n] = Round(g[n - 1], n)
  <2> SUFFICES ASSUME NEW n \in 1 .. m PROVE g[n] = Round(g[n - 1], n)
    OBVIOUS
  <2>1. g[n - 1] \in V
    BY <1>2, <1>8
  <2> QED BY <1>6, <1>8, <2>1
<1>10. Rec(g)
  <2>1. \A n \in 0 .. m : g[n] = Step(g, n)
    BY <1>2, <1>8, <1>9 DEF a
  <2> HIDE DEF Step
  <2> QED BY <1>8, <2>1
<1>11. Rec(clause)
  <2> HIDE DEF Rec
  <2> QED BY <1>10 DEF clause
<1>12. clause[0] = a /\ \A n \in 1 .. m : clause[n] = Round(clause[n - 1], n)
  <2>1. \A n \in 0 .. m : clause[n] = Step(clause, n)
    <3> HIDE DEF Step
    <3> QED BY <1>11
  <2> QED BY <1>2, <2>1 DEF a
<1>13. \A n \in 0 .. m : clause[n] = g[n]
  <2> DEFINE T == {n \in Nat : n =< m => clause[n] = g[n]}
  <2>1. 0 \in T
    BY <1>8, <1>12
  <2>2. ASSUME NEW n \in Nat, n \in T PROVE n + 1 \in T
    <3> SUFFICES ASSUME n + 1 =< m PROVE clause[n + 1] = g[n + 1]
      OBVIOUS
    <3>1. n + 1 \in 1 .. m /\ n + 1 - 1 = n
      BY <1>2
    <3>2. clause[n] = g[n]
      BY <1>2, <2>2
    <3>3. g[n + 1] = Round(g[n], n + 1)
      BY <1>9, <3>1
    <3>4. clause[n + 1] = Round(clause[n], n + 1)
      BY <1>12, <3>1
    <3> QED BY <3>2, <3>3, <3>4
  <2> HIDE DEF T
  <2>3. Nat \subseteq T
    BY <2>1, <2>2, NatSetInduction
  <2> QED BY <1>2, <2>3 DEF T
<1>14. BuildWhereClause(s) = g[m]
  BY <1>2, <1>13, <1>3
<1> QED BY <1>8, <1>9, <1>14, <1>4 DEF m, a, V, BuildsInRounds

(***************************************************************************)
(* A clause lines up with the filters it stands for: condition i is of     *)
(* filter i, has the placeholders start[i], start[i] + 1, ... up to        *)
(* start[i + 1] - 1, and the parameters at these places are the values     *)
(* bound by the filter.                                                    *)
(***************************************************************************)
LinedUp(c, kept, start) ==
  /\ Len(c.conditions) = Len(kept)
  /\ start \in [1 .. Len(kept) + 1 -> Nat] /\ start[1] = 1
  /\ start[Len(kept) + 1] = c.next /\ c.next = Len(c.params) + 1
  /\ \A i \in 1 .. Len(kept) :
       /\ c.conditions[i] =
            Condition(kept[i], [j \in 1 .. Len(Bound(kept[i])) |-> start[i] + j - 1])
       /\ start[i + 1] = start[i] + Len(Bound(kept[i]))
       /\ \A j \in 1 .. Len(Bound(kept[i])) :
            /\ start[i] + j - 1 \in 1 .. Len(c.params)
            /\ c.params[start[i] + j - 1] = Bound(kept[i])[j]

\* Before the loop nothing is out of line.
LEMMA EmptyLinesUp == \E start : LinedUp(EmptyClause, <<>>, start)
<1> DEFINE start == [i \in 1 .. 1 |-> 1]
<1>1. LinedUp(EmptyClause, <<>>, start)
  BY DEF LinedUp, EmptyClause
<1> QED BY <1>1

\* One more condition stays in line.
LEMMA AddedLinesUp ==
  ASSUME NEW Fs, NEW c \in ClauseSet(Fs), NEW kept \in Seq(Fs), NEW f \in Fs,
         IsValue(f.value), NEW start, LinedUp(c, kept, start)
  PROVE  \E after : LinedUp(Added(c, f, Bound(f)), Append(kept, f), after)
<1> DEFINE m == Len(kept)
           n == Len(c.params)
           b == Bound(f)
           d == Added(c, f, b)
           k == Append(kept, f)
           slots == [j \in 1 .. Len(b) |-> c.next + j - 1]
           after == [i \in 1 .. m + 2 |-> IF i = m + 2 THEN n + 1 + Len(b) ELSE start[i]]
           LineUp(cond, params, x, g, st) ==
             /\ cond[x] = Condition(g, [j \in 1 .. Len(Bound(g)) |-> st[x] + j - 1])
             /\ st[x + 1] = st[x] + Len(Bound(g))
             /\ \A j \in 1 .. Len(Bound(g)) :
                  st[x] + j - 1 \in 1 .. Len(params) /\ params[st[x] + j - 1] = Bound(g)[j]
<1>1. /\ c.conditions \in Seq(ConditionSet(Fs)) /\ c.params \in Seq(ParamSet(Fs))
      /\ b \in Seq(ParamSet(Fs))
  BY BoundType DEF ClauseSet
<1>2. m \in Nat /\ n \in Nat /\ Len(b) \in Nat
  BY <1>1
<1>3. /\ Len(c.conditions) = m
      /\ start \in [1 .. m + 1 -> Nat] /\ start[1] = 1
      /\ start[m + 1] = n + 1 /\ c.next = n + 1
      /\ \A i \in 1 .. m : LineUp(c.conditions, c.params, i, kept[i], start)
  BY DEF LinedUp
<1>4. k \in Seq(Fs) /\ Len(k) = m + 1 /\ k[m + 1] = f /\ \A i \in 1 .. m : k[i] = kept[i]
  BY AppendProperties
<1>5. Condition(f, slots) \in ConditionSet(Fs)
  <2>1. slots \in Seq(Nat)
    BY <1>2, <1>3
  <2> HIDE DEF slots
  <2> QED BY <2>1 DEF ConditionSet
<1>6. /\ d.conditions = Append(c.conditions, Condition(f, slots))
      /\ d.params = c.params \o b /\ d.next = n + 1 + Len(b)
  BY <1>3 DEF Added
<1>7. /\ Len(d.conditions) = m + 1 /\ d.conditions[m + 1] = Condition(f, slots)
      /\ \A i \in 1 .. m : d.conditions[i] = c.conditions[i]
  <2> HIDE DEF d, slots, m
  <2> QED BY <1>1, <1>3, <1>5, <1>6, AppendProperties
<1>8. /\ Len(d.params) = n + Len(b)
      /\ \A i \in 1 .. n + Len(b) : d.params[i] = IF i =< n THEN c.params[i] ELSE b[i - n]
  <2> HIDE DEF d
  <2> QED BY <1>1, <1>6, ConcatProperties
<1>9. /\ after \in [1 .. m + 2 -> Nat] /\ after[m + 2] = n + 1 + Len(b)
      /\ \A i \in 1 .. m + 1 : after[i] = start[i]
  BY <1>2, <1>3
<1> HIDE DEF m, n, b, d, k, slots, after
<1>10. ASSUME NEW i \in 1 .. m PROVE LineUp(d.conditions, d.params, i, kept[i], after)
  <2>1. LineUp(c.conditions, c.params, i, kept[i], start)
    BY <1>3
  <2>2. after[i] = start[i] /\ after[i + 1] = start[i + 1] /\ d.conditions[i] = c.conditions[i]
    <3>1. i \in 1 .. m + 1 /\ i + 1 \in 1 .. m + 1
      BY <1>2
    <3> QED BY <1>7, <1>9, <3>1
  <2>3. \A j \in 1 .. n : d.params[j] = c.params[j] /\ j \in 1 .. n + Len(b)
    BY <1>2, <1>8
  <2> DEFINE B == Bound(kept[i])
  <2> HIDE DEF B
  <2>4. ASSUME NEW j \in 1 .. Len(B)
        PROVE  start[i] + j - 1 \in 1 .. Len(d.params) /\ d.params[start[i] + j - 1] = B[j]
    <3>1. start[i] + j - 1 \in 1 .. n /\ c.params[start[i] + j - 1] = B[j]
      BY <2>1 DEF B, n
    <3> QED BY <1>8, <2>3, <3>1
  <2> QED BY <2>1, <2>2, <2>4 DEF B
<1>11. LineUp(d.conditions, d.params, m + 1, f, after)
  <2>1. after[m + 1] = n + 1 /\ after[m + 1 + 1] = n + 1 + Len(b)
    BY <1>2, <1>3, <1>9
  <2>2. slots = [j \in 1 .. Len(b) |-> after[m + 1] + j - 1]
    BY <1>3, <2>1 DEF slots
  <2>3. ASSUME NEW j \in 1 .. Len(b)
        PROVE  after[m + 1] + j - 1 \in 1 .. Len(d.params) /\ d.params[after[m + 1] + j - 1] = b[j]
    <3> DEFINE q == after[m + 1] + j - 1
    <3>1. q \in 1 .. n + Len(b) /\ ~(q =< n) /\ q - n = j
      BY <1>2, <2>1
    <3> HIDE DEF q
    <3>2. d.params[q] = b[q - n]
      BY <1>8, <3>1
    <3>3. d.params[q] = b[j] /\ q \in 1 .. Len(d.params)
      BY <1>8, <3>1, <3>2
    <3> QED BY <3>3 DEF q
  <2> QED BY <1>7, <2>1, <2>2, <2>3 DEF b
<1> HIDE DEF LineUp
<1>12. \A i \in 1 .. m + 1 : LineUp(d.conditions, d.params, i, k[i], after)
  BY <1>2, <1>4, <1>10, <1>11
<1>13. after[1] = 1 /\ after[m + 1 + 1] = d.next /\ d.next = Len(d.params) + 1 /\ m + 1 + 1 = m + 2
  BY <1>2, <1>3, <1>6, <1>8, <1>9
<1>14. LinedUp(d, k, after)
  BY <1>4, <1>7, <1>9, <1>12, <1>13 DEF LinedUp, LineUp
<1> QED BY <1>14 DEF d, k, b

\* The filters with a condition of their own.
Conditional(filters) == Keeping(filters, {g \in ToSet(filters) : ~Dropped(g)})

\* BuildWhereClause keeps conditions, placeholders and parameters in line.
LEMMA ClauseLinesUp ==
  ASSUME NEW Fs, NEW s \in Seq(Fs),
         \A f \in Fs : IsValue(f.value) /\ ~UndefinedNil(f) /\ HasItsValue(f)
  PROVE  /\ BuildWhereClause(s) \in ClauseSet(Fs)
         /\ \E start : LinedUp(BuildWhereClause(s), Conditional(s), start)
<1> DEFINE m == Len(s)
           S == {g \in ToSet(s) : ~Dropped(g)}
<1>1. m \in Nat /\ DOMAIN s = 1 .. m /\ \A i \in 1 .. m : s[i] \in Fs /\ s[i] \in ToSet(s)
  BY DEF ToSet
<1>2. PICK g : KeepsInRounds(Fs, S, s, g)
  BY KeepingRounds
<1>3. PICK h : BuildsInRounds(Fs, s, h)
  BY BuildRounds
<1>4. /\ g \in [0 .. m -> Seq(Fs)] /\ g[0] = <<>>
      /\ \A n \in 1 .. m : g[n] = IF s[n] \in S THEN Append(g[n - 1], s[n]) ELSE g[n - 1]
      /\ Conditional(s) = g[m]
  BY <1>2 DEF KeepsInRounds, Conditional
<1>5. /\ h \in [0 .. m -> ClauseSet(Fs)] /\ h[0] = EmptyClause
      /\ \A n \in 1 .. m : h[n] = Extend(h[n - 1], s[n])
      /\ BuildWhereClause(s) = h[m]
  BY <1>3 DEF BuildsInRounds
<1>6. \A i \in 1 .. m : s[i] \in S <=> ~Dropped(s[i])
  BY <1>1
<1> HIDE DEF m, S
<1> DEFINE Lined(n) == \E start : LinedUp(h[n], g[n], start)
           T == {n \in Nat : n =< m => Lined(n)}
<1>7. 0 \in T
  BY <1>4, <1>5, EmptyLinesUp
<1>8. ASSUME NEW n \in Nat, n \in T PROVE n + 1 \in T
  <2> SUFFICES ASSUME n + 1 =< m PROVE Lined(n + 1)
    OBVIOUS
  <2> DEFINE e == s[n + 1]  c == h[n]  kept == g[n]
  <2>1. n + 1 \in 1 .. m /\ n \in 0 .. m /\ n + 1 - 1 = n /\ n =< m
    BY <1>1
  <2>2. /\ e \in Fs /\ c \in ClauseSet(Fs) /\ kept \in Seq(Fs)
        /\ IsValue(e.value) /\ ~UndefinedNil(e) /\ HasItsValue(e)
    BY <1>1, <1>4, <1>5, <2>1
  <2>3. PICK start : LinedUp(c, kept, start)
    BY <1>8, <2>1
  <2>4. h[n + 1] = Extend(c, e)
    BY <1>5, <2>1
  <2>5. g[n + 1] = IF e \in S THEN Append(kept, e) ELSE kept
    BY <1>4, <2>1
  <2>6. e \in S <=> ~Dropped(e)
    BY <1>6, <2>1
  <2> HIDE DEF e, c, kept
  <2>7. CASE Dropped(e)
    <3>1. h[n + 1] = c /\ g[n + 1] = kept
      BY <2>4, <2>5, <2>6, <2>7 DEF Extend
    <3> QED BY <2>3, <3>1
  <2>8. CASE ~Dropped(e)
    <3>1. h[n + 1] = Added(c, e, Bound(e)) /\ g[n + 1] = Append(kept, e)
      BY <2>2, <2>4, <2>5, <2>6, <2>8, ExtendAdds
    <3>2. \E after : LinedUp(Added(c, e, Bound(e)), Append(kept, e), after)
      BY <2>2, <2>3, AddedLinesUp
    <3> QED BY <3>1, <3>2
  <2> QED BY <2>7, <2>8
<1> HIDE DEF T
<1>9. m \in T
  BY <1>1, <1>7, <1>8, NatSetInduction
<1> QED BY <1>1, <1>4, <1>5, <1>9 DEF T

\* The filters that are not dropped are among the filters.
LEMMA ConditionalFacts ==
  ASSUME NEW Fs, NEW s \in Seq(Fs)
  PROVE  /\ Conditional(s) \in Seq(Fs)
         /\ ToSet(Conditional(s)) = {g \in ToSet(s) : ~Dropped(g)}
BY KeepingFacts DEF Conditional

(***************************************************************************)
(* What ParamsLineUp says of a where clause.                               *)
(***************************************************************************)
Lines(where, kept) ==
  LET slots == [i \in DOMAIN where.conditions |-> where.conditions[i].slots]
  IN /\ FlattenSeq(slots) = [i \in 1 .. Len(where.params) |-> i]
     /\ Len(slots) = Len(kept)
     /\ \A i \in DOMAIN kept :
          [j \in DOMAIN slots[i] |-> where.params[slots[i][j]]] = Bound(kept[i])

\* A clause in line is what ParamsLineUp asks for.
LEMMA LinedUpLines ==
  ASSUME NEW Fs, NEW c \in ClauseSet(Fs), NEW kept \in Seq(Fs),
         \A f \in Fs : IsValue(f.value),
         NEW start, LinedUp(c, kept, start)
  PROVE  Lines(c, kept)
<1> DEFINE m == Len(kept)
           slots == [i \in DOMAIN c.conditions |-> c.conditions[i].slots]
<1>1. /\ Len(c.conditions) = m
      /\ start \in [1 .. m + 1 -> Nat] /\ start[1] = 1
      /\ start[m + 1] = Len(c.params) + 1
      /\ \A i \in 1 .. m :
           /\ c.conditions[i] =
                Condition(kept[i], [j \in 1 .. Len(Bound(kept[i])) |-> start[i] + j - 1])
           /\ start[i + 1] = start[i] + Len(Bound(kept[i]))
           /\ \A j \in 1 .. Len(Bound(kept[i])) :
                /\ start[i] + j - 1 \in 1 .. Len(c.params)
                /\ c.params[start[i] + j - 1] = Bound(kept[i])[j]
  BY DEF LinedUp
<1>2. m \in Nat /\ DOMAIN kept = 1 .. m /\ \A i \in 1 .. m : kept[i] \in Fs
  OBVIOUS
<1>3. DOMAIN c.conditions = 1 .. m /\ Len(c.params) \in Nat
  BY <1>1 DEF ClauseSet
<1>4. \A i \in 1 .. m : Bound(kept[i]) \in Seq(ParamSet(Fs))
  BY <1>2, BoundType
<1>5. \A i \in 1 .. m : /\ slots[i] = [j \in 1 .. Len(Bound(kept[i])) |-> start[i] + j - 1]
                        /\ Len(Bound(kept[i])) \in Nat /\ start[i] \in Nat /\ start[i + 1] \in Nat
  <2> SUFFICES ASSUME NEW i \in 1 .. m
               PROVE  /\ slots[i] = [j \in 1 .. Len(Bound(kept[i])) |-> start[i] + j - 1]
                      /\ Len(Bound(kept[i])) \in Nat /\ start[i] \in Nat /\ start[i + 1] \in Nat
    OBVIOUS
  <2>1. slots[i] = c.conditions[i].slots
    BY <1>3
  <2>2. c.conditions[i].slots = [j \in 1 .. Len(Bound(kept[i])) |-> start[i] + j - 1]
    <3> DEFINE sl == [j \in 1 .. Len(Bound(kept[i])) |-> start[i] + j - 1]
    <3>1. c.conditions[i] = Condition(kept[i], sl)
      BY <1>1
    <3> HIDE DEF sl
    <3>2. c.conditions[i].slots = sl
      BY <3>1 DEF Condition
    <3> QED BY <3>2 DEF sl
  <2>3. Len(Bound(kept[i])) \in Nat
    BY <1>4
  <2>4. i \in 1 .. m + 1 /\ i + 1 \in 1 .. m + 1
    BY <1>2
  <2>5. start[i] \in Nat /\ start[i + 1] \in Nat
    <3> HIDE DEF m
    <3> QED BY <1>1, <2>4
  <2> HIDE DEF slots, m
  <2> QED BY <2>1, <2>2, <2>3, <2>5
<1>6. DOMAIN slots = 1 .. m /\ Len(slots) = m
  BY <1>2, <1>3
<1> HIDE DEF m, slots
<1>7. \A i \in 1 .. m : /\ slots[i] \in Seq(Nat) /\ Len(slots[i]) = Len(Bound(kept[i]))
                        /\ DOMAIN slots[i] = 1 .. Len(Bound(kept[i]))
                        /\ \A j \in 1 .. Len(Bound(kept[i])) : slots[i][j] = start[i] + j - 1
  <2> SUFFICES ASSUME NEW i \in 1 .. m
               PROVE  /\ slots[i] \in Seq(Nat) /\ Len(slots[i]) = Len(Bound(kept[i]))
                      /\ DOMAIN slots[i] = 1 .. Len(Bound(kept[i]))
                      /\ \A j \in 1 .. Len(Bound(kept[i])) : slots[i][j] = start[i] + j - 1
    OBVIOUS
  <2> DEFINE n == Len(Bound(kept[i]))  a == start[i]
  <2>1. n \in Nat /\ a \in Nat /\ slots[i] = [j \in 1 .. n |-> a + j - 1]
    BY <1>5
  <2> HIDE DEF n, a
  <2>2. \A j \in 1 .. n : a + j - 1 \in Nat
    BY <2>1
  <2> QED BY <2>1, <2>2 DEF n, a
<1>8. slots \in Seq(Seq(Nat))
  <2>1. slots = [i \in 1 .. m |-> slots[i]]
    BY <1>6 DEF slots
  <2>2. \A i \in 1 .. m : slots[i] \in Seq(Nat)
    BY <1>7
  <2> DEFINE V == Seq(Nat)
  <2>3. m \in Nat /\ slots \in [1 .. m -> V]
    BY <1>2, <2>1, <2>2
  <2> HIDE DEF V
  <2>4. slots \in Seq(V)
    BY <2>3, SeqDef
  <2> QED BY <2>4 DEF V
<1>9. Consecutive(slots, start)
  BY <1>1, <1>6, <1>7 DEF Consecutive
<1>10. FlattenSeq(slots) = [i \in 1 .. Len(c.params) |-> i]
  <2>1. start[Len(slots) + 1] - 1 = Len(c.params)
    BY <1>1, <1>3, <1>6
  <2> QED BY <1>8, <1>9, <2>1, FlattenConsecutive
<1>11. \A i \in DOMAIN kept :
         [j \in DOMAIN slots[i] |-> c.params[slots[i][j]]] = Bound(kept[i])
  <2> SUFFICES ASSUME NEW i \in 1 .. m
               PROVE  [j \in DOMAIN slots[i] |-> c.params[slots[i][j]]] = Bound(kept[i])
    BY <1>2
  <2> DEFINE b == Bound(kept[i])  n == Len(b)
  <2>1. \A j \in 1 .. n : c.params[slots[i][j]] = b[j]
    BY <1>1, <1>7
  <2>2. DOMAIN slots[i] = 1 .. n /\ b = [j \in 1 .. n |-> b[j]]
    BY <1>4, <1>7
  <2> HIDE DEF b, n
  <2> QED BY <2>1, <2>2 DEF b
<1> QED BY <1>6, <1>10, <1>11 DEF Lines, slots, m

------------------------------------------------------------------------------
(* Conditions and filters.                                                 *)

\* A number is not nil.
LEMMA NumberIsSome == ASSUME NEW v, IsNumber(v) PROVE v # Nil
BY DEF IsNumber, Nil

\* Wrapping a pattern keeps its text.
LEMMA WrappedKeeps ==
  ASSUME NEW v, IsValue(v), IsText(v), v.wild \in {{}, {"head", "tail"}}
  PROVE  /\ Wrapped(v).wild = {"head", "tail"} /\ Wrapped(v).text = v.text
         /\ Wrapped(v) # Nil
<1>1. CASE v.wild = {}
  BY <1>1 DEF Wrapped, IsValue, IsText, Nil
<1>2. CASE v.wild = {"head", "tail"}
  BY <1>2 DEF Wrapped, IsText, Nil
<1> QED BY <1>1, <1>2

(***************************************************************************)
(* A row passes a condition, under the parameters it was built with, just  *)
(* when its value passes the filter of the condition in memory.            *)
(***************************************************************************)
LEMMA AcceptsAsApplied ==
  ASSUME NEW f, NEW v, NEW params, NEW row, NEW slots,
         v = row[Resolve[f.field]], IsValue(f.value), Comparable(f, v),
         [j \in DOMAIN slots |-> params[slots[j]]] = Bound(f)
  PROVE  Accepts(Condition(f, slots), params, row) <=> ApplyOperator(f.op, v, f.value)
<1> DEFINE cond == Condition(f, slots)
           args == Bound(f)
           w == f.value
<1>1. cond.field = f.field /\ cond.op = SQLOperator(f.op) /\ cond.slots = slots
  BY DEF Condition
<1> HIDE DEF cond
<1>2. Accepts(cond, params, row) <=>
        CASE cond.op = "="           -> v = args[1]
          [] cond.op = "!="          -> v # args[1]
          [] cond.op \in Comparisons -> CompareNumeric(cond.op, v, args[1])
          [] cond.op = "ILIKE"       -> ILike(v.text, args[1])
          [] cond.op = "NOT ILIKE"   -> ~ILike(v.text, args[1])
          [] cond.op = "IN"          -> v \in ToSet(args)
          [] cond.op = "NOT IN"      -> v \notin ToSet(args)
          [] cond.op = "IS NULL"     -> FALSE
          [] cond.op = "IS NOT NULL" -> TRUE
  BY <1>1 DEF Accepts
<1> HIDE DEF args
<1>3. CASE f.op \in Comparisons
  <2>1. cond.op = f.op
    BY <1>1, <1>3 DEF SQLOperator, Comparisons
  <2>2. ApplyOperator(f.op, v, w) <=> CompareNumeric(f.op, v, w)
    BY <1>3 DEF ApplyOperator, Comparisons
  <2>3. IsNumber(w)
    BY <1>3 DEF Comparable, Comparisons, Likes
  <2>4. ParameterOf(f) = w
    BY <1>3 DEF ParameterOf, Comparisons, Likes
  <2>5. args[1] = w
    BY <1>3, <2>3, <2>4, NumberIsSome DEF args, Bound, Comparisons
  <2>6. Accepts(cond, params, row) <=> CompareNumeric(f.op, v, w)
    BY <1>2, <1>3, <2>1, <2>5 DEF Comparisons
  <2> QED BY <2>2, <2>6 DEF cond
<1>4. CASE f.op \in Likes
  <2>1. /\ IsText(v) /\ IsText(w) /\ w.wild \in {{}, {"head", "tail"}}
        /\ w.text = TrimBlanks(w.text)
    BY <1>4 DEF Comparable, Likes, Comparisons
  <2>2. ParameterOf(f) = Wrapped(w)
    BY <1>4 DEF ParameterOf, Likes
  <2>3. Wrapped(w).wild = {"head", "tail"} /\ Wrapped(w).text = w.text /\ Wrapped(w) # Nil
    BY <2>1, WrappedKeeps
  <2>4. args[1] = Wrapped(w)
    BY <1>4, <2>2, <2>3 DEF args, Bound, Likes
  <2>5. ILike(v.text, args[1]) <=> HasSubSeq(ToLower(v.text), ToLower(w.text))
    BY <2>3, <2>4 DEF ILike
  <2>6. MatchLike(v, w) <=> HasSubSeq(ToLower(v.text), ToLower(w.text))
    BY <2>1 DEF MatchLike
  <2>7. CASE f.op \in {"LIKE", "CONTAINS"}
    <3>1. cond.op = "ILIKE"
      BY <1>1, <2>7 DEF SQLOperator, Comparisons
    <3>2. ApplyOperator(f.op, v, w) <=> MatchLike(v, w)
      BY <2>7 DEF ApplyOperator, Comparisons
    <3>3. Accepts(cond, params, row) <=> ILike(v.text, args[1])
      BY <1>2, <3>1 DEF Comparisons
    <3> QED BY <2>5, <2>6, <3>2, <3>3 DEF cond
  <2>8. CASE f.op \in {"NOT LIKE", "NOT CONTAINS"}
    <3>1. cond.op = "NOT ILIKE"
      BY <1>1, <2>8 DEF SQLOperator, Comparisons
    <3>2. ApplyOperator(f.op, v, w) <=> ~MatchLike(v, w)
      BY <2>8 DEF ApplyOperator, Comparisons
    <3>3. Accepts(cond, params, row) <=> ~ILike(v.text, args[1])
      BY <1>2, <3>1 DEF Comparisons
    <3> QED BY <2>5, <2>6, <3>2, <3>3 DEF cond
  <2> QED BY <1>4, <2>7, <2>8 DEF Likes
<1>5. CASE f.op \in Lists
  <2>1. ~Dropped(f)
    BY <1>5 DEF Comparable, Lists, Comparisons, Likes
  <2>2. w.kind = "list"
    BY <1>5, <2>1 DEF Dropped, Lists
  <2>3. args = w.items
    BY <1>5 DEF args, Bound, Lists
  <2>4. MatchIn(v, w) <=> \E i \in DOMAIN w.items : w.items[i] = v
    BY <2>2 DEF MatchIn
  <2>5. MatchIn(v, w) <=> v \in ToSet(args)
    BY <2>3, <2>4 DEF ToSet
  <2>6. CASE f.op = "IN"
    <3>1. cond.op = "IN"
      BY <1>1, <2>6 DEF SQLOperator, Comparisons
    <3>2. ApplyOperator(f.op, v, w) <=> MatchIn(v, w)
      BY <2>6 DEF ApplyOperator, Comparisons
    <3>3. Accepts(cond, params, row) <=> v \in ToSet(args)
      BY <1>2, <3>1 DEF Comparisons
    <3> QED BY <2>5, <3>2, <3>3 DEF cond
  <2>7. CASE f.op = "NOT IN"
    <3>1. cond.op = "NOT IN"
      BY <1>1, <2>7 DEF SQLOperator, Comparisons
    <3>2. ApplyOperator(f.op, v, w) <=> ~MatchIn(v, w)
      BY <2>7 DEF ApplyOperator, Comparisons
    <3>3. Accepts(cond, params, row) <=> v \notin ToSet(args)
      BY <1>2, <3>1 DEF Comparisons
    <3> QED BY <2>5, <3>2, <3>3 DEF cond
  <2> QED BY <1>5, <2>6, <2>7 DEF Lists
<1>6. CASE f.op \in NullTests
  <2>1. ~IsZero(v)
    BY <1>6 DEF Comparable, NullTests, Comparisons, Likes
  <2>2. cond.op = f.op
    BY <1>1, <1>6 DEF SQLOperator, NullTests
  <2>3. ApplyOperator(f.op, v, w) <=> f.op = "IS NOT NULL"
    BY <1>6, <2>1 DEF ApplyOperator, NullTests, Comparisons
  <2>4. Accepts(cond, params, row) <=> f.op = "IS NOT NULL"
    BY <1>2, <1>6, <2>2 DEF NullTests, Comparisons
  <2> QED BY <2>3, <2>4 DEF cond
<1>7. CASE f.op \notin Comparisons \cup Likes \cup Lists \cup NullTests
  <2>1. f.op # "ARRAY_CONTAINS" /\ w # Nil
    BY <1>7 DEF Comparable, Comparisons, Likes, Lists, NullTests
  <2>2. ParameterOf(f) = w
    BY <1>7 DEF ParameterOf, NullTests
  <2>3. args[1] = w
    BY <1>7, <2>1, <2>2 DEF args, Bound, Lists
  <2>4. CASE f.op = "!="
    <3>1. cond.op = "!="
      BY <1>1, <2>4 DEF SQLOperator
    <3>2. ApplyOperator(f.op, v, w) <=> v # w
      BY <2>4 DEF ApplyOperator, Comparisons
    <3>3. Accepts(cond, params, row) <=> v # args[1]
      BY <1>2, <3>1 DEF Comparisons
    <3> QED BY <2>3, <3>2, <3>3 DEF cond
  <2>5. CASE f.op # "!="
    <3>1. cond.op = "="
      BY <1>1, <1>7, <2>1, <2>5 DEF SQLOperator, Comparisons, Likes, Lists, NullTests
    <3>2. ApplyOperator(f.op, v, w) <=> v = w
      BY <1>7, <2>5 DEF ApplyOperator, Comparisons, Likes, Lists, NullTests
    <3>3. Accepts(cond, params, row) <=> v = args[1]
      BY <1>2, <3>1 DEF Comparisons
    <3> QED BY <2>3, <3>2, <3>3 DEF cond
  <2> QED BY <2>4, <2>5
<1> QED BY <1>3, <1>4, <1>5, <1>6, <1>7

------------------------------------------------------------------------------
(* The invariant.                                                          *)

(***************************************************************************)
(* The inductive invariant.                                                *)
(***************************************************************************)
Order == [field : DOMAIN Resolve, dir : {"ASC", "DESC"}]

\* A sequence of filters on values.
GoodFilters(filters) ==
  filters \in Seq(ToSet(filters)) /\ \A f \in ToSet(filters) : IsValue(f.value)

\* A builder whose fields have their types.
GoodBuilder(b) ==
  /\ b = [filters |-> b.filters, orders |-> b.orders, page |-> b.page,
          pageSize |-> b.pageSize, orderField |-> b.orderField, orderDir |-> b.orderDir]
  /\ GoodFilters(b.filters)
  /\ b.orders \in Seq(Order)
  /\ b.page \in Nat \ {0} /\ b.pageSize \in 1 .. MaxPageSize
  /\ b.orderField \in DOMAIN Resolve

\* What Build returns, whatever is sanitized or paged in it later.
GoodCriteria(c) ==
  /\ c = [filters |-> c.filters, orders |-> c.orders, pagination |-> c.pagination]
  /\ GoodFilters(c.filters)
  /\ c.orders \in Seq(Order) /\ c.orders # <<>>
  /\ \E page \in Nat \ {0}, size \in 1 .. MaxPageSize : c.pagination = NewPagination(page, size)

\* The whitelist fields holds in c.
OnlyListed(c, fields) ==
  /\ \A f \in ToSet(c.filters) : f.field \in fields
  /\ \A o \in ToSet(c.orders) : o.field \in fields \cup {"created_at"}

\* The builder and the criteria are good, and the whitelist kept.
CriteriaInv ==
  /\ stage \in {"building", "built", "sanitized", "refused", "paging"}
  /\ GoodBuilder(builder)
  /\ stage \in {"built", "sanitized", "paging"} => GoodCriteria(crit)
  /\ allowed \in Whitelists \cup {{}}
  /\ stage = "sanitized" /\ allowed # {} => OnlyListed(crit, allowed)

\* A sequence is a sequence of its elements.
LEMMA SeqOfItsElements ==
  ASSUME NEW X, NEW s \in Seq(X)
  PROVE  s \in Seq(ToSet(s))
<1> DEFINE Y == ToSet(s)
<1>1. Len(s) \in Nat /\ \A i \in 1 .. Len(s) : s[i] \in Y
  BY DEF ToSet
<1> HIDE DEF Y
<1>2. s \in [1 .. Len(s) -> Y]
  BY <1>1
<1>3. s \in Seq(Y)
  BY <1>1, <1>2, SeqDef
<1> QED BY <1>3 DEF Y

\* No filter is a bad one.
LEMMA NoFilters == GoodFilters(<<>>)
BY DEF GoodFilters, ToSet

\* A filter on a value may be appended.
LEMMA OneMoreFilter ==
  ASSUME NEW filters, GoodFilters(filters), NEW field, NEW op, NEW value, IsValue(value)
  PROVE  GoodFilters(Append(filters, NewFilter(field, op, value)))
<1> DEFINE f == NewFilter(field, op, value)
           X == ToSet(filters) \cup {f}
<1>1. f.value = value
  BY DEF NewFilter
<1>2. filters \in Seq(X) /\ f \in X
  BY SeqMonotonic DEF GoodFilters
<1> HIDE DEF f
<1>3. Append(filters, f) \in Seq(X) /\ ToSet(Append(filters, f)) = X
  BY <1>2, AppendFacts
<1>4. \A g \in X : IsValue(g.value)
  BY <1>1 DEF GoodFilters
<1> HIDE DEF X
<1> QED BY <1>3, <1>4 DEF GoodFilters, f

\* Good filters may follow good filters.
LEMMA MoreFilters ==
  ASSUME NEW filters, GoodFilters(filters), NEW more, GoodFilters(more)
  PROVE  GoodFilters(filters \o more)
<1> DEFINE X == ToSet(filters) \cup ToSet(more)
           all == filters \o more
<1>1. filters \in Seq(X) /\ more \in Seq(X)
  BY SeqMonotonic DEF GoodFilters
<1>2. \A g \in X : IsValue(g.value)
  BY DEF GoodFilters
<1>3. /\ all \in Seq(X) /\ DOMAIN all = 1 .. Len(filters) + Len(more)
      /\ \A i \in 1 .. Len(filters) + Len(more) :
           all[i] = IF i =< Len(filters) THEN filters[i] ELSE more[i - Len(filters)]
  BY <1>1, ConcatProperties, LenProperties
<1> HIDE DEF all, X
<1>4. ToSet(all) \subseteq X
  BY <1>3 DEF ToSet
<1>5. all \in Seq(ToSet(all))
  BY <1>3, SeqOfItsElements
<1> QED BY <1>2, <1>4, <1>5 DEF GoodFilters, all

\* Some of the filters are good when all are.
LEMMA KeptFilters ==
  ASSUME NEW filters, GoodFilters(filters), NEW S
  PROVE  /\ GoodFilters(Keeping(filters, S))
         /\ ToSet(Keeping(filters, S)) = ToSet(filters) \cap S
<1> DEFINE X == ToSet(filters)
           kept == Keeping(filters, S)
<1>1. filters \in Seq(X) /\ \A f \in X : IsValue(f.value)
  BY DEF GoodFilters
<1> HIDE DEF X
<1>2. kept \in Seq(X) /\ ToSet(kept) = ToSet(filters) \cap S
  BY <1>1, KeepingFacts
<1>3. kept \in Seq(ToSet(kept))
  BY <1>2, SeqOfItsElements
<1> QED BY <1>1, <1>2, <1>3 DEF GoodFilters, X

\* NewOrder corrects the direction.
LEMMA MadeOrder ==
  ASSUME NEW field \in DOMAIN Resolve, NEW dir
  PROVE  NewOrder(field, dir) \in Order /\ NewOrder(field, dir).field = field
BY DEF NewOrder, Order

\* NewPagination leaves a page and a size within the limits alone.
LEMMA MadePagination ==
  ASSUME NEW page \in Nat \ {0}, NEW size \in 1 .. MaxPageSize
  PROVE  NewPagination(page, size) =
           [page |-> page, pageSize |-> size, limit |-> size,
            offset |-> Wrap((page - 1) * size)]
BY PageSizeAssumption DEF NewPagination

\* A new builder is good.
LEMMA NewBuilderIsGood == GoodBuilder(NewCriteriaBuilder)
<1> DEFINE b == NewCriteriaBuilder
<1>1. b = [filters |-> b.filters, orders |-> b.orders, page |-> b.page,
           pageSize |-> b.pageSize, orderField |-> b.orderField, orderDir |-> b.orderDir]
  BY DEF NewCriteriaBuilder
<1>2. /\ b.filters = <<>> /\ b.orders = <<>> /\ b.page = 1
      /\ b.pageSize = DefaultPageSize /\ b.orderField = "created_at"
  BY DEF NewCriteriaBuilder
<1> HIDE DEF b
<1>3. b.pageSize \in 1 .. MaxPageSize /\ b.orderField \in DOMAIN Resolve
  <2>1. DefaultPageSize \in 1 .. MaxPageSize
    BY PageSizeAssumption
  <2>2. "created_at" \in DOMAIN Resolve
    BY CallAssumption
  <2> QED BY <1>2, <2>1, <2>2
<1>4. GoodFilters(b.filters)
  BY <1>2, NoFilters
<1>5. b.orders \in Seq(Order)
  BY <1>2
<1> QED BY <1>1, <1>2, <1>3, <1>4, <1>5 DEF GoodBuilder, b

(***************************************************************************)
(* The builder keeps its shape under everything that is put into it.       *)
(***************************************************************************)
LEMMA FilterAdded ==
  ASSUME CriteriaInv, NEW field, NEW op, NEW value, IsValue(value),
         WithFilter(field, op, value)
  PROVE  GoodBuilder(builder')
<1> DEFINE more == Append(builder.filters, NewFilter(field, op, value))
<1>1. GoodFilters(more)
  BY OneMoreFilter DEF CriteriaInv, GoodBuilder
<1> HIDE DEF more
<1>2. builder' = [builder EXCEPT !.filters = more]
  BY DEF WithFilter, Building, more
<1> QED BY <1>1, <1>2 DEF CriteriaInv, GoodBuilder

\* WithOrder.
LEMMA OrderAdded ==
  ASSUME CriteriaInv, NEW field \in DOMAIN Resolve, NEW dir, WithOrder(field, dir)
  PROVE  GoodBuilder(builder')
<1> DEFINE more == Append(builder.orders, NewOrder(field, dir))
<1>1. more \in Seq(Order)
  BY MadeOrder, AppendProperties DEF CriteriaInv, GoodBuilder
<1> HIDE DEF more
<1>2. builder' = [builder EXCEPT !.orders = more]
  BY DEF WithOrder, Building, more
<1> QED BY <1>1, <1>2 DEF CriteriaInv, GoodBuilder

\* What is accepted of a page and its size is within the limits.
LEMMA PagesOf ==
  ASSUME CriteriaInv, NEW page \in Int, NEW size \in Int
  PROVE  PageOf(page) \in Nat \ {0} /\ PageSizeOf(size) \in 1 .. MaxPageSize
BY PageSizeAssumption DEF CriteriaInv, GoodBuilder, PageOf, PageSizeOf

\* WithPagination.
LEMMA PagesGiven ==
  ASSUME CriteriaInv, NEW page \in Int, NEW size \in Int, WithPagination(page, size)
  PROVE  GoodBuilder(builder')
<1>1. PageOf(page) \in Nat \ {0} /\ PageSizeOf(size) \in 1 .. MaxPageSize
  BY PagesOf
<1>2. builder' = [builder EXCEPT !.page = PageOf(page), !.pageSize = PageSizeOf(size)]
  BY DEF WithPagination, Building
<1> QED BY <1>1, <1>2 DEF CriteriaInv, GoodBuilder

\* FromURLValues, whatever order it reads the map in.
LEMMA QueryRead ==
  ASSUME CriteriaInv, NEW q \in Queries, FromURLValues(q)
  PROVE  GoodBuilder(builder')
<1> DEFINE named == {f \in DOMAIN q.filters : q.filters[f] # EmptyText}
           More(order) == [i \in DOMAIN order |-> NewFilter(order[i], "=", q.filters[order[i]])]
           page == PageOf(q.page)
           size == PageSizeOf(q.size)
           field == IF q.sortBy = "" THEN builder.orderField ELSE q.sortBy
           dir == IF q.sortDir = "" THEN builder.orderDir
                  ELSE IF q.sortDir = "ASC" THEN "ASC" ELSE "DESC"
<1>1. PICK order \in SetToSeqs(named) :
        builder' = [builder EXCEPT !.page = page, !.pageSize = size,
                                   !.orderField = field, !.orderDir = dir,
                                   !.filters = @ \o More(order)]
  BY DEF FromURLValues, Building
<1>2. page \in Nat \ {0} /\ size \in 1 .. MaxPageSize
  BY PagesOf, CallAssumption
<1>3. field \in DOMAIN Resolve
  BY CallAssumption DEF CriteriaInv, GoodBuilder
<1>4. GoodFilters(More(order))
  <2> DEFINE n == Cardinality(named)
             more == More(order)
  <2>1. n \in Nat
    BY CallAssumption, FS_Subset, FS_CardinalityType
  <2>2. order \in [1 .. n -> named]
    BY DEF SetToSeqs
  <2>3. \A i \in 1 .. n : IsValue(q.filters[order[i]])
    BY <2>2, ValueAssumption
  <2>4. \A i \in 1 .. n : more[i] = NewFilter(order[i], "=", q.filters[order[i]])
    BY <2>2
  <2>5. DOMAIN more = 1 .. n
    BY <2>2
  <2>6. more = [i \in 1 .. n |-> more[i]]
    BY <2>2
  <2> HIDE DEF more, n
  <2>7. more \in [1 .. n -> ToSet(more)]
    BY <2>5, <2>6 DEF ToSet
  <2>8. more \in Seq(ToSet(more))
    BY <2>1, <2>7, SeqDef
  <2>9. \A i \in 1 .. n : IsValue(more[i].value)
    <3> SUFFICES ASSUME NEW i \in 1 .. n PROVE IsValue(more[i].value)
      OBVIOUS
    <3> DEFINE value == q.filters[order[i]]
    <3>1. more[i] = NewFilter(order[i], "=", value) /\ IsValue(value)
      BY <2>3, <2>4
    <3> HIDE DEF value
    <3>2. more[i].value = value
      BY <3>1 DEF NewFilter
    <3> QED BY <3>1, <3>2
  <2>10. \A f \in ToSet(more) : IsValue(f.value)
    BY <2>5, <2>9 DEF ToSet
  <2> QED BY <2>8, <2>10 DEF GoodFilters, more
<1> DEFINE all == builder.filters \o More(order)
<1>5. GoodFilters(all)
  BY <1>4, MoreFilters DEF CriteriaInv, GoodBuilder
<1>6. builder' = [builder EXCEPT !.page = page, !.pageSize = size,
                                 !.orderField = field, !.orderDir = dir, !.filters = all]
  BY <1>1 DEF CriteriaInv, GoodBuilder
<1> HIDE DEF page, size, field, dir, all
<1>7. builder' = [filters |-> all, orders |-> builder.orders, page |-> page,
                  pageSize |-> size, orderField |-> field, orderDir |-> dir]
  BY <1>6 DEF CriteriaInv, GoodBuilder
<1> QED BY <1>2, <1>3, <1>5, <1>7 DEF CriteriaInv, GoodBuilder

(***************************************************************************)
(* The values the helpers make are values.                                 *)
(***************************************************************************)
LEMMA MadeValues ==
  /\ \A n : IsValue(Bool(n))
  /\ \A v : IsValue(v) => IsValue(Wrapped(v))
<1>1. ASSUME NEW n PROVE IsValue(Bool(n))
  <2> DEFINE m == [Nil EXCEPT !.kind = "bool"]
  <2>1. m = [kind |-> "bool", text |-> <<>>, wild |-> {}, num |-> 0, items |-> <<>>]
    <3> DEFINE e == <<>>  none == {}  zero == 0
    <3>1. Nil = [kind |-> "nil", text |-> e, wild |-> none, num |-> zero, items |-> e]
      BY DEF Nil
    <3> HIDE DEF e, none, zero
    <3>2. m = [kind |-> "bool", text |-> e, wild |-> none, num |-> zero, items |-> e]
      BY <3>1
    <3> QED BY <3>2 DEF e, none, zero
  <2>2. Bool(n) = [m EXCEPT !.num = n]
    BY DEF Bool, Nil
  <2> HIDE DEF m
  <2>3. Bool(n) = [kind |-> "bool", text |-> <<>>, wild |-> {}, num |-> n, items |-> <<>>]
    BY <2>1, <2>2
  <2>4. <<>> \in Seq(ToSet(<<>>))
    OBVIOUS
  <2> QED BY <2>3, <2>4 DEF IsValue
<1>2. ASSUME NEW v, IsValue(v) PROVE IsValue(Wrapped(v))
  <2> DEFINE w == [v EXCEPT !.wild = {"head", "tail"}]
  <2>1. PICK k, t, x, n, s : v = [kind |-> k, text |-> t, wild |-> x, num |-> n, items |-> s]
    BY <1>2 DEF IsValue
  <2>2. w = [kind |-> k, text |-> t, wild |-> {"head", "tail"}, num |-> n, items |-> s]
    BY <2>1
  <2>3. s \in Seq(ToSet(s))
    BY <1>2, <2>1 DEF IsValue
  <2> HIDE DEF w
  <2>4. IsValue(w)
    BY <2>2, <2>3 DEF IsValue
  <2> QED BY <1>2, <2>4 DEF Wrapped, w
<1> QED BY <1>1, <1>2

\* The Add...Filter helpers.
LEMMA HelperUsed ==
  ASSUME CriteriaInv, NEW a \in HelperCalls,
         \/ AddEqualFilter(a.field, a.value) \/ AddLikeFilter(a.field, a.value)
         \/ AddInFilter(a.field, a.value) \/ AddUUIDFilter(a.field, a.value)
         \/ AddBoolFilter(a.field, a.value)
  PROVE  GoodBuilder(builder')
<1>1. IsValue(a.value)
  BY ValueAssumption
<1>2. \E op, value : IsValue(value) /\ WithFilter(a.field, op, value)
  BY <1>1, MadeValues
     DEF AddEqualFilter, AddLikeFilter, AddInFilter, AddUUIDFilter, AddBoolFilter
<1> QED BY <1>2, FilterAdded

\* SetOrder.
LEMMA OrderSet ==
  ASSUME CriteriaInv, NEW field \in DOMAIN Resolve, NEW dir, SetOrder(field, dir)
  PROVE  GoodBuilder(builder')
<1>1. builder' = [builder EXCEPT !.orderField = field, !.orderDir = dir]
  BY DEF SetOrder, Building
<1> QED BY <1>1 DEF CriteriaInv, GoodBuilder

(***************************************************************************)
(* A built criteria is well formed, and stays so when it is sanitized.     *)
(***************************************************************************)
LEMMA BuiltIsGood ==
  ASSUME CriteriaInv, Build
  PROVE  GoodCriteria(crit') /\ GoodBuilder(builder')
<1>1. /\ GoodFilters(builder.filters) /\ builder.orders \in Seq(Order)
      /\ builder.page \in Nat \ {0} /\ builder.pageSize \in 1 .. MaxPageSize
      /\ builder.orderField \in DOMAIN Resolve
  BY DEF CriteriaInv, GoodBuilder
<1>2. Orders(builder) \in Seq(Order) /\ Orders(builder) # <<>>
  <2> DEFINE o == NewOrder(builder.orderField, builder.orderDir)
             d == NewOrder("created_at", "DESC")
  <2>1. o \in Order /\ d \in Order
    BY <1>1, MadeOrder, CallAssumption
  <2> HIDE DEF o, d
  <2>2. <<o>> \in Seq(Order) /\ <<o>> # <<>> /\ <<d>> \in Seq(Order) /\ <<d>> # <<>>
    BY <2>1
  <2> QED BY <1>1, <2>2 DEF Orders, o, d
<1> DEFINE os == Orders(builder)  p == NewPagination(builder.page, builder.pageSize)
<1> HIDE DEF os, p
<1>3. crit' = [filters |-> builder.filters, orders |-> os, pagination |-> p]
  BY DEF Build, os, p
<1>4. GoodCriteria(crit')
  BY <1>1, <1>2, <1>3 DEF GoodCriteria, os, p
<1> QED BY <1>4, NewBuilderIsGood DEF Build

\* Sanitized orders are listed or the default, and there is one.
LEMMA SanitizedOrdersFacts ==
  ASSUME NEW orders \in Seq(Order), orders # <<>>, NEW fields
  PROVE  /\ SanitizedOrders(orders, fields) \in Seq(Order)
         /\ SanitizedOrders(orders, fields) # <<>>
         /\ \A o \in ToSet(SanitizedOrders(orders, fields)) : o.field \in fields \cup {"created_at"}
<1> DEFINE S == {o \in ToSet(orders) : o.field # "" /\ o.field \in fields}
           kept == Keeping(orders, S)
           d == NewOrder("created_at", "DESC")
<1>1. kept \in Seq(Order) /\ ToSet(kept) = ToSet(orders) \cap S
  BY KeepingFacts
<1>2. d \in Order /\ d.field = "created_at"
  BY MadeOrder, CallAssumption
<1>3. SanitizedOrders(orders, fields) = IF kept = <<>> THEN <<d>> ELSE kept
  BY DEF SanitizedOrders
<1>4. \A o \in ToSet(kept) : o.field \in fields
  BY <1>1
<1> HIDE DEF kept, d, S
<1>5. <<d>> \in Seq(Order) /\ <<d>> # <<>> /\ ToSet(<<d>>) = {d}
  BY <1>2 DEF ToSet
<1>6. CASE kept = <<>>
  BY <1>2, <1>3, <1>5, <1>6
<1>7. CASE kept # <<>>
  BY <1>1, <1>3, <1>4, <1>7
<1> QED BY <1>6, <1>7

\* Sanitize keeps the whitelist.
LEMMA SanitizedIsGood ==
  ASSUME NEW c, GoodCriteria(c), NEW fields
  PROVE  /\ GoodCriteria(Sanitize(c, fields))
         /\ fields # {} => OnlyListed(Sanitize(c, fields), fields)
<1>1. CASE fields = {}
  BY <1>1 DEF Sanitize
<1>2. CASE fields # {}
  <2> DEFINE S == {g \in ToSet(c.filters) : g.field \in fields}
             fs == Keeping(c.filters, S)
             os == SanitizedOrders(c.orders, fields)
             d == Sanitize(c, fields)
  <2>1. /\ c = [filters |-> c.filters, orders |-> c.orders, pagination |-> c.pagination]
        /\ GoodFilters(c.filters) /\ c.orders \in Seq(Order) /\ c.orders # <<>>
        /\ \E page \in Nat \ {0}, size \in 1 .. MaxPageSize :
             c.pagination = NewPagination(page, size)
    BY DEF GoodCriteria
  <2>2. d = [filters |-> fs, orders |-> os, pagination |-> c.pagination]
    BY <1>2, <2>1 DEF Sanitize
  <2>3. GoodFilters(fs) /\ ToSet(fs) = ToSet(c.filters) \cap S
    BY <2>1, KeptFilters
  <2>4. \A f \in ToSet(fs) : f.field \in fields
    BY <2>3
  <2>5. /\ os \in Seq(Order) /\ os # <<>>
        /\ \A o \in ToSet(os) : o.field \in fields \cup {"created_at"}
    BY <2>1, SanitizedOrdersFacts
  <2> HIDE DEF fs, os, d
  <2>6. GoodCriteria(d)
    BY <2>1, <2>2, <2>3, <2>5 DEF GoodCriteria
  <2>7. OnlyListed(d, fields)
    BY <2>2, <2>4, <2>5 DEF OnlyListed
  <2> QED BY <2>6, <2>7 DEF d
<1> QED BY <1>1, <1>2

\* The criteria of another page.
LEMMA PageIsGood ==
  ASSUME NEW c, GoodCriteria(c), NEW page \in Nat \ {0}
  PROVE  GoodCriteria([c EXCEPT !.pagination = NewPagination(page, @.pageSize)])
<1>1. PICK p \in Nat \ {0}, size \in 1 .. MaxPageSize : c.pagination = NewPagination(p, size)
  BY DEF GoodCriteria
<1>2. c.pagination.pageSize = size
  BY <1>1, MadePagination
<1> DEFINE n == NewPagination(page, size)
<1> HIDE DEF n
<1>3. [c EXCEPT !.pagination = NewPagination(page, @.pageSize)] =
        [filters |-> c.filters, orders |-> c.orders, pagination |-> n]
  BY <1>2 DEF GoodCriteria, n
<1> QED BY <1>3 DEF GoodCriteria, n

(***************************************************************************)
(* CriteriaInv is inductive.                                               *)
(***************************************************************************)
LEMMA CriteriaInit == Init => CriteriaInv
BY NewBuilderIsGood DEF Init, CriteriaInv

\* The calls that change the builder alone.
StillBuilding == stage = "building" /\ UNCHANGED <<stage, crit, allowed, seen>>

\* A call that leaves the builder good.
LEMMA BuilderChanged ==
  ASSUME CriteriaInv, StillBuilding, GoodBuilder(builder')
  PROVE  CriteriaInv'
BY DEF CriteriaInv, StillBuilding

\* Every action keeps the invariant.
LEMMA CriteriaStep == CriteriaInv /\ [Next]_vars => CriteriaInv'
<1> SUFFICES ASSUME CriteriaInv, [Next]_vars PROVE CriteriaInv'
  OBVIOUS
<1>1. ASSUME NEW a \in FilterCalls,
             \/ WithFilter(a.field, a.op, a.value)
             \/ AddOperatorFilter(a.field, a.op, a.value)
      PROVE  CriteriaInv'
  <2>1. WithFilter(a.field, a.op, a.value)
    BY <1>1 DEF AddOperatorFilter
  <2>2. GoodBuilder(builder')
    BY <2>1, ValueAssumption, FilterAdded
  <2>3. StillBuilding
    BY <2>1 DEF WithFilter, Building, StillBuilding
  <2> QED BY <2>2, <2>3, BuilderChanged
<1>2. ASSUME NEW a \in HelperCalls,
             \/ AddEqualFilter(a.field, a.value) \/ AddLikeFilter(a.field, a.value)
             \/ AddInFilter(a.field, a.value) \/ AddUUIDFilter(a.field, a.value)
             \/ AddBoolFilter(a.field, a.value)
      PROVE  CriteriaInv'
  <2>1. GoodBuilder(builder')
    BY <1>2, HelperUsed
  <2>2. StillBuilding
    BY <1>2 DEF AddEqualFilter, AddLikeFilter, AddInFilter, AddUUIDFilter, AddBoolFilter,
                WithFilter, Building, StillBuilding
  <2> QED BY <2>1, <2>2, BuilderChanged
<1>3. ASSUME NEW a \in OrderCalls, WithOrder(a.field, a.dir) \/ SetOrder(a.field, a.dir)
      PROVE  CriteriaInv'
  <2>1. a.field \in DOMAIN Resolve
    BY CallAssumption
  <2>2. GoodBuilder(builder')
    BY <1>3, <2>1, OrderAdded, OrderSet
  <2>3. StillBuilding
    BY <1>3 DEF WithOrder, SetOrder, Building, StillBuilding
  <2> QED BY <2>2, <2>3, BuilderChanged
<1>4. ASSUME NEW a \in PageCalls, WithPagination(a.page, a.size)
      PROVE  CriteriaInv'
  <2>1. GoodBuilder(builder')
    BY <1>4, CallAssumption, PagesGiven
  <2>2. StillBuilding
    BY <1>4 DEF WithPagination, Building, StillBuilding
  <2> QED BY <2>1, <2>2, BuilderChanged
<1>5. ASSUME NEW q \in Queries, FromURLValues(q)
      PROVE  CriteriaInv'
  <2>1. GoodBuilder(builder')
    BY <1>5, QueryRead
  <2>2. StillBuilding
    BY <1>5 DEF FromURLValues, Building, StillBuilding
  <2> QED BY <2>1, <2>2, BuilderChanged
<1>6. CASE Build
  <2>1. GoodCriteria(crit') /\ GoodBuilder(builder')
    BY <1>6, BuiltIsGood
  <2>2. stage' = "built" /\ allowed' = allowed
    BY <1>6 DEF Build
  <2> QED BY <2>1, <2>2 DEF CriteriaInv
<1>7. ASSUME NEW fields \in Whitelists, ValidateAndSanitizeCriteria(fields)
      PROVE  CriteriaInv'
  <2>1. /\ stage = "built" /\ stage' = "sanitized" /\ builder' = builder
        /\ crit' = Sanitize(crit, fields) /\ allowed' = fields
    BY <1>7 DEF ValidateAndSanitizeCriteria
  <2>2. GoodCriteria(crit') /\ (fields # {} => OnlyListed(crit', fields))
    BY <2>1, SanitizedIsGood DEF CriteriaInv
  <2> QED BY <2>1, <2>2 DEF CriteriaInv
<1>8. ASSUME NEW fields \in Whitelists, ValidateAndSanitize(fields)
      PROVE  CriteriaInv'
  <2>1. CASE ValidateAndSanitizeCriteria(fields)
    BY <2>1, <1>7
  <2>2. CASE ~ValidateAndSanitizeCriteria(fields)
    <3>1. stage' = "refused" /\ builder' = builder /\ allowed' = allowed
      BY <1>8, <2>2 DEF ValidateAndSanitize
    <3> QED BY <3>1 DEF CriteriaInv
  <2> QED BY <2>1, <2>2
<1>9. ASSUME NEW page \in Nat \ {0}, stage \in {"built", "sanitized", "paging"}, ReadPage(page)
      PROVE  CriteriaInv'
  <2>1. /\ crit' = [crit EXCEPT !.pagination = NewPagination(page, @.pageSize)]
        /\ stage' = "paging" /\ builder' = builder /\ allowed' = allowed
    BY <1>9 DEF ReadPage
  <2>2. GoodCriteria(crit')
    BY <1>9, <2>1, PageIsGood DEF CriteriaInv
  <2> QED BY <2>1, <2>2 DEF CriteriaInv
<1>10. CASE FirstPage
  BY <1>9, <1>10 DEF FirstPage
<1>11. CASE NextPage
  <2>1. stage = "paging" /\ GoodCriteria(crit) /\ ReadPage(crit.pagination.page + 1)
    BY <1>11 DEF NextPage, CriteriaInv
  <2>2. crit.pagination.page + 1 \in Nat \ {0}
    <3>1. PICK page \in Nat \ {0}, size \in 1 .. MaxPageSize :
            crit.pagination = NewPagination(page, size)
      BY <2>1 DEF GoodCriteria
    <3>2. crit.pagination.page = page
      BY <3>1, MadePagination
    <3> QED BY <3>2
  <2> QED BY <1>9, <2>1, <2>2
<1>12. CASE Finish
  <2>1. stage' = "building" /\ builder' = NewCriteriaBuilder /\ allowed' = {}
    BY <1>12 DEF Finish
  <2> QED BY <2>1, NewBuilderIsGood DEF CriteriaInv
<1>13. CASE UNCHANGED vars
  BY <1>13 DEF vars, CriteriaInv
<1> QED BY <1>1, <1>2, <1>3, <1>4, <1>5, <1>6, <1>7, <1>8, <1>10, <1>11, <1>12, <1>13 DEF Next

(***************************************************************************)
(* The shape of the builder and of the criteria, and the whitelist kept.   *)
(***************************************************************************)
THEOREM CriteriaInvHolds == Spec => []CriteriaInv
BY CriteriaInit, CriteriaStep, PTL DEF Spec

------------------------------------------------------------------------------
(* What follows from it.                                                   *)

(***************************************************************************)
(* What the converters say of a criteria that has passed Validate.         *)
(***************************************************************************)
LEMMA ValidHasValues ==
  ASSUME NEW c, Validate(c)
  PROVE  \A f \in ToSet(c.filters) : HasItsValue(f)
BY DEF Validate, HasItsValue, ToSet

\* The clause of a valid criteria.
LEMMA WhereLinesUp ==
  ASSUME NEW c, GoodCriteria(c), Validate(c), \A f \in ToSet(c.filters) : ~UndefinedNil(f)
  PROVE  Lines(BuildWhereClause(c.filters), Conditional(c.filters))
<1> DEFINE Fs == ToSet(c.filters)
<1>1. c.filters \in Seq(Fs) /\ \A f \in Fs : IsValue(f.value)
  BY DEF GoodCriteria, GoodFilters
<1>2. \A f \in Fs : ~UndefinedNil(f) /\ HasItsValue(f)
  BY ValidHasValues
<1> HIDE DEF Fs
<1> DEFINE where == BuildWhereClause(c.filters)
           kept == Conditional(c.filters)
<1>3. where \in ClauseSet(Fs) /\ \E start : LinedUp(where, kept, start)
  BY <1>1, <1>2, ClauseLinesUp
<1>4. kept \in Seq(Fs)
  BY <1>1, ConditionalFacts
<1> HIDE DEF where, kept
<1>5. Lines(where, kept)
  BY <1>1, <1>3, <1>4, LinedUpLines
<1> QED BY <1>5 DEF where, kept

\* ParamsLineUp follows from the invariant.
LEMMA LinesUpInState == CriteriaInv => ParamsLineUp
<1> SUFFICES ASSUME CriteriaInv, Ready, ~ToSelectSQL(crit).err,
                    \A f \in ToSet(crit.filters) : ~UndefinedNil(f)
             PROVE  Lines(ToSelectSQL(crit).where, Conditional(crit.filters))
  BY DEF ParamsLineUp, Lines, Conditional
<1>1. GoodCriteria(crit)
  BY DEF CriteriaInv, Ready
<1>2. Validate(crit) /\ ToSelectSQL(crit).where = BuildWhereClause(crit.filters)
  BY DEF ToSelectSQL
<1> QED BY <1>1, <1>2, WhereLinesUp

(***************************************************************************)
(* In the SQL of a criteria the placeholders are numbered without gap or   *)
(* repetition and each condition gets the values of its own filter,        *)
(* whatever is filtered by (buildWhereClause).                             *)
(***************************************************************************)
THEOREM CriteriaParamsLineUp == Spec => []ParamsLineUp
BY CriteriaInvHolds, LinesUpInState, PTL

(***************************************************************************)
(* A sanitized criteria is accepted.                                       *)
(***************************************************************************)
LEMMA WrapIsExact ==
  ASSUME NEW n \in Nat, n =< MaxInt
  PROVE  Wrap(n) = n
<1>1. MaxInt \in Nat /\ n + MaxInt + 1 \in 0 .. 2 * (MaxInt + 1) - 1
  BY PageSizeAssumption
<1>2. (n + MaxInt + 1) % (2 * (MaxInt + 1)) = n + MaxInt + 1
  BY <1>1
<1> QED BY <1>1, <1>2 DEF Wrap

\* The offset of a page that does not wrap around.
LEMMA PaginationFacts ==
  ASSUME NEW page \in Nat \ {0}, NEW size \in 1 .. MaxPageSize, (page - 1) * size =< MaxInt
  PROVE  NewPagination(page, size) =
           [page |-> page, pageSize |-> size, limit |-> size, offset |-> (page - 1) * size]
<1> DEFINE n == (page - 1) * size
<1>1. n \in Nat
  <2>1. page - 1 \in Nat /\ size \in Nat
    BY PageSizeAssumption
  <2> QED BY <2>1
<1> HIDE DEF n
<1>2. Wrap(n) = n
  BY <1>1, WrapIsExact DEF n
<1> QED BY <1>2, MadePagination DEF n

\* A criteria that keeps a whitelist passes Validate.
LEMMA SanitizedIsValid ==
  ASSUME NEW c, GoodCriteria(c), NEW fields \in Whitelists, OnlyListed(c, fields),
         NoOverflow(c.pagination), \A f \in ToSet(c.filters) : HasItsValue(f)
  PROVE  Validate(c) /\ c.pagination.offset \in Nat
<1>1. PICK page \in Nat \ {0}, size \in 1 .. MaxPageSize : c.pagination = NewPagination(page, size)
  BY DEF GoodCriteria
<1> DEFINE p == c.pagination
<1>2. p.page = page /\ p.pageSize = size
  BY <1>1, MadePagination
<1>3. (page - 1) * size =< MaxInt
  BY <1>2 DEF NoOverflow
<1>4. p = [page |-> page, pageSize |-> size, limit |-> size, offset |-> (page - 1) * size]
  BY <1>1, <1>3, PaginationFacts
<1>5. (page - 1) * size \in Nat /\ size > 0
  <2>1. page - 1 \in Nat /\ size \in Nat
    BY PageSizeAssumption
  <2> QED BY <2>1
<1>6. p.limit > 0 /\ p.offset \in Nat /\ p.offset >= 0
  BY <1>4, <1>5
<1>7. \A i \in DOMAIN c.filters : /\ c.filters[i].field \in ValidNames
                                  /\ c.filters[i].op \in RequiresValue => c.filters[i].value # Nil
  <2> SUFFICES ASSUME NEW i \in DOMAIN c.filters
               PROVE  /\ c.filters[i].field \in ValidNames
                      /\ c.filters[i].op \in RequiresValue => c.filters[i].value # Nil
    OBVIOUS
  <2>1. c.filters[i] \in ToSet(c.filters)
    BY DEF ToSet
  <2>2. c.filters[i].field \in fields /\ HasItsValue(c.filters[i])
    BY <2>1 DEF OnlyListed
  <2> QED BY <2>2, WhitelistAssumption DEF HasItsValue
<1>8. \A i \in DOMAIN c.orders : /\ c.orders[i].field \in ValidNames
                                 /\ c.orders[i].dir \in {"ASC", "DESC"}
  <2> SUFFICES ASSUME NEW i \in DOMAIN c.orders
               PROVE  c.orders[i].field \in ValidNames /\ c.orders[i].dir \in {"ASC", "DESC"}
    OBVIOUS
  <2>1. c.orders[i] \in ToSet(c.orders) /\ c.orders[i] \in Order
    BY DEF ToSet, GoodCriteria
  <2>2. c.orders[i].field \in fields \cup {"created_at"} /\ c.orders[i].dir \in {"ASC", "DESC"}
    BY <2>1 DEF OnlyListed, Order
  <2> QED BY <2>2, WhitelistAssumption
<1> QED BY <1>6, <1>7, <1>8 DEF Validate

\* SanitizedConverts follows from the invariant.
LEMMA ConvertsInState == CriteriaInv => SanitizedConverts
<1> SUFFICES ASSUME CriteriaInv, stage = "sanitized", allowed # {},
                    NoOverflow(crit.pagination),
                    \A f \in ToSet(crit.filters) : HasItsValue(f)
             PROVE  /\ OnlyListed(crit, allowed)
                    /\ crit.orders # <<>>
                    /\ ~ToSelectSQL(crit).err /\ ~ToCountSQL(crit).err
                    /\ ~ApplyInMemory(Items, crit).panic
  BY DEF SanitizedConverts, OnlyListed
<1>1. GoodCriteria(crit) /\ OnlyListed(crit, allowed) /\ allowed \in Whitelists
  BY DEF CriteriaInv
<1>2. Validate(crit) /\ crit.pagination.offset \in Nat
  BY <1>1, SanitizedIsValid
<1>3. ~ToSelectSQL(crit).err /\ ~ToCountSQL(crit).err
  BY <1>2 DEF ToSelectSQL, ToCountSQL
<1>4. ~(crit.pagination.offset < 0)
  BY <1>2
<1>5. ~ApplyInMemory(Items, crit).panic
  BY <1>4 DEF ApplyInMemory
<1> QED BY <1>1, <1>3, <1>5 DEF GoodCriteria

(***************************************************************************)
(* Once sanitized with a whitelist a criteria is a query: only listed      *)
(* fields, accepted by both converters, cut within the bounds of the slice *)
(* (Build, Sanitize, Validate).                                            *)
(***************************************************************************)
THEOREM CriteriaSanitizedConverts == Spec => []SanitizedConverts
BY CriteriaInvHolds, ConvertsInState, PTL

(***************************************************************************)
(* The count query selects what ApplyInMemory selects.                     *)
(***************************************************************************)
LEMMA ComparableMakesCondition ==
  ASSUME NEW f, NEW v, Comparable(f, v)
  PROVE  ~Dropped(f) /\ ~UndefinedNil(f)
<1>1. ~Dropped(f)
  BY DEF Comparable, Dropped, Comparisons, Likes
<1>2. ~UndefinedNil(f)
  BY DEF Comparable, UndefinedNil, RequiresValue, Comparisons, Likes
<1> QED BY <1>1, <1>2

\* Condition i of the clause is the one of filter i, over the values of this filter.
ConditionsOf(c, kept) ==
  /\ Len(c.conditions) = Len(kept)
  /\ \A i \in 1 .. Len(kept) : \E slots :
       /\ c.conditions[i] = Condition(kept[i], slots)
       /\ [j \in DOMAIN slots |-> c.params[slots[j]]] = Bound(kept[i])

\* A clause in line has the conditions of its filters.
LEMMA LinedUpConditions ==
  ASSUME NEW Fs, \A f \in Fs : IsValue(f.value), NEW c, NEW kept \in Seq(Fs),
         NEW start, LinedUp(c, kept, start)
  PROVE  ConditionsOf(c, kept)
<1>1. /\ Len(c.conditions) = Len(kept)
      /\ \A i \in 1 .. Len(kept) :
           /\ c.conditions[i] =
                Condition(kept[i], [j \in 1 .. Len(Bound(kept[i])) |-> start[i] + j - 1])
           /\ \A j \in 1 .. Len(Bound(kept[i])) :
                c.params[start[i] + j - 1] = Bound(kept[i])[j]
  BY DEF LinedUp
<1>2. ASSUME NEW i \in 1 .. Len(kept)
      PROVE  \E slots : /\ c.conditions[i] = Condition(kept[i], slots)
                        /\ [j \in DOMAIN slots |-> c.params[slots[j]]] = Bound(kept[i])
  <2> DEFINE b == Bound(kept[i])
             slots == [j \in 1 .. Len(b) |-> start[i] + j - 1]
  <2>1. b \in Seq(ParamSet(Fs))
    <3>1. kept[i] \in Fs
      OBVIOUS
    <3> QED BY <3>1, BoundType
  <2>2. c.conditions[i] = Condition(kept[i], slots)
    BY <1>1
  <2>3. \A j \in 1 .. Len(b) : c.params[slots[j]] = b[j]
    BY <1>1
  <2>4. DOMAIN slots = 1 .. Len(b)
    OBVIOUS
  <2> HIDE DEF b, slots
  <2>5. b = [j \in 1 .. Len(b) |-> b[j]]
    BY <2>1
  <2>6. [j \in DOMAIN slots |-> c.params[slots[j]]] = b
    BY <2>3, <2>4, <2>5
  <2> QED BY <2>2, <2>6 DEF b
<1> QED BY <1>1, <1>2 DEF ConditionsOf

\* A row passes all conditions just when it passes all filters.
LEMMA AllConvert ==
  ASSUME NEW filters, GoodFilters(filters), NEW row,
         \A f \in ToSet(filters) : /\ Resolve[f.field] # None
                                   /\ HasItsValue(f)
                                   /\ Comparable(f, row[Resolve[f.field]])
  PROVE  LET where == BuildWhereClause(filters)
         IN MatchesFilter(row, filters) <=>
              \A cond \in ToSet(where.conditions) : Accepts(cond, where.params, row)
<1> DEFINE Fs == ToSet(filters)
           where == BuildWhereClause(filters)
           kept == Conditional(filters)
           Passes(f) == ApplyOperator(f.op, row[Resolve[f.field]], f.value)
<1>1. filters \in Seq(Fs) /\ \A f \in Fs : IsValue(f.value)
  BY DEF GoodFilters
<1>2. \A f \in Fs : HasItsValue(f) /\ ~Dropped(f) /\ ~UndefinedNil(f)
  BY ComparableMakesCondition
<1>3. kept \in Seq(Fs) /\ ToSet(kept) = {g \in Fs : ~Dropped(g)}
  BY <1>1, ConditionalFacts
<1>4. ToSet(kept) = Fs
  BY <1>2, <1>3
<1>5. MatchesFilter(row, filters) <=> \A f \in Fs : Passes(f)
  BY DEF MatchesFilter, ToSet
<1>6. \A f \in Fs : IsValue(f.value) /\ Comparable(f, row[Resolve[f.field]])
  BY <1>1
<1> HIDE DEF Fs
<1>7. where \in ClauseSet(Fs) /\ \E start : LinedUp(where, kept, start)
  BY <1>1, <1>2, ClauseLinesUp
<1> HIDE DEF where, kept
<1>8. ConditionsOf(where, kept)
  BY <1>1, <1>3, <1>7, LinedUpConditions
<1>9. \A i \in 1 .. Len(kept) : kept[i] \in Fs
  BY <1>3
<1>10. ASSUME NEW i \in 1 .. Len(kept)
       PROVE  Accepts(where.conditions[i], where.params, row) <=> Passes(kept[i])
  <2>1. PICK slots : /\ where.conditions[i] = Condition(kept[i], slots)
                     /\ [j \in DOMAIN slots |-> where.params[slots[j]]] = Bound(kept[i])
    BY <1>8 DEF ConditionsOf
  <2>2. IsValue(kept[i].value) /\ Comparable(kept[i], row[Resolve[kept[i].field]])
    BY <1>6, <1>9
  <2>3. Accepts(Condition(kept[i], slots), where.params, row) <=> Passes(kept[i])
    BY <2>1, <2>2, AcceptsAsApplied
  <2> QED BY <2>1, <2>3
<1>11. DOMAIN where.conditions = 1 .. Len(kept) /\ DOMAIN kept = 1 .. Len(kept)
  BY <1>3, <1>7, <1>8 DEF ConditionsOf, ClauseSet
<1> HIDE DEF Passes
<1>12. (\A cond \in ToSet(where.conditions) : Accepts(cond, where.params, row))
         <=> \A i \in 1 .. Len(kept) : Passes(kept[i])
  BY <1>10, <1>11 DEF ToSet
<1>13. (\A f \in Fs : Passes(f)) <=> \A i \in 1 .. Len(kept) : Passes(kept[i])
  BY <1>4, <1>11 DEF ToSet
<1> QED BY <1>5, <1>12, <1>13 DEF where

\* MemoryAgreesWithSQL follows from the invariant.
LEMMA AgreesInState == CriteriaInv => MemoryAgreesWithSQL
<1> SUFFICES ASSUME CriteriaInv, Ready, ~ToCountSQL(crit).err,
                    \A f \in ToSet(crit.filters) : /\ Resolve[f.field] # None
                                                   /\ \A row \in ToSet(Items) :
                                                        Comparable(f, row[Resolve[f.field]]),
                    NEW row \in ToSet(Items)
             PROVE  MatchesFilter(row, crit.filters) <=>
                      \A cond \in ToSet(ToCountSQL(crit).where.conditions) :
                        Accepts(cond, ToCountSQL(crit).where.params, row)
  BY DEF MemoryAgreesWithSQL
<1>1. GoodFilters(crit.filters)
  BY DEF CriteriaInv, Ready, GoodCriteria
<1>2. Validate(crit) /\ ToCountSQL(crit).where = BuildWhereClause(crit.filters)
  BY DEF ToCountSQL
<1>3. \A f \in ToSet(crit.filters) : HasItsValue(f)
  BY <1>2, ValidHasValues
<1> QED BY <1>1, <1>2, <1>3, AllConvert

(***************************************************************************)
(* The conditions of the count query select the rows that ApplyInMemory    *)
(* selects, for every row, every filter and every mix of filters on which  *)
(* the two can agree.                                                      *)
(***************************************************************************)
THEOREM CriteriaMemoryAgreesWithSQL == Spec => []MemoryAgreesWithSQL
BY CriteriaInvHolds, AgreesInState, PTL

------------------------------------------------------------------------------
(* The order of the rows.                                                  *)

(***************************************************************************)
(* Orders of texts.  s precedes t at i: they agree before i, where s ends  *)
(* or has the smaller letter.                                              *)
(***************************************************************************)
Precedes(s, t, i) ==
  /\ i \in 1 .. Len(t)
  /\ \A j \in 1 .. i - 1 : j =< Len(s) /\ s[j] = t[j]
  /\ i = Len(s) + 1 \/ (i =< Len(s) /\ s[i] < t[i])

\* A text precedes its continuations, at its end.
LEMMA PrefixPrecedes ==
  ASSUME NEW s \in Seq(Int), NEW t \in Seq(Int)
  PROVE  IsStrictPrefix(s, t) <=> Precedes(s, t, Len(s) + 1)
<1> DEFINE m == Len(s)  u == SubSeq(t, 1, m)  r == SubSeq(s, 1, m)
<1>1. m \in Nat /\ Len(t) \in Nat /\ r = s
  BY SubSeqFull
<1>2. ASSUME m =< Len(t) PROVE u \in Seq(Int) /\ Len(u) = m /\ \A i \in 1 .. m : u[i] = t[i]
  <2>1. \A i \in 1 .. m : t[i] \in Int
    BY <1>1, <1>2
  <2>2. /\ u \in Seq(Int) /\ Len(u) = IF 1 =< m THEN m - 1 + 1 ELSE 0
        /\ \A i \in 1 .. m - 1 + 1 : u[i] = t[1 + i - 1]
    BY <1>1, <2>1, SubSeqProperties
  <2> QED BY <1>1, <2>2
<1>3. ASSUME IsStrictPrefix(s, t) PROVE Precedes(s, t, m + 1)
  <2>1. m =< Len(t) /\ u = s /\ s # t
    BY <1>1, <1>3 DEF IsStrictPrefix, IsPrefix
  <2>2. \A i \in 1 .. m : s[i] = t[i]
    BY <1>2, <2>1
  <2>3. m # Len(t)
    BY <2>1, <2>2, SeqEqual
  <2> QED BY <1>1, <2>1, <2>2, <2>3 DEF Precedes
<1>4. ASSUME Precedes(s, t, m + 1) PROVE IsStrictPrefix(s, t)
  <2>1. m + 1 =< Len(t) /\ \A i \in 1 .. m : s[i] = t[i]
    BY <1>1, <1>4 DEF Precedes
  <2>2. u \in Seq(Int) /\ Len(u) = m /\ \A i \in 1 .. m : u[i] = s[i]
    BY <1>1, <1>2, <2>1
  <2> HIDE DEF u
  <2>3. u = s
    BY <2>2, SeqEqual
  <2>4. s # t
    BY <1>1, <2>1
  <2> QED BY <1>1, <2>1, <2>3, <2>4 DEF IsStrictPrefix, IsPrefix, u
<1> QED BY <1>3, <1>4

\* TextLess in terms of Precedes.
LEMMA LessIsPrecedes ==
  ASSUME NEW s \in Seq(Int), NEW t \in Seq(Int)
  PROVE  TextLess(s, t) <=> \E i : Precedes(s, t, i)
<1>1. Len(s) \in Nat /\ DOMAIN s = 1 .. Len(s) /\ Len(t) \in Nat /\ DOMAIN t = 1 .. Len(t)
  OBVIOUS
<1>2. ASSUME NEW i \in DOMAIN s \cap DOMAIN t, s[i] < t[i], \A j \in 1 .. i - 1 : s[j] = t[j]
      PROVE  Precedes(s, t, i)
  BY <1>1, <1>2 DEF Precedes
<1>3. ASSUME NEW i, Precedes(s, t, i), i # Len(s) + 1
      PROVE  /\ i \in DOMAIN s \cap DOMAIN t /\ s[i] < t[i]
             /\ \A j \in 1 .. i - 1 : s[j] = t[j]
  BY <1>1, <1>3 DEF Precedes
<1>4. IsStrictPrefix(s, t) <=> Precedes(s, t, Len(s) + 1)
  BY PrefixPrecedes
<1> QED BY <1>2, <1>3, <1>4 DEF TextLess

\* Of two texts at most one precedes the other.
LEMMA LessIsAsymmetric ==
  ASSUME NEW s \in Seq(Int), NEW t \in Seq(Int), NEW i, Precedes(s, t, i)
  PROVE  ~\E k : Precedes(t, s, k)
<1> SUFFICES ASSUME NEW k, Precedes(t, s, k) PROVE FALSE
  OBVIOUS
<1>1. /\ i \in Nat /\ k \in Nat /\ Len(s) \in Nat /\ Len(t) \in Nat
      /\ i \in 1 .. Len(t) /\ k \in 1 .. Len(s)
  BY DEF Precedes
<1>2. CASE i < k
  <2>1. i \in 1 .. k - 1
    BY <1>1, <1>2
  <2>2. t[i] = s[i] /\ i =< Len(s) /\ s[i] \in Int
    BY <1>1, <1>2, <2>1 DEF Precedes
  <2> QED BY <1>1, <2>2 DEF Precedes
<1>3. CASE k < i
  <2>1. k \in 1 .. i - 1
    BY <1>1, <1>3
  <2>2. t[k] = s[k] /\ k =< Len(t) /\ s[k] \in Int
    BY <1>1, <1>3, <2>1 DEF Precedes
  <2> QED BY <1>1, <2>2 DEF Precedes
<1>4. CASE i = k
  <2>1. s[i] \in Int /\ t[i] \in Int
    BY <1>1, <1>4
  <2>2. s[i] < t[i] /\ t[i] < s[i]
    BY <1>1, <1>4 DEF Precedes
  <2> QED BY <2>1, <2>2
<1> QED BY <1>1, <1>2, <1>3, <1>4

\* A third text follows the first or precedes the second.
LEMMA LessIsNegativelyTransitive ==
  ASSUME NEW s \in Seq(Int), NEW t \in Seq(Int), NEW u \in Seq(Int), NEW i, Precedes(s, u, i)
  PROVE  (\E k : Precedes(s, t, k)) \/ (\E k : Precedes(t, u, k))
<1> DEFINE Split(k) == k > Len(s) \/ k > Len(t) \/ s[k] # t[k]
           T == {k \in Nat \ {0} : Split(k)}
<1>1. /\ i \in Nat \ {0} /\ Len(s) \in Nat /\ Len(t) \in Nat /\ Len(u) \in Nat
      /\ i \in 1 .. Len(u)
      /\ \A j \in 1 .. Len(s) : s[j] \in Int
      /\ \A j \in 1 .. Len(t) : t[j] \in Int
      /\ \A j \in 1 .. Len(u) : u[j] \in Int
  BY DEF Precedes
<1>2. \A j \in 1 .. i - 1 : j =< Len(s) /\ s[j] = u[j]
  BY DEF Precedes
<1>3. i = Len(s) + 1 \/ (i =< Len(s) /\ s[i] < u[i])
  BY DEF Precedes
<1>4. T # {}
  <2>1. Len(t) + 1 \in T
    BY <1>1
  <2> QED BY <2>1
<1>5. T \subseteq Nat
  OBVIOUS
<1>6. PICK k \in T : \A j \in T : k =< j
  BY <1>4, <1>5, LeastNat
<1>7. k \in Nat \ {0} /\ Split(k)
  BY <1>6
<1>8. \A j \in 1 .. k - 1 : j =< Len(s) /\ j =< Len(t) /\ s[j] = t[j]
  BY <1>1, <1>6, <1>7
<1>9. k =< Len(t) + 1 /\ k =< Len(s) + 1
  <2>1. k = 1 \/ k - 1 \in 1 .. k - 1
    BY <1>7
  <2> QED BY <1>1, <1>7, <1>8, <2>1
<1> HIDE DEF T
<1>10. CASE i < k
  <2>1. i =< Len(s) /\ i =< Len(t) /\ s[i] = t[i] /\ s[i] < u[i]
    BY <1>1, <1>3, <1>7, <1>8, <1>10
  <2>2. \A j \in 1 .. i - 1 : j =< Len(t) /\ t[j] = u[j]
    BY <1>1, <1>2, <1>7, <1>8, <1>10
  <2> QED BY <1>1, <2>1, <2>2 DEF Precedes
<1>11. CASE k =< i
  <2>1. \A j \in 1 .. k - 1 : j =< Len(t) /\ t[j] = u[j]
    BY <1>1, <1>2, <1>7, <1>8, <1>11
  <2>2. k \in 1 .. Len(u)
    BY <1>1, <1>7, <1>11
  <2>3. CASE k = Len(t) + 1
    BY <2>1, <2>2, <2>3 DEF Precedes
  <2>4. CASE k =< Len(t) /\ k = Len(s) + 1
    <3>1. k \in 1 .. Len(t) /\ \A j \in 1 .. k - 1 : j =< Len(s) /\ s[j] = t[j]
      BY <1>1, <1>7, <1>8, <2>4
    <3>2. Precedes(s, t, k)
      BY <2>4, <3>1 DEF Precedes
    <3> QED BY <3>2
  <2>5. CASE k =< Len(t) /\ k =< Len(s)
    <3>1. s[k] # t[k] /\ s[k] \in Int /\ t[k] \in Int /\ u[k] \in Int
      BY <1>1, <1>7, <2>2, <2>5
    <3>2. s[k] =< u[k]
      <4>1. CASE k = i
        <5>1. s[k] < u[k]
          BY <1>1, <1>3, <2>5, <4>1
        <5> QED BY <3>1, <5>1
      <4>2. CASE k # i
        <5>1. k \in 1 .. i - 1
          BY <1>1, <1>7, <1>11, <4>2
        <5>2. s[k] = u[k]
          BY <1>2, <5>1
        <5> QED BY <3>1, <5>2
      <4> QED BY <4>1, <4>2
    <3>3. CASE s[k] < t[k]
      <4>1. k \in 1 .. Len(t) /\ \A j \in 1 .. k - 1 : j =< Len(s) /\ s[j] = t[j]
        BY <1>1, <1>7, <1>8, <2>5
      <4>2. Precedes(s, t, k)
        BY <2>5, <3>3, <4>1 DEF Precedes
      <4> QED BY <4>2
    <3>4. CASE t[k] < s[k]
      <4>1. t[k] < u[k]
        BY <3>1, <3>2, <3>4
      <4> QED BY <2>1, <2>2, <2>5, <4>1 DEF Precedes
    <3> QED BY <3>1, <3>3, <3>4
  <2> QED BY <1>1, <1>7, <1>9, <2>3, <2>4, <2>5
<1> QED BY <1>1, <1>7, <1>10, <1>11

(***************************************************************************)
(* Two rows in a column: at most one of them comes before the other, and a *)
(* third comes after the first of them or before the second.               *)
(***************************************************************************)
LEMMA LoweredText ==
  ASSUME NEW s \in Seq(DOMAIN Lower)
  PROVE  ToLower(s) \in Seq(Int)
<1> DEFINE t == ToLower(s)  n == Len(s)
<1>1. n \in Nat /\ DOMAIN s = 1 .. n /\ \A i \in 1 .. n : s[i] \in DOMAIN Lower
  OBVIOUS
<1>2. \A c \in DOMAIN Lower : Lower[c] \in Int
  BY ColumnAssumption
<1>3. t = [i \in 1 .. n |-> Lower[s[i]]]
  BY <1>1 DEF ToLower
<1> HIDE DEF t, n
<1>4. t \in [1 .. n -> Int]
  BY <1>1, <1>2, <1>3
<1>5. t \in Seq(Int)
  BY <1>1, <1>4, SeqDef
<1> QED BY <1>5 DEF t

\* The same of TextLess.
LEMMA TextOrder ==
  ASSUME NEW s \in Seq(Int), NEW t \in Seq(Int), TextLess(s, t)
  PROVE  /\ ~TextLess(t, s)
         /\ \A u \in Seq(Int) : TextLess(s, u) \/ TextLess(u, t)
<1>1. PICK i : Precedes(s, t, i)
  BY LessIsPrecedes
<1>2. ~TextLess(t, s)
  BY <1>1, LessIsAsymmetric, LessIsPrecedes
<1>3. ASSUME NEW u \in Seq(Int) PROVE TextLess(s, u) \/ TextLess(u, t)
  BY <1>1, LessIsNegativelyTransitive, LessIsPrecedes
<1> QED BY <1>2, <1>3

\* The values in a column.
ColumnValues(field) == {item[Resolve[field]] : item \in ToSet(Items)}

\* The same of the values in a column.
LEMMA ValueOrder ==
  ASSUME NEW field \in DOMAIN Resolve, Resolve[field] # None,
         NEW v \in ColumnValues(field), NEW w \in ColumnValues(field), ValueLess(v, w)
  PROVE  /\ ~ValueLess(w, v)
         /\ \A x \in ColumnValues(field) : ValueLess(v, x) \/ ValueLess(x, w)
<1> DEFINE V == ColumnValues(field)
<1>1. \/ \A x \in V : IsNumber(x) /\ x.num \in Int
      \/ \A x \in V : IsText(x) /\ x.text \in Seq(DOMAIN Lower)
      \/ \A x \in V : ~IsNumber(x) /\ ~IsText(x)
  BY ColumnAssumption DEF ColumnValues
<1>2. \A x : ~(IsNumber(x) /\ IsText(x))
  BY DEF IsNumber, IsText
<1> HIDE DEF V
<1>3. v \in V /\ w \in V
  BY DEF V
<1>4. CASE \A x \in V : IsNumber(x) /\ x.num \in Int
  <2>1. \A x, y \in V : ValueLess(x, y) <=> x.num < y.num
    BY <1>2, <1>4 DEF ValueLess
  <2>2. v.num < w.num
    BY <1>3, <2>1
  <2>3. ~ValueLess(w, v)
    BY <1>3, <1>4, <2>1, <2>2
  <2>4. \A x \in V : ValueLess(v, x) \/ ValueLess(x, w)
    BY <1>3, <1>4, <2>1, <2>2
  <2> QED BY <2>3, <2>4 DEF V
<1>5. CASE \A x \in V : IsText(x) /\ x.text \in Seq(DOMAIN Lower)
  <2>1. \A x, y \in V : ValueLess(x, y) <=> TextLess(ToLower(x.text), ToLower(y.text))
    BY <1>2, <1>5 DEF ValueLess
  <2>2. \A x \in V : ToLower(x.text) \in Seq(Int)
    BY <1>5, LoweredText
  <2>3. TextLess(ToLower(v.text), ToLower(w.text))
    BY <1>3, <2>1
  <2>4. /\ ~TextLess(ToLower(w.text), ToLower(v.text))
        /\ \A u \in Seq(Int) : TextLess(ToLower(v.text), u) \/ TextLess(u, ToLower(w.text))
    BY <1>3, <2>2, <2>3, TextOrder
  <2> QED BY <1>3, <2>1, <2>2, <2>4 DEF V
<1>6. CASE \A x \in V : ~IsNumber(x) /\ ~IsText(x)
  BY <1>3, <1>6 DEF ValueLess
<1> QED BY <1>1, <1>4, <1>5, <1>6

\* One of the orders puts row x before row y.
Comes(o, x, y) ==
  /\ Resolve[o.field] # None
  /\ IF o.dir = "ASC" THEN ValueLess(x[Resolve[o.field]], y[Resolve[o.field]])
                      ELSE ValueLess(y[Resolve[o.field]], x[Resolve[o.field]])

\* The same of the rows, by one order.
LEMMA OneOrder ==
  ASSUME NEW o \in Order, NEW x \in ToSet(Items), NEW y \in ToSet(Items), Comes(o, x, y)
  PROVE  /\ ~Comes(o, y, x)
         /\ \A z \in ToSet(Items) : Comes(o, x, z) \/ Comes(o, z, y)
<1> DEFINE col == Resolve[o.field]
           V == ColumnValues(o.field)
<1>1. o.field \in DOMAIN Resolve /\ col # None
  BY DEF Order, Comes
<1>2. \A z \in ToSet(Items) : z[col] \in V
  BY DEF ColumnValues
<1>3. \A v, w \in V : ValueLess(v, w) =>
        /\ ~ValueLess(w, v)
        /\ \A u \in V : ValueLess(v, u) \/ ValueLess(u, w)
  BY <1>1, ValueOrder
<1> HIDE DEF V
<1>4. CASE o.dir = "ASC"
  <2>1. \A a, b : Comes(o, a, b) <=> ValueLess(a[col], b[col])
    BY <1>1, <1>4 DEF Comes
  <2> HIDE DEF col
  <2> QED BY <1>2, <1>3, <2>1
<1>5. CASE o.dir # "ASC"
  <2>1. \A a, b : Comes(o, a, b) <=> ValueLess(b[col], a[col])
    BY <1>1, <1>5 DEF Comes
  <2> HIDE DEF col
  <2> QED BY <1>2, <1>3, <2>1
<1> QED BY <1>4, <1>5

(***************************************************************************)
(* The same of a list of orders, the first that tells two rows apart       *)
(* deciding.                                                               *)
(***************************************************************************)
LEMMA LessFacts ==
  ASSUME NEW orders \in Seq(Order), NEW x, NEW y
  PROVE  LessByOrders(x, y, orders) <=>
           \E i \in 1 .. Len(orders) : /\ Comes(orders[i], x, y)
                                       /\ \A j \in 1 .. i - 1 : ~Comes(orders[j], y, x)
<1>1. DOMAIN orders = 1 .. Len(orders)
  OBVIOUS
<1>2. LessByOrders(x, y, orders) <=>
        \E i \in DOMAIN orders : /\ Comes(orders[i], x, y)
                                 /\ \A j \in 1 .. i - 1 : ~Comes(orders[j], y, x)
  BY Zenon DEF LessByOrders, Comes
<1> QED BY <1>1, <1>2

\* At most one of two rows is less than the other.
LEMMA OrdersAsymmetric ==
  ASSUME NEW orders \in Seq(Order), NEW x \in ToSet(Items), NEW y \in ToSet(Items),
         LessByOrders(x, y, orders)
  PROVE  ~LessByOrders(y, x, orders)
<1>1. PICK i \in 1 .. Len(orders) : /\ Comes(orders[i], x, y)
                                    /\ \A j \in 1 .. i - 1 : ~Comes(orders[j], y, x)
  BY LessFacts
<1>2. SUFFICES ASSUME NEW k \in 1 .. Len(orders), Comes(orders[k], y, x),
                      \A j \in 1 .. k - 1 : ~Comes(orders[j], x, y)
               PROVE  FALSE
  BY LessFacts
<1>3. i \in Nat /\ k \in Nat /\ orders[i] \in Order
  OBVIOUS
<1>4. i \notin 1 .. k - 1 /\ k \notin 1 .. i - 1
  BY <1>1, <1>2
<1>5. i = k
  BY <1>3, <1>4
<1> QED BY <1>1, <1>2, <1>3, <1>5, OneOrder

\* A third row is greater than the first or less than the second.
LEMMA OrdersNegativelyTransitive ==
  ASSUME NEW orders \in Seq(Order), NEW x \in ToSet(Items), NEW y \in ToSet(Items),
         NEW z \in ToSet(Items), LessByOrders(x, z, orders)
  PROVE  LessByOrders(x, y, orders) \/ LessByOrders(y, z, orders)
<1> DEFINE B(k, a, b) == Comes(orders[k], a, b)
           Apart(k) == B(k, x, y) \/ B(k, y, x) \/ B(k, y, z) \/ B(k, z, y)
                         \/ B(k, x, z) \/ B(k, z, x)
           T == {k \in 1 .. Len(orders) : Apart(k)}
<1>1. PICK i \in 1 .. Len(orders) : B(i, x, z) /\ \A j \in 1 .. i - 1 : ~B(j, z, x)
  BY LessFacts
<1>2. T \subseteq Nat /\ T # {}
  BY <1>1
<1>3. PICK k \in T : \A j \in T : k =< j
  BY <1>2, LeastNat
<1>4. k \in 1 .. Len(orders) /\ Apart(k) /\ k =< i /\ orders[k] \in Order
  BY <1>1, <1>3
<1>5. \A j \in 1 .. k - 1 : ~Apart(j)
  BY <1>3, <1>4
<1>6. /\ B(k, x, y) => ~B(k, y, x) /\ (B(k, x, z) \/ B(k, z, y))
      /\ B(k, y, x) => ~B(k, x, y) /\ (B(k, y, z) \/ B(k, z, x))
      /\ B(k, y, z) => ~B(k, z, y) /\ (B(k, y, x) \/ B(k, x, z))
      /\ B(k, z, y) => ~B(k, y, z) /\ (B(k, z, x) \/ B(k, x, y))
      /\ B(k, x, z) => ~B(k, z, x) /\ (B(k, x, y) \/ B(k, y, z))
  BY <1>4, OneOrder
<1>7. ~B(k, z, x)
  <2>1. CASE k = i
    BY <1>1, <1>6, <2>1
  <2>2. CASE k # i
    BY <1>1, <1>4, <2>2
  <2> QED BY <2>1, <2>2
<1> HIDE DEF T
<1>8. B(k, x, y) \/ B(k, y, z)
  BY <1>4, <1>6, <1>7
<1>9. CASE B(k, x, y)
  <2>1. \A j \in 1 .. k - 1 : ~B(j, y, x)
    BY <1>5
  <2> QED BY <1>4, <1>9, <2>1, LessFacts
<1>10. CASE B(k, y, z)
  <2>1. \A j \in 1 .. k - 1 : ~B(j, z, y)
    BY <1>5
  <2> QED BY <1>4, <1>10, <2>1, LessFacts
<1> QED BY <1>8, <1>9, <1>10

(***************************************************************************)
(* A finite set can be sorted by a relation like these.                    *)
(***************************************************************************)
WeakOrder(R, X) ==
  \A x, y \in X : <<x, y>> \in R => /\ <<y, x>> \notin R
                                    /\ \A z \in X : <<x, z>> \in R \/ <<z, y>> \in R

\* Something comes last.
LEMMA LastExists ==
  ASSUME NEW X, NEW R, WeakOrder(R, X), NEW S \in SUBSET X, IsFiniteSet(S), S # {}
  PROVE  \E m \in S : \A x \in S : <<m, x>> \notin R
<1> DEFINE HasLast(U) == \E m \in U : \A x \in U : <<m, x>> \notin R
           T == {n \in Nat : \A U \in SUBSET X :
                               IsFiniteSet(U) /\ Cardinality(U) = n + 1 => HasLast(U)}
<1>1. \A x, y \in X : <<x, y>> \in R => /\ <<y, x>> \notin R
                                        /\ \A z \in X : <<x, z>> \in R \/ <<z, y>> \in R
  BY DEF WeakOrder
<1>2. 0 \in T
  <2> SUFFICES ASSUME NEW U \in SUBSET X, IsFiniteSet(U), Cardinality(U) = 0 + 1
               PROVE  HasLast(U)
    OBVIOUS
  <2>1. Cardinality(U) = 1
    OBVIOUS
  <2>2. PICK e : U = {e}
    BY <2>1, FS_Singleton
  <2> QED BY <1>1, <2>2
<1>3. ASSUME NEW n \in Nat, n \in T PROVE n + 1 \in T
  <2> SUFFICES ASSUME NEW U \in SUBSET X, IsFiniteSet(U), Cardinality(U) = n + 1 + 1
               PROVE  HasLast(U)
    OBVIOUS
  <2>1. PICK e \in U : TRUE
    BY FS_EmptySet
  <2>2. IsFiniteSet(U \ {e}) /\ Cardinality(U \ {e}) = n + 1
    BY FS_RemoveElement
  <2>3. PICK m \in U \ {e} : \A x \in U \ {e} : <<m, x>> \notin R
    BY <1>3, <2>2
  <2>4. CASE <<m, e>> \notin R
    BY <2>3, <2>4
  <2>5. CASE <<m, e>> \in R
    <3>1. <<e, e>> \notin R
      BY <1>1
    <3>2. ASSUME NEW x \in U \ {e} PROVE <<e, x>> \notin R
      BY <1>1, <2>3, <2>5
    <3> QED BY <3>1, <3>2
  <2> QED BY <2>4, <2>5
<1> HIDE DEF T
<1>4. Nat \subseteq T
  BY <1>2, <1>3, NatSetInduction
<1> DEFINE n == Cardinality(S) - 1
<1>5. n \in Nat /\ Cardinality(S) = n + 1
  BY FS_EmptySet, FS_CardinalityType
<1> HIDE DEF n
<1>6. n \in T
  BY <1>4, <1>5
<1> QED BY <1>5, <1>6 DEF T

\* t lists the set S, sorted by R.
ListsSorted(t, S, R) ==
  /\ t \in SetToSeqs(S)
  /\ \A i, j \in 1 .. Cardinality(S) : i < j => <<t[j], t[i]>> \notin R

\* The last element goes after the others, sorted.
LEMMA SortExists ==
  ASSUME NEW X, NEW R, WeakOrder(R, X), NEW S \in SUBSET X, IsFiniteSet(S)
  PROVE  \E t : ListsSorted(t, S, R)
<1> DEFINE T == {n \in Nat : \A U \in SUBSET X :
                   IsFiniteSet(U) /\ Cardinality(U) = n => \E t : ListsSorted(t, U, R)}
<1>1. 0 \in T
  <2> SUFFICES ASSUME NEW U \in SUBSET X, IsFiniteSet(U), Cardinality(U) = 0
               PROVE  \E t : ListsSorted(t, U, R)
    OBVIOUS
  <2>1. <<>> \in SetToSeqs(U)
    BY DEF SetToSeqs
  <2>2. ListsSorted(<<>>, U, R)
    BY <2>1 DEF ListsSorted
  <2> QED BY <2>2
<1>2. ASSUME NEW n \in Nat, n \in T PROVE n + 1 \in T
  <2> SUFFICES ASSUME NEW U \in SUBSET X, IsFiniteSet(U), Cardinality(U) = n + 1
               PROVE  \E t : ListsSorted(t, U, R)
    OBVIOUS
  <2>1. U # {}
    BY FS_EmptySet
  <2>2. PICK m \in U : \A x \in U : <<m, x>> \notin R
    BY <2>1, LastExists
  <2>3. IsFiniteSet(U \ {m}) /\ Cardinality(U \ {m}) = n
    <3>1. IsFiniteSet(U \ {m}) /\ Cardinality(U \ {m}) = Cardinality(U) - 1
      BY FS_RemoveElement
    <3> QED BY <3>1
  <2>4. PICK t : ListsSorted(t, U \ {m}, R)
    BY <1>2, <2>3
  <2>5. /\ t \in [1 .. n -> U \ {m}]
        /\ \A i, j \in 1 .. n : i # j => t[i] # t[j]
        /\ \A i, j \in 1 .. n : i < j => <<t[j], t[i]>> \notin R
    BY <2>3, <2>4 DEF ListsSorted, SetToSeqs
  <2> DEFINE u == [i \in 1 .. n + 1 |-> IF i = n + 1 THEN m ELSE t[i]]
  <2>6. u \in [1 .. n + 1 -> U]
    BY <2>5
  <2>7. u[n + 1] = m /\ \A i \in 1 .. n : u[i] = t[i] /\ t[i] \in U \ {m}
    BY <2>5
  <2> HIDE DEF u
  <2>8. \A i \in 1 .. n + 1 : i = n + 1 \/ i \in 1 .. n
    OBVIOUS
  <2>9. \A i, j \in 1 .. n + 1 : i # j => u[i] # u[j]
    BY <2>5, <2>7, <2>8
  <2>10. \A i, j \in 1 .. n + 1 : i < j => <<u[j], u[i]>> \notin R
    <3> SUFFICES ASSUME NEW i \in 1 .. n + 1, NEW j \in 1 .. n + 1, i < j
                 PROVE  <<u[j], u[i]>> \notin R
      OBVIOUS
    <3>1. i \in 1 .. n
      OBVIOUS
    <3>2. CASE j = n + 1
      BY <2>2, <2>7, <3>1, <3>2
    <3>3. CASE j \in 1 .. n
      BY <2>5, <2>7, <3>1, <3>3
    <3> QED BY <2>8, <3>2, <3>3
  <2>11. u \in SetToSeqs(U)
    BY <2>6, <2>9 DEF SetToSeqs
  <2> QED BY <2>10, <2>11 DEF ListsSorted
<1> HIDE DEF T
<1>3. Nat \subseteq T
  BY <1>1, <1>2, NatSetInduction
<1>4. Cardinality(S) \in T
  BY <1>3, FS_CardinalityType
<1> QED BY <1>4 DEF T

(***************************************************************************)
(* Sorted puts the rows of a slice in an order that LessByOrders allows,   *)
(* each once.                                                              *)
(***************************************************************************)
LEMMA RowsAreOrdered ==
  ASSUME NEW orders \in Seq(Order)
  PROVE  WeakOrder({p \in ToSet(Items) \X ToSet(Items) : LessByOrders(p[1], p[2], orders)},
                   ToSet(Items))
<1> DEFINE X == ToSet(Items)
           R == {p \in X \X X : LessByOrders(p[1], p[2], orders)}
<1>1. \A x, y \in X : <<x, y>> \in R <=> LessByOrders(x, y, orders)
  OBVIOUS
<1>2. \A x, y \in X : LessByOrders(x, y, orders) =>
        /\ ~LessByOrders(y, x, orders)
        /\ \A z \in X : LessByOrders(x, z, orders) \/ LessByOrders(z, y, orders)
  BY OrdersAsymmetric, OrdersNegativelyTransitive
<1> HIDE DEF X, R
<1>3. WeakOrder(R, X)
  BY <1>1, <1>2 DEF WeakOrder
<1> QED BY <1>3 DEF X, R

\* As many elements as places, when no element is repeated.
LEMMA DistinctCount ==
  ASSUME NEW X, NEW s \in Seq(X), IsInjective(s)
  PROVE  IsFiniteSet(ToSet(s)) /\ Cardinality(ToSet(s)) = Len(s)
<1> DEFINE n == Len(s)  Y == ToSet(s)
<1>1. n \in Nat /\ DOMAIN s = 1 .. n /\ s \in [1 .. n -> X]
  OBVIOUS
<1>2. s \in [1 .. n -> Y]
  BY <1>1 DEF ToSet
<1>3. \A y \in Y : \E i \in 1 .. n : s[i] = y
  BY <1>1 DEF ToSet
<1>4. \A a, b \in 1 .. n : s[a] = s[b] => a = b
  BY <1>1 DEF IsInjective
<1> HIDE DEF n, Y
<1>5. ExistsBijection(1 .. n, Y)
  BY <1>1, <1>2, <1>3, <1>4 DEF ExistsBijection, Bijection, Injection, Surjection, IsInjective
<1>6. IsFiniteSet(Y) /\ Cardinality(Y) = n
  BY <1>1, <1>5, FS_NatBijection, FS_CountingElements
<1> QED BY <1>6 DEF n, Y

\* What SetToSeqs holds lists every element once.
LEMMA ListsAll ==
  ASSUME NEW S, IsFiniteSet(S), NEW t \in SetToSeqs(S)
  PROVE  /\ t \in Seq(S) /\ Len(t) = Cardinality(S) /\ ToSet(t) = S
         /\ \A i, j \in 1 .. Len(t) : i # j => t[i] # t[j]
<1> DEFINE n == Cardinality(S)
<1>1. n \in Nat
  BY FS_CardinalityType
<1>2. t \in [1 .. n -> S] /\ \A i, j \in 1 .. n : i # j => t[i] # t[j]
  BY DEF SetToSeqs
<1>3. IsFiniteSet(1 .. n) /\ Cardinality(1 .. n) = n
  BY <1>1, FS_Interval
<1>4. t \in Injection(1 .. n, S)
  BY <1>2 DEF Injection, IsInjective
<1>5. t \in Surjection(1 .. n, S)
  BY <1>3, <1>4, FS_Injection
<1> HIDE DEF n
<1>6. t \in Seq(S) /\ Len(t) = n
  BY <1>1, <1>2, SeqDef
<1>7. ToSet(t) = S
  BY <1>2, <1>5 DEF Surjection, ToSet
<1> QED BY <1>2, <1>6, <1>7 DEF n

\* The CHOOSE of Sorted has something to choose from.
LEMMA SortedFacts ==
  ASSUME NEW s \in Seq(ToSet(Items)), IsInjective(s), NEW orders \in Seq(Order), orders # <<>>
  PROVE  LET t == Sorted(s, orders)
         IN /\ t \in Seq(ToSet(s)) /\ Len(t) = Len(s) /\ ToSet(t) = ToSet(s)
            /\ \A i, j \in 1 .. Len(t) : i < j => /\ t[i] # t[j]
                                                  /\ ~LessByOrders(t[j], t[i], orders)
<1> DEFINE X == ToSet(Items)
           R == {p \in X \X X : LessByOrders(p[1], p[2], orders)}
           S == ToSet(s)
           OK(t) == \A i, j \in DOMAIN t : i < j => ~LessByOrders(t[j], t[i], orders)
<1>1. S \in SUBSET X
  BY DEF ToSet
<1>2. IsFiniteSet(S) /\ Cardinality(S) = Len(s)
  BY DistinctCount
<1>3. WeakOrder(R, X)
  BY RowsAreOrdered
<1>4. \A x, y \in X : <<x, y>> \in R <=> LessByOrders(x, y, orders)
  OBVIOUS
<1>5. Sorted(s, orders) = CHOOSE t \in SetToSeqs(S) : OK(t)
  BY DEF Sorted
<1> HIDE DEF X, R, S
<1>6. PICK u : ListsSorted(u, S, R)
  BY <1>1, <1>2, <1>3, SortExists
<1>7. u \in SetToSeqs(S) /\ \A i, j \in 1 .. Cardinality(S) : i < j => <<u[j], u[i]>> \notin R
  BY <1>6 DEF ListsSorted
<1>8. u \in Seq(S) /\ Len(u) = Cardinality(S)
  BY <1>2, <1>7, ListsAll
<1>9. OK(u)
  <2> DEFINE n == Cardinality(S)
  <2>1. DOMAIN u = 1 .. n /\ \A i \in 1 .. n : u[i] \in X
    BY <1>1, <1>8
  <2> HIDE DEF n
  <2>2. \A i, j \in 1 .. n : i < j => <<u[j], u[i]>> \notin R
    BY <1>7 DEF n
  <2> QED BY <1>4, <2>1, <2>2
<1> DEFINE t == Sorted(s, orders)
<1>10. t \in SetToSeqs(S) /\ OK(t)
  BY <1>5, <1>7, <1>9
<1> HIDE DEF t
<1>11. /\ t \in Seq(S) /\ Len(t) = Cardinality(S) /\ ToSet(t) = S
       /\ \A i, j \in 1 .. Len(t) : i # j => t[i] # t[j]
  BY <1>2, <1>10, ListsAll
<1>12. DOMAIN t = 1 .. Len(t)
  BY <1>11
<1>13. \A i, j \in 1 .. Len(t) : i < j => t[i] # t[j] /\ ~LessByOrders(t[j], t[i], orders)
  BY <1>10, <1>11, <1>12
<1> QED BY <1>2, <1>11, <1>13 DEF t, S

------------------------------------------------------------------------------
(* Paging.                                                                 *)

(***************************************************************************)
(* What the client has read.                                               *)
(***************************************************************************)
Matching(c) == Keeping(Items, {item \in ToSet(Items) : MatchesFilter(item, c.filters)})

\* The rows of a criteria, all pages of it.
AllPages(c) == Sorted(Matching(c), c.orders)

Least(m, n) == IF m < n THEN m ELSE n

\* The first k rows, or all of them.
ReadUpTo(c, k) == SubSeq(AllPages(c), 1, Least(k, Len(AllPages(c))))

\* The rows seen so far; the page read is at most one past the last.
PagingInv ==
  /\ stage # "paging" => seen = <<>>
  /\ stage = "paging" =>
       LET p == crit.pagination
       IN /\ seen = ReadUpTo(crit, p.page * p.pageSize)
          /\ (p.page - 1) * p.pageSize < Len(AllPages(crit)) + p.pageSize

\* The rows that match, each once.
LEMMA MatchingFacts ==
  ASSUME NEW c
  PROVE  /\ Matching(c) \in Seq(ToSet(Items))
         /\ ToSet(Matching(c)) = {item \in ToSet(Items) : MatchesFilter(item, c.filters)}
         /\ IsInjective(Matching(c))
         /\ Len(Matching(c)) \in Nat /\ Len(Matching(c)) =< Len(Items)
<1> DEFINE X == ToSet(Items)
           S == {item \in X : MatchesFilter(item, c.filters)}
           m == Matching(c)
<1>1. Items \in Seq(X) /\ IsInjective(Items)
  BY ItemAssumption
<1>2. m \in Seq(X) /\ ToSet(m) = X \cap S /\ IsInjective(m)
  BY <1>1, KeepingFacts DEF Matching
<1>3. /\ IsFiniteSet(X) /\ Cardinality(X) = Len(Items)
      /\ IsFiniteSet(ToSet(m)) /\ Cardinality(ToSet(m)) = Len(m)
  BY <1>1, <1>2, DistinctCount
<1>4. X \cap S = S /\ ToSet(m) \in SUBSET X
  BY <1>2
<1>5. Cardinality(ToSet(m)) =< Cardinality(X)
  BY <1>3, <1>4, FS_Subset
<1> QED BY <1>2, <1>3, <1>4, <1>5

\* The same rows, in order.
LEMMA AllPagesFacts ==
  ASSUME NEW c, c.orders \in Seq(Order), c.orders # <<>>
  PROVE  /\ AllPages(c) \in Seq(ToSet(Items))
         /\ ToSet(AllPages(c)) = {item \in ToSet(Items) : MatchesFilter(item, c.filters)}
         /\ Len(AllPages(c)) = Len(Matching(c))
         /\ Len(AllPages(c)) \in Nat /\ Len(AllPages(c)) =< Len(Items)
         /\ \A i, j \in 1 .. Len(AllPages(c)) :
              i < j => /\ AllPages(c)[i] # AllPages(c)[j]
                       /\ ~LessByOrders(AllPages(c)[j], AllPages(c)[i], c.orders)
<1> DEFINE X == ToSet(Items)  m == Matching(c)  t == AllPages(c)
<1>1. /\ m \in Seq(X) /\ IsInjective(m)
      /\ ToSet(m) = {item \in X : MatchesFilter(item, c.filters)}
      /\ Len(m) \in Nat /\ Len(m) =< Len(Items)
  BY MatchingFacts
<1>2. t = Sorted(m, c.orders)
  BY DEF AllPages
<1> HIDE DEF m, t
<1>3. /\ t \in Seq(ToSet(m)) /\ Len(t) = Len(m) /\ ToSet(t) = ToSet(m)
      /\ \A i, j \in 1 .. Len(t) : i < j => t[i] # t[j] /\ ~LessByOrders(t[j], t[i], c.orders)
  BY <1>1, <1>2, SortedFacts
<1>4. t \in Seq(X)
  BY <1>1, <1>3, SeqMonotonic
<1> QED BY <1>1, <1>3, <1>4 DEF m, t

(***************************************************************************)
(* A page of the answer, as long as its offset does not wrap around.       *)
(***************************************************************************)
LEMMA ProductFacts ==
  ASSUME NEW page \in Nat \ {0}, NEW size \in Nat
  PROVE  /\ (page - 1) * size \in Nat /\ page * size \in Nat
         /\ page * size = (page - 1) * size + size
<1>1. page - 1 \in Nat
  OBVIOUS
<1> QED BY <1>1

\* ApplyInMemory cuts one page out of them.
LEMMA PageRead ==
  ASSUME NEW c, c.orders \in Seq(Order), c.orders # <<>>,
         NEW page \in Nat \ {0}, NEW size \in 1 .. MaxPageSize,
         c.pagination = NewPagination(page, size),
         (page - 1) * size < Len(AllPages(c)) + size
  PROVE  LET n == Len(AllPages(c))
         IN /\ ApplyInMemory(Items, c).total = n
            /\ ApplyInMemory(Items, c).items =
                 SubSeq(AllPages(c), Least((page - 1) * size, n) + 1, Least(page * size, n))
<1> DEFINE t == AllPages(c)  m == Matching(c)  n == Len(t)
           off == (page - 1) * size
           end == page * size
           p == c.pagination
<1>1. /\ n = Len(m) /\ n \in Nat /\ n =< Len(Items)
      /\ t = Sorted(m, c.orders)
  BY AllPagesFacts DEF AllPages
<1>2. size \in Nat /\ size > 0 /\ off \in Nat /\ end = off + size
  BY PageSizeAssumption, ProductFacts
<1>3. off < n + size
  OBVIOUS
<1> HIDE DEF off, end
<1>4. off =< MaxInt
  BY <1>1, <1>2, <1>3, PageSizeAssumption, ItemAssumption
<1>5. p = [page |-> page, pageSize |-> size, limit |-> size, offset |-> off]
  BY <1>4, PaginationFacts DEF off
<1>6. p.limit = size /\ p.offset = off
  BY <1>5
<1> HIDE DEF t, m, p
<1>7. ApplyInMemory(Items, c) =
        IF Items = <<>> THEN [panic |-> FALSE, items |-> <<>>, total |-> Len(m)]
        ELSE IF p.limit =< 0
             THEN [panic |-> FALSE, items |-> Sorted(m, c.orders), total |-> Len(m)]
        ELSE IF p.offset >= Len(m) THEN [panic |-> FALSE, items |-> <<>>, total |-> Len(m)]
        ELSE IF p.offset < 0 THEN [panic |-> TRUE, items |-> <<>>, total |-> Len(m)]
        ELSE [panic |-> FALSE, items |-> Window(Sorted(m, c.orders), p), total |-> Len(m)]
  BY DEF ApplyInMemory, Matching, m, p
<1>8. ~(p.limit =< 0) /\ ~(p.offset < 0)
  BY <1>2, <1>6
<1>9. ApplyInMemory(Items, c).total = n
  BY <1>1, <1>7
<1> DEFINE part == SubSeq(t, Least(off, n) + 1, Least(end, n))
<1>10. CASE Items = <<>>
  <2>1. n = 0
    BY <1>1, <1>10
  <2>2. Least(off, n) + 1 = 1 /\ Least(end, n) = 0
    BY <1>2, <2>1 DEF Least
  <2>3. part = <<>>
    BY <2>2, SubSeqEmpty
  <2>4. ApplyInMemory(Items, c).items = <<>>
    BY <1>7, <1>10
  <2> QED BY <1>9, <2>3, <2>4 DEF t, off, end
<1>11. CASE Items # <<>> /\ off >= n
  <2>1. Least(off, n) + 1 = n + 1 /\ Least(end, n) = n
    BY <1>1, <1>2, <1>11 DEF Least
  <2>2. part = <<>>
    BY <1>1, <2>1, SubSeqEmpty
  <2>3. ApplyInMemory(Items, c).items = <<>>
    BY <1>1, <1>6, <1>7, <1>8, <1>11
  <2> QED BY <1>9, <2>2, <2>3 DEF t, off, end
<1>12. CASE Items # <<>> /\ off < n
  <2>1. Least(off, n) = off /\ Least(end, n) = IF off + size > n THEN n ELSE off + size
    BY <1>1, <1>2, <1>12 DEF Least
  <2>2. ~(p.offset >= Len(m))
    BY <1>1, <1>2, <1>6, <1>12
  <2>3. ApplyInMemory(Items, c).items = Window(t, p)
    BY <1>1, <1>7, <1>8, <1>12, <2>2
  <2>4. Window(t, p) = part
    BY <1>6, <2>1 DEF Window
  <2> QED BY <1>9, <2>3, <2>4 DEF t, off, end
<1> QED BY <1>1, <1>2, <1>10, <1>11, <1>12

\* A page after the pages before it.
LEMMA ReadMore ==
  ASSUME NEW X, NEW t \in Seq(X), NEW off \in Nat, NEW end \in Nat, off =< end
  PROVE  LET n == Len(t)
         IN SubSeq(t, 1, Least(off, n)) \o SubSeq(t, Least(off, n) + 1, Least(end, n)) =
              SubSeq(t, 1, Least(end, n))
<1> DEFINE n == Len(t)  k == Least(off, n)  m == Least(end, n)
<1>1. n \in Nat /\ k \in 0 .. n /\ m \in k .. n
  BY DEF Least
<1> HIDE DEF k, m
<1>2. SubSeq(t, 1, k) \o SubSeq(t, k + 1, m) = SubSeq(t, 1, m)
  BY <1>1, ConcatAdjacentSubSeq
<1> QED BY <1>2 DEF k, m

(***************************************************************************)
(* The number of pages.                                                    *)
(***************************************************************************)
LEMMA PagesNeeded ==
  ASSUME NEW n \in Nat, NEW size \in Nat \ {0}, NEW page \in Nat
  PROVE  page =< (n + size - 1) \div size <=> (page - 1) * size < n
<1> DEFINE q == (n + size - 1) \div size
<1>1. q \in Nat /\ size * q =< n + size - 1 /\ n + size - 1 < size * q + size
  OBVIOUS
<1> HIDE DEF q
<1>2. ASSUME page =< q PROVE (page - 1) * size < n
  <2>1. (q - page) * size >= 0
    BY <1>1, <1>2
  <2>2. (page - 1) * size = q * size - (q - page) * size - size
    BY <1>1
  <2>3. q * size = size * q
    BY <1>1
  <2> QED BY <1>1, <2>1, <2>2, <2>3
<1>3. ASSUME page > q PROVE ~((page - 1) * size < n)
  <2>1. (page - 1 - q) * size >= 0
    BY <1>1, <1>3
  <2>2. (page - 1) * size = q * size + (page - 1 - q) * size
    BY <1>1
  <2>3. q * size = size * q
    BY <1>1
  <2> QED BY <1>1, <2>1, <2>2, <2>3
<1> QED BY <1>1, <1>2, <1>3 DEF q

(***************************************************************************)
(* PagingInv is inductive, given CriteriaInv.                              *)
(***************************************************************************)
LEMMA NothingSeen ==
  ASSUME PagingInv, stage # "paging", stage' # "paging", seen' = seen \/ seen' = <<>>
  PROVE  PagingInv'
BY DEF PagingInv

\* crit with its page replaced has the same rows.
LEMMA SamePages ==
  ASSUME NEW c, GoodCriteria(c), NEW n
  PROVE  LET d == [c EXCEPT !.pagination = n]
         IN d.filters = c.filters /\ d.orders = c.orders /\ d.pagination = n
BY DEF GoodCriteria

\* ReadPage.
LEMMA OnePageMore ==
  ASSUME NEW page \in Nat \ {0}, GoodCriteria(crit), ReadPage(page),
         LET size == crit.pagination.pageSize
         IN /\ (page - 1) * size < Len(AllPages(crit)) + size
            /\ seen = ReadUpTo(crit, (page - 1) * size)
  PROVE  PagingInv'
<1>1. PICK p \in Nat \ {0}, size \in 1 .. MaxPageSize : crit.pagination = NewPagination(p, size)
  BY DEF GoodCriteria
<1>2. crit.pagination.pageSize = size
  BY <1>1, MadePagination
<1> DEFINE c == [crit EXCEPT !.pagination = NewPagination(page, @.pageSize)]
           t == AllPages(crit)  n == Len(t)
           off == (page - 1) * size
           end == page * size
<1>3. /\ stage' = "paging" /\ crit' = c
      /\ seen' = seen \o ApplyInMemory(Items, c).items
  BY DEF ReadPage
<1>4. /\ c.filters = crit.filters /\ c.orders = crit.orders
      /\ c.pagination = NewPagination(page, size)
  BY <1>2, SamePages
<1> HIDE DEF c
<1>5. AllPages(c) = t
  BY <1>4 DEF AllPages, Matching
<1>6. c.orders \in Seq(Order) /\ c.orders # <<>> /\ crit.orders \in Seq(Order) /\ crit.orders # <<>>
  BY <1>4 DEF GoodCriteria
<1>7. off < n + size /\ seen = SubSeq(t, 1, Least(off, n))
  BY <1>2 DEF ReadUpTo
<1>8. ApplyInMemory(Items, c).items = SubSeq(t, Least(off, n) + 1, Least(end, n))
  BY <1>4, <1>5, <1>6, <1>7, PageRead
<1>9. off \in Nat /\ end \in Nat /\ off =< end
  BY ProductFacts, PageSizeAssumption
<1>10. t \in Seq(ToSet(Items))
  BY <1>6, AllPagesFacts
<1> HIDE DEF t, off, end
<1>11. seen' = SubSeq(t, 1, Least(end, n))
  BY <1>3, <1>7, <1>8, <1>9, <1>10, ReadMore
<1>12. c.pagination.page = page /\ c.pagination.pageSize = size
  BY <1>4, MadePagination
<1>13. /\ seen' = ReadUpTo(c, c.pagination.page * c.pagination.pageSize)
       /\ (c.pagination.page - 1) * c.pagination.pageSize < Len(AllPages(c)) + c.pagination.pageSize
  BY <1>5, <1>7, <1>11, <1>12 DEF ReadUpTo, off, end
<1> QED BY <1>3, <1>13 DEF PagingInv, ReadUpTo, AllPages, Matching

\* The page and the size of a criteria.
LEMMA PageAndSize ==
  ASSUME NEW c, GoodCriteria(c)
  PROVE  c.pagination.page \in Nat \ {0} /\ c.pagination.pageSize \in 1 .. MaxPageSize
<1>1. PICK page \in Nat \ {0}, size \in 1 .. MaxPageSize : c.pagination = NewPagination(page, size)
  BY DEF GoodCriteria
<1> QED BY <1>1, MadePagination

\* GetTotalPages in terms of the rows before a page.
LEMMA TotalOfPages ==
  ASSUME GoodCriteria(crit),
         LET p == crit.pagination IN (p.page - 1) * p.pageSize < Len(AllPages(crit)) + p.pageSize,
         NEW page \in Nat
  PROVE  page =< TotalPages <=> (page - 1) * crit.pagination.pageSize < Len(AllPages(crit))
<1>1. PICK p \in Nat \ {0}, size \in 1 .. MaxPageSize : crit.pagination = NewPagination(p, size)
  BY DEF GoodCriteria
<1>2. crit.pagination.page = p /\ crit.pagination.pageSize = size
  BY <1>1, MadePagination
<1> DEFINE n == Len(AllPages(crit))
<1>3. crit.orders \in Seq(Order) /\ crit.orders # <<>>
  BY DEF GoodCriteria
<1>4. n \in Nat
  BY <1>3, AllPagesFacts
<1>5. ApplyInMemory(Items, crit).total = n
  BY <1>1, <1>2, <1>3, PageRead
<1> HIDE DEF n
<1>6. size \in Nat \ {0}
  BY PageSizeAssumption
<1>7. TotalPages = (n + size - 1) \div size
  BY <1>2, <1>5, <1>6 DEF TotalPages, GetTotalPages
<1> QED BY <1>2, <1>4, <1>6, <1>7, PagesNeeded DEF n

\* Nothing is seen at first.
LEMMA PagingInit == Init => PagingInv
BY DEF Init, PagingInv

\* Every action keeps PagingInv.
LEMMA PagingStep == CriteriaInv /\ PagingInv /\ [Next]_vars => PagingInv'
<1> SUFFICES ASSUME CriteriaInv, PagingInv, [Next]_vars PROVE PagingInv'
  OBVIOUS
<1>1. ASSUME NEW b, Building(b) PROVE PagingInv'
  BY <1>1, NothingSeen DEF Building
<1>2. ASSUME NEW field, NEW op, NEW value, WithFilter(field, op, value) PROVE PagingInv'
  BY <1>1, <1>2 DEF WithFilter
<1>3. ASSUME NEW a, AddOperatorFilter(a.field, a.op, a.value) PROVE PagingInv'
  BY <1>2, <1>3 DEF AddOperatorFilter
<1>4. ASSUME NEW a,
             \/ AddEqualFilter(a.field, a.value) \/ AddLikeFilter(a.field, a.value)
             \/ AddInFilter(a.field, a.value) \/ AddUUIDFilter(a.field, a.value)
             \/ AddBoolFilter(a.field, a.value)
      PROVE  PagingInv'
  BY <1>2, <1>4 DEF AddEqualFilter, AddLikeFilter, AddInFilter, AddUUIDFilter, AddBoolFilter
<1>5. ASSUME NEW a, WithOrder(a.field, a.dir) \/ SetOrder(a.field, a.dir) PROVE PagingInv'
  BY <1>1, <1>5 DEF WithOrder, SetOrder
<1>6. ASSUME NEW a, WithPagination(a.page, a.size) PROVE PagingInv'
  BY <1>1, <1>6 DEF WithPagination
<1>7. ASSUME NEW q, FromURLValues(q) PROVE PagingInv'
  BY <1>1, <1>7 DEF FromURLValues
<1>8. CASE Build
  BY <1>8, NothingSeen DEF Build
<1>9. ASSUME NEW fields, ValidateAndSanitizeCriteria(fields) \/ ValidateAndSanitize(fields)
      PROVE  PagingInv'
  BY <1>9, NothingSeen DEF ValidateAndSanitizeCriteria, ValidateAndSanitize
<1>10. CASE FirstPage
  <2> DEFINE size == crit.pagination.pageSize  n == Len(AllPages(crit))
  <2>1. stage # "paging" /\ GoodCriteria(crit) /\ ReadPage(1)
    BY <1>10 DEF FirstPage, CriteriaInv
  <2>2. size \in Nat \ {0}
    BY <2>1, PageAndSize, PageSizeAssumption
  <2>3. n \in Nat
    BY <2>1, AllPagesFacts DEF GoodCriteria
  <2> HIDE DEF size
  <2>4. (1 - 1) * size = 0 /\ 0 < n + size
    BY <2>2, <2>3
  <2>5. seen = SubSeq(AllPages(crit), 1, 0)
    BY <2>1, SubSeqEmpty DEF PagingInv
  <2>6. seen = ReadUpTo(crit, (1 - 1) * size)
    BY <2>3, <2>4, <2>5 DEF ReadUpTo, Least
  <2> QED BY <2>1, <2>4, <2>6, OnePageMore DEF size
<1>11. CASE NextPage
  <2> DEFINE size == crit.pagination.pageSize  page == crit.pagination.page
             n == Len(AllPages(crit))
  <2>1. stage = "paging" /\ GoodCriteria(crit) /\ page =< TotalPages /\ ReadPage(page + 1)
    BY <1>11 DEF NextPage, CriteriaInv
  <2>2. size \in Nat \ {0} /\ page \in Nat \ {0} /\ page + 1 \in Nat \ {0}
    BY <2>1, PageAndSize, PageSizeAssumption
  <2>3. seen = ReadUpTo(crit, page * size) /\ (page - 1) * size < n + size
    BY <2>1 DEF PagingInv
  <2>4. (page - 1) * size < n
    BY <2>1, <2>2, <2>3, TotalOfPages
  <2>5. n \in Nat
    BY <2>1, AllPagesFacts DEF GoodCriteria
  <2>6. page + 1 - 1 = page /\ page * size = (page - 1) * size + size /\ (page - 1) * size \in Nat
    BY <2>2, ProductFacts
  <2> HIDE DEF size, page
  <2>7. (page + 1 - 1) * size < n + size /\ seen = ReadUpTo(crit, (page + 1 - 1) * size)
    BY <2>2, <2>3, <2>4, <2>5, <2>6
  <2> QED BY <2>1, <2>2, <2>7, OnePageMore DEF size
<1>12. CASE Finish
  BY <1>12 DEF Finish, PagingInv
<1>13. CASE UNCHANGED vars
  BY <1>13 DEF vars, PagingInv, ReadUpTo, AllPages, Matching
<1> QED BY <1>2, <1>3, <1>4, <1>5, <1>6, <1>7, <1>8, <1>9, <1>10, <1>11, <1>12, <1>13 DEF Next

(***************************************************************************)
(* What a client has read is what comes first in the sorted answer, page   *)
(* by page (ApplyInMemory).                                                *)
(***************************************************************************)
THEOREM PagingInvHolds == Spec => []PagingInv
<1>1. CriteriaInv /\ CriteriaInv' /\ PagingInv /\ [Next]_vars => PagingInv'
  BY PagingStep
<1> QED BY <1>1, PagingInit, CriteriaInvHolds, PTL DEF Spec

\* PagesPartition follows from the two invariants.
LEMMA PartitionInState == CriteriaInv /\ PagingInv => PagesPartition
<1> SUFFICES ASSUME CriteriaInv, PagingInv, stage = "paging"
             PROVE  LET p == crit.pagination
                        matches == {item \in ToSet(Items) : MatchesFilter(item, crit.filters)}
                    IN /\ \A i, j \in DOMAIN seen : i < j =>
                            /\ seen[i] # seen[j]
                            /\ ~LessByOrders(seen[j], seen[i], crit.orders)
                       /\ p.page < TotalPages => Len(seen) = p.page * p.pageSize
                       /\ p.page >= TotalPages => ToSet(seen) = matches
  BY DEF PagesPartition
<1> DEFINE size == crit.pagination.pageSize  page == crit.pagination.page
           t == AllPages(crit)  n == Len(t)  end == page * size
           matches == {item \in ToSet(Items) : MatchesFilter(item, crit.filters)}
<1>1. GoodCriteria(crit) /\ crit.orders \in Seq(Order) /\ crit.orders # <<>>
  BY DEF CriteriaInv, GoodCriteria
<1>2. size \in Nat \ {0} /\ page \in Nat \ {0} /\ page + 1 \in Nat
  BY <1>1, PageAndSize, PageSizeAssumption
<1>3. seen = ReadUpTo(crit, end) /\ (page - 1) * size < n + size
  BY DEF PagingInv
<1>4. /\ t \in Seq(ToSet(Items)) /\ ToSet(t) = matches /\ n \in Nat
      /\ \A i, j \in 1 .. n : i < j => /\ t[i] # t[j]
                                       /\ ~LessByOrders(t[j], t[i], crit.orders)
  BY <1>1, AllPagesFacts
<1>5. page + 1 =< TotalPages <=> (page + 1 - 1) * size < n
  <2>1. \A q \in Nat : q =< TotalPages <=> (q - 1) * size < n
    BY <1>1, <1>3, TotalOfPages
  <2> QED BY <1>2, <2>1
<1>6. end \in Nat
  BY <1>2, ProductFacts
<1>7. TotalPages \in Int
  <2>1. ApplyInMemory(Items, crit).total \in Nat
    BY MatchingFacts DEF ApplyInMemory, Matching
  <2> QED BY <1>2, <2>1 DEF TotalPages, GetTotalPages
<1>8. page < TotalPages <=> end < n
  BY <1>2, <1>5, <1>7
<1> DEFINE k == Least(end, n)
<1>9. k \in 0 .. n /\ (end < n => k = end) /\ (~(end < n) => k = n)
  BY <1>4, <1>6 DEF Least
<1>10. seen = SubSeq(t, 1, k)
  BY <1>3 DEF ReadUpTo
<1> HIDE DEF t, k, end, matches
<1>11. /\ seen \in Seq(ToSet(Items)) /\ Len(seen) = k
       /\ \A i \in 1 .. k : seen[i] = t[i]
  <2>1. \A i \in 1 .. k : t[i] \in ToSet(Items)
    BY <1>4, <1>9
  <2>2. /\ seen \in Seq(ToSet(Items)) /\ Len(seen) = IF 1 =< k THEN k - 1 + 1 ELSE 0
        /\ \A i \in 1 .. k - 1 + 1 : seen[i] = t[1 + i - 1]
    BY <1>9, <1>10, <2>1, SubSeqProperties
  <2> QED BY <1>9, <2>2
<1>12. ASSUME NEW i \in DOMAIN seen, NEW j \in DOMAIN seen, i < j
       PROVE  seen[i] # seen[j] /\ ~LessByOrders(seen[j], seen[i], crit.orders)
  <2>1. i \in 1 .. n /\ j \in 1 .. n /\ seen[i] = t[i] /\ seen[j] = t[j]
    BY <1>9, <1>11, <1>12
  <2> QED BY <1>4, <1>12, <2>1
<1>13. page < TotalPages => Len(seen) = end
  BY <1>8, <1>9, <1>11
<1>14. page >= TotalPages => ToSet(seen) = matches
  <2> SUFFICES ASSUME page >= TotalPages PROVE ToSet(seen) = matches
    OBVIOUS
  <2>1. k = n
    BY <1>2, <1>7, <1>8, <1>9
  <2>2. seen = t
    BY <1>4, <1>10, <2>1, SubSeqFull
  <2> QED BY <1>4, <2>2
<1> QED BY <1>12, <1>13, <1>14 DEF end, matches

(***************************************************************************)
(* A client that reads page after page gets every match once and in order, *)
(* for every number of rows, of orders and every page size (NewPagination, *)
(* ApplyInMemory, GetTotalPages).                                          *)
(***************************************************************************)
THEOREM CriteriaPagesPartition == Spec => []PagesPartition
BY CriteriaInvHolds, PagingInvHolds, PartitionInState, PTL

=============================================================================
