----------------------------- MODULE RecursionProof -----------------------------
(***************************************************************************)
(* Loops over a list are written as functions on 0 .. n: what there is     *)
(* after the first k passes.  What the proofs about such loops need of the *)
(* numbers: that induction up to n is sound and that such a function is    *)
(* there and is what its definition says.                                  *)
(***************************************************************************)
EXTENDS Integers, WellFoundedInduction, TLAPS

\* A set of naturals with a member has a least one.
LEMMA LeastOf ==
  ASSUME NEW T \in SUBSET Nat, T # {}
  PROVE  \E m \in T : \A n \in T : m <= n
<1>. DEFINE Before == {p \in Nat \X Nat : p[1] < p[2]}
<1>1. IsWellFoundedOn(Before, Nat)
  BY NatLessThanWellFounded DEF OpToRel
<1>. HIDE DEF Before
<1>2. PICK m \in T : \A n \in T : <<n, m>> \notin Before
  BY <1>1, WFMin
<1>3. ASSUME NEW n \in T PROVE m <= n
  <2>1. n \in Nat /\ m \in Nat /\ <<n, m>> \notin Before
    BY <1>2
  <2>2. <<n, m>> \in Before <=> n < m
    BY <2>1 DEF Before
  <2>. QED  BY <2>1, <2>2
<1>. QED  BY <1>3

\* What holds before a loop of n passes and is kept by each of them holds after each.
LEMMA UpTo ==
  ASSUME NEW n \in Nat, NEW S, 0 \in S, \A k \in 1 .. n : k - 1 \in S => k \in S
  PROVE  \A k \in 0 .. n : k \in S
<1>. SUFFICES ASSUME NEW c \in 0 .. n, c \notin S PROVE FALSE
  OBVIOUS
<1>. DEFINE T == {k \in 0 .. n : k \notin S}
<1>1. T \in SUBSET Nat /\ T # {}
  OBVIOUS
<1>2. PICK m \in T : \A k \in T : m <= k
  BY <1>1, LeastOf
<1>3. m \in 1 .. n /\ m - 1 \in 0 .. n /\ m - 1 \notin T
  BY <1>2
<1>. QED  BY <1>2, <1>3

\* f[k] is what there is after k of n passes, s[k] what the k-th does to what was before it.
Passes(f, n, a, s) == f[0] = a /\ \A k \in 1 .. n : f[k] = s[k][f[k-1]]

\* The values of a loop of n passes: s[k] is what the k-th one does to the value before.
LEMMA LoopOf ==
  ASSUME NEW n \in Nat, NEW X, NEW a \in X, NEW s \in [1 .. n -> [X -> X]]
  PROVE  \E f \in [0 .. n -> X] : Passes(f, n, a, s)
<1>. DEFINE S == {m \in 0 .. n : \E f \in [0 .. m -> X] : Passes(f, m, a, s)}
<1>1. 0 \in S
  <2>1. PICK z : z = [k \in 0 .. 0 |-> a]
    OBVIOUS
  <2>2. z \in [0 .. 0 -> X] /\ Passes(z, 0, a, s)
    BY <2>1 DEF Passes
  <2>. QED  BY <2>2
<1>2. ASSUME NEW m \in 1 .. n, m - 1 \in S PROVE m \in S
  <2>1. PICK f \in [0 .. m - 1 -> X] : Passes(f, m - 1, a, s)
    BY <1>2
  <2>2. PICK y : y = s[m][f[m-1]]
    OBVIOUS
  <2>3. y \in X /\ f[m-1] \in X
    BY <2>1, <2>2
  <2>4. PICK g : g = [k \in 0 .. m |-> IF k = m THEN y ELSE f[k]]
    OBVIOUS
  <2>5. g \in [0 .. m -> X] /\ g[0] = a
    BY <2>1, <2>3, <2>4 DEF Passes
  <2>6. ASSUME NEW k \in 1 .. m PROVE g[k] = s[k][g[k-1]]
    <3>1. g[k-1] = f[k-1]
      BY <2>4
    <3>2. CASE k = m
      BY <3>1, <3>2, <2>2, <2>4
    <3>3. CASE k # m
      <4>1. k \in 1 .. m - 1 /\ g[k] = f[k]
        BY <3>3, <2>4
      <4>. QED  BY <4>1, <3>1, <2>1 DEF Passes
    <3>. QED  BY <3>2, <3>3
  <2>7. Passes(g, m, a, s)
    BY <2>5, <2>6 DEF Passes
  <2>. QED  BY <2>5, <2>7
<1>. HIDE DEF S
<1>3. \A m \in 1 .. n : m - 1 \in S => m \in S
  BY <1>2
<1>4. \A m \in 0 .. n : m \in S
  BY <1>1, <1>3, UpTo
<1>5. n \in S
  BY <1>4
<1>. QED  BY <1>5 DEF S
=================================================================================
