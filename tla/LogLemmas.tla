----------------------------- MODULE LogLemmas -----------------------------
(* Lists that grow at their end. *)
EXTENDS SequenceTheorems, WellFoundedInduction, TLAPS

\* Induction over positions takes the form of a least counterexample.
LEMMA LeastElement ==
    ASSUME NEW S \in SUBSET Nat, S # {}
    PROVE  \E m \in S : \A k \in S : m <= k
<1>1. IsWellFoundedOn(OpToRel(<, Nat), Nat)
  BY NatLessThanWellFounded
<1>2. PICK m \in S : \A y \in S : <<y, m>> \notin OpToRel(<, Nat)
  BY <1>1, WFMin
<1>3. \A y \in S : ~(y < m)
  BY <1>2 DEF OpToRel
<1>4. QED
  BY <1>3

\* What a list holds after an append: all it held, and the new element last.
LEMMA AppendGrows ==
    ASSUME NEW S, NEW s \in Seq(S), NEW r
    PROVE  /\ Append(s, r) \in Seq(S \cup {r})
           /\ Len(s) \in Nat /\ DOMAIN s = 1..Len(s)
           /\ DOMAIN Append(s, r) = 1..(Len(s) + 1)
           /\ \A i \in 1..Len(s) : Append(s, r)[i] = s[i]
           /\ Append(s, r)[Len(s) + 1] = r
<1>1. s \in Seq(S \cup {r})
  BY SeqMonotonic
<1>2. QED
  BY <1>1, AppendProperties, LenProperties

\* A definition by recursion on places below the present one: the value at i is
\* h[i] of the value at up[i].  The step is a function, as a lemma cannot take an
\* operator.
Recursion(N, V, up, h) ==
    /\ up \in [1..N -> Nat] /\ h \in [1..N -> [V -> V]]
    /\ \A i \in 1..N : up[i] < i

Recursive(f, N, V, v0, up, h) ==
    /\ f \in [0..N -> V] /\ f[0] = v0
    /\ \A i \in 1..N : f[i] = h[i][f[up[i]]]

\* Such a definition has a solution.
LEMMA RecursionBelow ==
    ASSUME NEW N \in Nat, NEW V, NEW v0 \in V, NEW up, NEW h, Recursion(N, V, up, h)
    PROVE  \E f : Recursive(f, N, V, v0, up, h)
<1> USE DEF Recursion
<1> DEFINE Solves(f, n) == /\ f \in [0..n -> V] /\ f[0] = v0
                           /\ \A i \in 1..n : f[i] = h[i][f[up[i]]]
           Unsolved == {n \in 0..N : ~\E f : Solves(f, n)}
<1>1. SUFFICES ASSUME Unsolved # {} PROVE FALSE
  <2>1. N \in 0..N
    OBVIOUS
  <2>2. N \notin Unsolved => \E f : Solves(f, N)
    BY <2>1
  <2> HIDE DEF Unsolved
  <2>3. QED
    BY <2>2 DEF Recursive
<1>2. Unsolved \in SUBSET Nat
  OBVIOUS
<1>3. PICK m \in Unsolved : \A k \in Unsolved : m <= k
  BY <1>1, <1>2, LeastElement
<1>4. m # 0
  <2> DEFINE e == [i \in 0..0 |-> v0]
  <2>1. Solves(e, 0)
    OBVIOUS
  <2>2. QED
    BY <2>1
<1>5. m \in 1..N /\ m - 1 \in 0..N /\ m - 1 \notin Unsolved
  <2>1. m \in 0..N
    OBVIOUS
  <2> HIDE DEF Unsolved
  <2>2. QED
    BY <1>3, <1>4, <2>1
<1>6. PICK f : Solves(f, m - 1)
  BY <1>5
<1> DEFINE g == [i \in 0..m |-> IF i = m THEN h[m][f[up[m]]] ELSE f[i]]
<1>7. \A i \in 1..m : up[i] \in 0..(m - 1) /\ up[i] # m
  BY <1>5
<1>8. h[m][f[up[m]]] \in V
  BY <1>5, <1>6, <1>7
<1>9. g \in [0..m -> V] /\ g[0] = v0
  BY <1>5, <1>6, <1>8
<1>10. ASSUME NEW i \in 1..m PROVE g[i] = h[i][g[up[i]]]
  <2>1. g[up[i]] = f[up[i]]
    BY <1>5, <1>7
  <2>2. CASE i = m
    BY <2>1, <2>2
  <2>3. CASE i # m
    <3>1. i \in 1..(m - 1) /\ g[i] = f[i]
      BY <1>5, <2>3
    <3>2. QED
      BY <1>6, <2>1, <3>1
  <2>4. QED
    BY <2>2, <2>3
<1>11. Solves(g, m)
  BY <1>9, <1>10
<1>12. ~\E e : Solves(e, m)
  BY <1>3
<1>13. QED
  BY <1>11, <1>12
==============================================================================
