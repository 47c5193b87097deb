----------------------------- MODULE Recursion -----------------------------
(***************************************************************************)
(* Induction and definition by recursion over the naturals, stated so that *)
(* the proofs about Framing, MacroblockCoder and StreamSource can cite     *)
(* them: with sets and functions where the library has operators.          *)
(***************************************************************************)
EXTENDS Naturals, WellFoundedInduction, TLAPS

(***************************************************************************)
(* Induction over the naturals, for a set instead of a predicate.          *)
(***************************************************************************)
LEMMA NatSetInduction ==
  ASSUME NEW S, 0 \in S, \A n \in Nat : n \in S => n + 1 \in S
  PROVE  \A n \in Nat : n \in S
<1> DEFINE T == {n \in Nat : n \notin S}
           R == OpToRel(<, Nat)
<1>1. SUFFICES ASSUME T # {} PROVE FALSE
  OBVIOUS
<1>2. IsWellFoundedOn(R, Nat)
  BY NatLessThanWellFounded
<1>3. \A i, j \in Nat : i < j => <<i, j>> \in R
  BY DEF OpToRel
<1> HIDE DEF R
<1>4. PICK m \in T : \A y \in T : <<y, m>> \notin R
  BY <1>1, <1>2, WFMin
<1>5. m # 0
  OBVIOUS
<1>6. m - 1 \in Nat /\ m - 1 < m
  BY <1>5
<1>7. m - 1 \in S
  BY <1>3, <1>4, <1>6
<1> QED
  BY <1>6, <1>7

(***************************************************************************)
(* Definition by recursion: a step that is a function has a function that  *)
(* iterates it.                                                            *)
(***************************************************************************)
HasIteration(S, s0, step) ==
  \E f \in [Nat -> S] :
    /\ f[0] = s0
    /\ \A n \in Nat : f[n + 1] = step[<<n, f[n]>>]

LEMMA Iteration ==
  \A S : \A s0 \in S, step \in [Nat \X S -> S] : HasIteration(S, s0, step)
<1> SUFFICES ASSUME NEW S, NEW s0 \in S, NEW step \in [Nat \X S -> S]
             PROVE  \E f \in [Nat -> S] :
                      /\ f[0] = s0
                      /\ \A n \in Nat : f[n + 1] = step[<<n, f[n]>>]
  BY DEF HasIteration
<1> DEFINE Follows(n, f) == /\ f[0] = s0
                            /\ \A i \in 0 .. n - 1 : f[i + 1] = step[<<i, f[i]>>]
           Defined == {n \in Nat : \E f \in [0 .. n -> S] : Follows(n, f)}
<1>1. \A n \in Nat : n \in Defined
  <2>1. 0 \in Defined
    <3>1. [i \in 0 .. 0 |-> s0] \in [0 .. 0 -> S] /\ Follows(0, [i \in 0 .. 0 |-> s0])
      OBVIOUS
    <3> QED
      BY <3>1
  <2>2. ASSUME NEW n \in Nat, n \in Defined
        PROVE  n + 1 \in Defined
    <3>1. PICK f \in [0 .. n -> S] : Follows(n, f)
      BY <2>2
    <3> DEFINE g == [i \in 0 .. n + 1 |-> IF i <= n THEN f[i] ELSE step[<<n, f[n]>>]]
    <3>2. f[n] \in S
      OBVIOUS
    <3>3. g \in [0 .. n + 1 -> S]
      BY <3>2
    <3>4. ASSUME NEW i \in 0 .. n
          PROVE  g[i + 1] = step[<<i, g[i]>>]
      <4>1. i \in 0 .. n + 1 /\ i + 1 \in 0 .. n + 1 /\ i <= n
        OBVIOUS
      <4>2. g[i] = f[i]
        BY <4>1
      <4>3. CASE i = n
        <5>1. g[i + 1] = step[<<n, f[n]>>]
          BY <4>1, <4>3
        <5> QED
          BY <4>2, <4>3, <5>1
      <4>4. CASE i # n
        <5>1. i \in 0 .. n - 1 /\ i + 1 <= n
          BY <4>4
        <5>2. g[i + 1] = f[i + 1]
          BY <4>1, <5>1
        <5>3. f[i + 1] = step[<<i, f[i]>>]
          BY <3>1, <5>1
        <5> QED
          BY <4>2, <5>2, <5>3
      <4> QED
        BY <4>3, <4>4
    <3>5. g[0] = s0
      <4>1. 0 \in 0 .. n + 1 /\ 0 <= n
        OBVIOUS
      <4>2. g[0] = f[0]
        BY <4>1
      <4> QED
        BY <3>1, <4>2
    <3> HIDE DEF g
    <3>6. Follows(n + 1, g)
      <4>1. (n + 1) - 1 = n
        OBVIOUS
      <4> QED
        BY <3>4, <3>5, <4>1
    <3> HIDE DEF Follows
    <3>7. \E f1 \in [0 .. n + 1 -> S] : Follows(n + 1, f1)
      BY <3>3, <3>6
    <3> QED
      BY <3>7
  <2> HIDE DEF Defined
  <2> QED
    BY <2>1, <2>2, NatSetInduction
<1>2. \A n, m \in Nat : \A f \in [0 .. n -> S], g \in [0 .. m -> S] :
        n <= m /\ Follows(n, f) /\ Follows(m, g) => f[n] = g[n]
  <2> DEFINE Agree == {n \in Nat : \A m \in Nat :
                         \A f \in [0 .. n -> S], g \in [0 .. m -> S] :
                           n <= m /\ Follows(n, f) /\ Follows(m, g) => f[n] = g[n]}
  <2>1. 0 \in Agree
    OBVIOUS
  <2>2. ASSUME NEW n \in Nat, n \in Agree
        PROVE  n + 1 \in Agree
    <3> SUFFICES ASSUME NEW m \in Nat, NEW f \in [0 .. n + 1 -> S],
                        NEW g \in [0 .. m -> S], n + 1 <= m,
                        Follows(n + 1, f), Follows(m, g)
                 PROVE  f[n + 1] = g[n + 1]
      OBVIOUS
    <3> DEFINE h == [i \in 0 .. n |-> f[i]]
    <3>1. h \in [0 .. n -> S] /\ Follows(n, h)
      OBVIOUS
    <3>2. h[n] = g[n]
      <4>1. \A f1 \in [0 .. n -> S], g1 \in [0 .. m -> S] :
              n <= m /\ Follows(n, f1) /\ Follows(m, g1) => f1[n] = g1[n]
        BY <2>2
      <4>2. n <= m
        OBVIOUS
      <4> HIDE DEF Follows, h
      <4> QED
        BY <3>1, <4>1, <4>2
    <3>3. f[n + 1] = step[<<n, f[n]>>] /\ g[n + 1] = step[<<n, g[n]>>]
      OBVIOUS
    <3> QED
      BY <3>2, <3>3
  <2>3. \A n \in Nat : n \in Agree
    <3> HIDE DEF Agree
    <3> QED
      BY <2>1, <2>2, NatSetInduction
  <2> QED
    BY <2>3
<1> DEFINE Approx(n) == CHOOSE f \in [0 .. n -> S] : Follows(n, f)
           F == [n \in Nat |-> Approx(n)[n]]
<1>3. \A n \in Nat : Approx(n) \in [0 .. n -> S] /\ Follows(n, Approx(n))
  BY <1>1
<1> HIDE DEF Approx
<1>4. F \in [Nat -> S]
  BY <1>3
<1>5. F[0] = s0
  BY <1>3
<1>6. ASSUME NEW n \in Nat
      PROVE  F[n + 1] = step[<<n, F[n]>>]
  <2>1. Approx(n + 1)[n + 1] = step[<<n, Approx(n + 1)[n]>>]
    BY <1>3
  <2>2. Approx(n)[n] = Approx(n + 1)[n]
    <3>1. n + 1 \in Nat /\ n <= n + 1
      OBVIOUS
    <3> HIDE DEF Follows
    <3>2. \A f \in [0 .. n -> S], g \in [0 .. n + 1 -> S] :
            Follows(n, f) /\ Follows(n + 1, g) => f[n] = g[n]
      BY <1>2, <3>1
    <3> QED
      BY <1>3, <3>1, <3>2
  <2> QED
    BY <2>1, <2>2
<1> QED
  BY <1>4, <1>5, <1>6

(***************************************************************************)
(* The recursive functions the models are written with have a value: one   *)
(* that is defined from its predecessor, for the positions of a sequence.  *)
(***************************************************************************)
HasRecursion(S, s0, n, step) ==
  \E f \in [0 .. n -> S] :
    /\ f[0] = s0
    /\ \A i \in 1 .. n : f[i] = step[<<i, f[i - 1]>>]

LEMMA FiniteRecursion ==
  ASSUME NEW S, NEW s0 \in S, NEW n \in Nat, NEW step \in [(1 .. n) \X S -> S]
  PROVE  HasRecursion(S, s0, n, step)
<1> DEFINE next == [p \in Nat \X S |-> IF p[1] < n THEN step[<<p[1] + 1, p[2]>>] ELSE s0]
<1>1. next \in [Nat \X S -> S]
  <2>1. ASSUME NEW i \in Nat, NEW x \in S
        PROVE  (IF i < n THEN step[<<i + 1, x>>] ELSE s0) \in S
    <3>1. CASE i < n
      <4>1. i + 1 \in 1 .. n
        BY <3>1
      <4> QED
        BY <3>1, <4>1
    <3> QED
      BY <3>1
  <2> QED
    BY <2>1
<1>2. PICK g \in [Nat -> S] : g[0] = s0 /\ \A i \in Nat : g[i + 1] = next[<<i, g[i]>>]
  <2> HIDE DEF next
  <2>1. HasIteration(S, s0, next)
    BY <1>1, Iteration
  <2> QED
    BY <2>1 DEF HasIteration
<1> DEFINE f == [i \in 0 .. n |-> g[i]]
<1>3. f \in [0 .. n -> S] /\ f[0] = s0
  BY <1>2
<1>4. ASSUME NEW i \in 1 .. n
      PROVE  f[i] = step[<<i, f[i - 1]>>]
  <2>1. i - 1 \in Nat /\ (i - 1) + 1 = i /\ i - 1 < n /\ i \in 0 .. n /\ i - 1 \in 0 .. n
    OBVIOUS
  <2>2. g[i] = next[<<i - 1, g[i - 1]>>]
    BY <1>2, <2>1
  <2>3. next[<<i - 1, g[i - 1]>>] = step[<<i, g[i - 1]>>]
    BY <1>2, <2>1
  <2> QED
    BY <2>1, <2>2, <2>3
<1> QED
  BY <1>3, <1>4 DEF HasRecursion
=============================================================================
