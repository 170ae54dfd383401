--------------------------- MODULE NatRecursion ---------------------------
(***************************************************************************)
(* Induction and recursion over the natural numbers, stated with sets      *)
(* instead of predicates, so that the provers can use them: the lemmas     *)
(* behind every theorem about a recursive function of the models.          *)
(***************************************************************************)
EXTENDS Naturals, WellFoundedInduction, TLAPS

(* A set with 0 that is closed under successor has every number.            *)
LEMMA NatSetInduction ==
    ASSUME NEW S, 0 \in S, \A n \in Nat : n \in S => n + 1 \in S
    PROVE  Nat \subseteq S
  <1> DEFINE Less == {ss \in Nat \X Nat : ss[1] < ss[2]}
             T == Nat \ S
  <1>1. SUFFICES ASSUME T # {} PROVE FALSE
    OBVIOUS
  <1>2. IsWellFoundedOn(Less, Nat) /\ T \subseteq Nat
    BY NatLessThanWellFounded DEF OpToRel
  <1> HIDE DEF Less
  <1>3. PICK x \in T : \A y \in T : ~ (<<y, x>> \in Less)
    <2> HIDE DEF T
    <2> QED
      BY <1>1, <1>2, WFMin
  <1>4. x # 0 /\ x \in Nat /\ x - 1 \in Nat
    OBVIOUS
  <1>5. x - 1 \in T
    BY <1>4
  <1>6. <<x - 1, x>> \in Less
    <2>1. <<x - 1, x>> \in Nat \X Nat
      BY <1>4
    <2>2. <<x - 1, x>>[1] = x - 1 /\ <<x - 1, x>>[2] = x /\ x - 1 < x
      BY <1>4
    <2> QED
      BY <2>1, <2>2 DEF Less
  <1> QED
    BY <1>3, <1>5, <1>6

(* f starts with b, and F[n] leads from f[n] to f[n + 1].                   *)
Iterates(f, T, b, F) ==
    /\ f \in [Nat -> T]
    /\ f[0] = b
    /\ \A n \in Nat : f[n + 1] = F[n][f[n]]

(* A value for 0 and a step from each number to the next define a function. *)
LEMMA IterationExists ==
    ASSUME NEW T, NEW b \in T, NEW F \in [Nat -> [T -> T]]
    PROVE  \E f : Iterates(f, T, b, F)
  <1> DEFINE Up(n) == {g \in [0 .. n -> T] :
                          g[0] = b /\ \A k \in 0 .. n - 1 : g[k + 1] = F[k][g[k]]}
             Same == {k \in Nat : \A n, m \in Nat : \A g \in Up(n), h \in Up(m) :
                                     k <= n /\ k <= m => g[k] = h[k]}
             There == {n \in Nat : Up(n) # {}}
  <1>0. \A n \in Nat : \A g : g \in Up(n) <=>
              /\ g \in [0 .. n -> T] /\ g[0] = b
              /\ \A k \in 0 .. n - 1 : g[k + 1] = F[k][g[k]]
    OBVIOUS
  <1> HIDE DEF Up
  <1>1. Nat \subseteq Same
    <2>1. 0 \in Same
      BY <1>0
    <2>2. ASSUME NEW k \in Nat, k \in Same
          PROVE  k + 1 \in Same
      <3> SUFFICES ASSUME NEW n \in Nat, NEW m \in Nat, NEW g \in Up(n), NEW h \in Up(m),
                          k + 1 <= n, k + 1 <= m
                   PROVE  g[k + 1] = h[k + 1]
        OBVIOUS
      <3>1. g[k] = h[k]
        <4>1. k <= n /\ k <= m
          OBVIOUS
        <4> QED
          BY <2>2, <4>1
      <3>2. k \in 0 .. n - 1 /\ k \in 0 .. m - 1
        OBVIOUS
      <3>3. g[k + 1] = F[k][g[k]] /\ h[k + 1] = F[k][h[k]]
        BY <1>0, <3>2
      <3> QED
        BY <3>1, <3>3
    <2> HIDE DEF Same
    <2> QED
      BY <2>1, <2>2, NatSetInduction
  <1>2. Nat \subseteq There
    <2>1. 0 \in There
      <3>1. [k \in 0 .. 0 |-> b] \in Up(0)
        <4> DEFINE g == [k \in 0 .. 0 |-> b]
        <4>1. g \in [0 .. 0 -> T] /\ g[0] = b /\ 0 .. 0 - 1 = {}
          OBVIOUS
        <4> HIDE DEF g
        <4>2. g \in Up(0)
          BY <1>0, <4>1
        <4> QED
          BY <4>2 DEF g
      <3> QED
        BY <3>1
    <2>2. ASSUME NEW n \in Nat, n \in There
          PROVE  n + 1 \in There
      <3>1. PICK g : g \in Up(n)
        BY <2>2
      <3>2. g[n] \in T /\ F[n][g[n]] \in T
        <4>1. g \in [0 .. n -> T] /\ n \in 0 .. n
          BY <1>0, <3>1
        <4> HIDE DEF Up
        <4>2. g[n] \in T
          BY <4>1
        <4> QED
          BY <4>2
      <3> DEFINE h == [k \in 0 .. n + 1 |-> IF k = n + 1 THEN F[n][g[n]] ELSE g[k]]
      <3>3. h \in [0 .. n + 1 -> T] /\ h[0] = b
        BY <1>0, <3>1, <3>2
      <3>4. ASSUME NEW k \in 0 .. n
            PROVE  h[k + 1] = F[k][h[k]]
        <4>1. CASE k = n
          BY <4>1
        <4>2. CASE k # n
          <5>1. k \in 0 .. n - 1 /\ k + 1 \in 0 .. n /\ k + 1 # n + 1 /\ k # n + 1
            BY <4>2
          <5> QED
            BY <1>0, <3>1, <5>1
        <4> QED
          BY <4>1, <4>2
      <3>5. h \in Up(n + 1)
        <4>1. n + 1 - 1 = n
          OBVIOUS
        <4> HIDE DEF h
        <4> QED
          BY <1>0, <3>3, <3>4, <4>1
      <3> QED
        BY <3>5
    <2> HIDE DEF There
    <2> QED
      BY <2>1, <2>2, NatSetInduction
  <1> DEFINE c(n) == CHOOSE g : g \in Up(n)
             f == [n \in Nat |-> c(n)[n]]
  <1>3. \A n \in Nat : c(n) \in Up(n)
    BY <1>2
  <1> HIDE DEF c
  <1>4. f \in [Nat -> T] /\ f[0] = b
    BY <1>0, <1>3
  <1>5. ASSUME NEW n \in Nat
        PROVE  f[n + 1] = F[n][f[n]]
    <2>1. c(n + 1) \in Up(n + 1) /\ c(n) \in Up(n) /\ n + 1 \in Nat
      BY <1>3
    <2>2. n \in 0 .. n + 1 - 1
      OBVIOUS
    <2>3. c(n + 1)[n + 1] = F[n][c(n + 1)[n]]
      BY <1>0, <2>1, <2>2
    <2>4. c(n + 1)[n] = c(n)[n]
      <3>1. n <= n + 1 /\ n <= n /\ n \in Same
        BY <1>1
      <3> QED
        BY <2>1, <3>1
    <2> QED
      BY <2>3, <2>4
  <1> QED
    BY <1>4, <1>5 DEF Iterates

(* f starts with b, and F[k] leads from f[k - 1] to f[k], for k up to n.    *)
IteratesTo(f, n, T, b, F) ==
    /\ f \in [0 .. n -> T]
    /\ f[0] = b
    /\ \A k \in 1 .. n : f[k] = F[k][f[k - 1]]

(* A value for 0 and a step up to each number below n + 1 define a function.*)
LEMMA BoundedIterationExists ==
    ASSUME NEW n \in Nat, NEW T, NEW b \in T, NEW F \in [1 .. n -> [T -> T]]
    PROVE  \E f : IteratesTo(f, n, T, b, F)
  <1> DEFINE G == [k \in Nat |-> IF k < n THEN F[k + 1] ELSE [x \in T |-> x]]
  <1>1. G \in [Nat -> [T -> T]]
    OBVIOUS
  <1>2. PICK g : Iterates(g, T, b, G)
    <2> HIDE DEF G
    <2> QED
      BY <1>1, IterationExists
  <1> DEFINE f == [k \in 0 .. n |-> g[k]]
  <1>3. f \in [0 .. n -> T] /\ f[0] = b
    BY <1>2 DEF Iterates
  <1>4. ASSUME NEW k \in 1 .. n
        PROVE  f[k] = F[k][f[k - 1]]
    <2>1. k - 1 \in Nat /\ k - 1 < n /\ k - 1 + 1 = k /\ k - 1 \in 0 .. n /\ k \in 0 .. n
      OBVIOUS
    <2>2. g[k] = G[k - 1][g[k - 1]] /\ G[k - 1] = F[k]
      BY <1>2, <2>1 DEF Iterates
    <2> QED
      BY <2>1, <2>2
  <1> QED
    BY <1>3, <1>4 DEF IteratesTo
=============================================================================
