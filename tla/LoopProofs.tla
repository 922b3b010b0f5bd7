------------------------------ MODULE LoopProofs ------------------------------
(***************************************************************************)
(* What the modules of algorithms need to be proved about: induction for a *)
(* set of numbers, that the recursion of Loop() defines a function, and    *)
(* the rule for a loop with an invariant.                                  *)
(***************************************************************************)
EXTENDS Loops, WellFoundedInduction, TLAPS

------------------------------------------------------------------------------
(* Induction and recursion.                                                *)

Earlier == {p \in Nat \X Nat : p[1] < p[2]}

(* The order of the naturals, as the library has it. *)
LEMMA BelowWellFounded == IsWellFoundedOn(Earlier, Nat)
<1>1. OpToRel(<, Nat) = Earlier
    BY Zenon DEF OpToRel, Earlier
<1> QED BY <1>1, NatLessThanWellFounded, Zenon

(* Induction, for a set of naturals: what is not in it has no least member. *)
LEMMA Induction ==
    ASSUME NEW S, 0 \in S, \A n \in Nat : n \in S => n + 1 \in S
    PROVE  Nat \subseteq S
<1> DEFINE T == Nat \ S
<1> SUFFICES ASSUME T # {} PROVE FALSE
    OBVIOUS
<1>2. PICK x \in T : \A y \in T : <<y, x>> \notin Earlier
  <2>1. T \subseteq Nat
    OBVIOUS
  <2> QED BY <2>1, BelowWellFounded, WFMin, Zenon
<1>3. x \in Nat /\ x \notin S /\ x # 0
    BY <1>2
<1>4. x - 1 \in Nat /\ x - 1 < x /\ (x - 1) + 1 = x
    BY <1>3
<1>5. <<x - 1, x>> \in Earlier
    BY <1>3, <1>4 DEF Earlier
<1>6. x - 1 \in S
    BY <1>2, <1>4, <1>5
<1> QED BY <1>3, <1>4, <1>6

(* g holds what f[1], ..., f[n] leave on the way. *)
Computes(g, f, e, n) ==
    g = [i \in 0 .. n |-> IF i = 0 THEN e ELSE f[i][g[i - 1]]]

(* As far as two of them reach they agree. *)
LEMMA ComputedOnce ==
    ASSUME NEW f, NEW e, NEW m \in Nat, NEW n \in Nat, NEW g, NEW h,
           Computes(g, f, e, m), Computes(h, f, e, n)
    PROVE  \A i \in Nat : i <= m /\ i <= n => g[i] = h[i]
<1> DEFINE S == {i \in Nat : i <= m /\ i <= n => g[i] = h[i]}
<1>1. /\ \A i \in 0 .. m : g[i] = IF i = 0 THEN e ELSE f[i][g[i - 1]]
      /\ \A i \in 0 .. n : h[i] = IF i = 0 THEN e ELSE f[i][h[i - 1]]
    BY Zenon DEF Computes
<1>2. 0 \in S
  <2>1. 0 \in 0 .. m /\ 0 \in 0 .. n
    OBVIOUS
  <2> QED BY <1>1, <2>1
<1>3. ASSUME NEW i \in Nat, i \in S PROVE i + 1 \in S
  <2> SUFFICES ASSUME i + 1 <= m, i + 1 <= n PROVE g[i + 1] = h[i + 1]
    OBVIOUS
  <2>1. g[i] = h[i]
    BY <1>3
  <2>2. i + 1 \in 0 .. m /\ i + 1 \in 0 .. n /\ i + 1 # 0 /\ (i + 1) - 1 = i
    OBVIOUS
  <2>3. g[i + 1] = f[i + 1][g[(i + 1) - 1]] /\ h[i + 1] = f[i + 1][h[(i + 1) - 1]]
    BY <1>1, <2>2, Zenon
  <2> QED BY <2>1, <2>2, <2>3
<1> HIDE DEF S
<1>4. Nat \subseteq S
    BY <1>2, <1>3, Induction
<1> QED BY <1>4 DEF S

(* One reaches as far as is asked. *)
LEMMA Computable ==
    ASSUME NEW f, NEW e
    PROVE  \A n \in Nat : \E g : Computes(g, f, e, n)
<1> DEFINE S == {n \in Nat : \E g : Computes(g, f, e, n)}
<1>1. 0 \in S
  <2> DEFINE g == [i \in 0 .. 0 |-> e]
  <2>1. g = [i \in 0 .. 0 |-> IF i = 0 THEN e ELSE f[i][g[i - 1]]]
    OBVIOUS
  <2> QED BY <2>1 DEF Computes
<1>2. ASSUME NEW n \in Nat, n \in S PROVE n + 1 \in S
  <2>1. PICK g : Computes(g, f, e, n)
    BY <1>2
  <2> DEFINE h == [i \in 0 .. n + 1 |-> IF i = n + 1 THEN f[n + 1][g[n]] ELSE g[i]]
  <2>2. \A i \in 0 .. n : g[i] = IF i = 0 THEN e ELSE f[i][g[i - 1]]
    BY <2>1, Zenon DEF Computes
  <2>3. ASSUME NEW i \in 0 .. n + 1
        PROVE  h[i] = IF i = 0 THEN e ELSE f[i][h[i - 1]]
    <3>1. CASE i = n + 1
      BY <3>1
    <3>2. CASE i # n + 1
      <4>1. i \in 0 .. n
        BY <3>2
      <4>2. h[i] = g[i] /\ (i # 0 => h[i - 1] = g[i - 1])
        BY <4>1
      <4> QED BY <2>2, <4>1, <4>2
    <3> QED BY <3>1, <3>2
  <2>4. h = [i \in 0 .. n + 1 |-> IF i = 0 THEN e ELSE f[i][h[i - 1]]]
    BY <2>3
  <2>5. Computes(h, f, e, n + 1)
    BY <2>4 DEF Computes
  <2> QED BY <2>5
<1> HIDE DEF S
<1>3. Nat \subseteq S
    BY <1>1, <1>2, Induction
<1> QED BY <1>3 DEF S

(* So the recursion in Iterates() defines a function: the CHOOSE it stands for
   has something to choose. *)
LEMMA IteratesDef ==
    ASSUME NEW f, NEW e
    PROVE  \A i \in Nat : Iterates(f, e)[i] = IF i = 0 THEN e ELSE f[i][Iterates(f, e)[i - 1]]
<1> DEFINE G(n) == CHOOSE g : Computes(g, f, e, n)
           r == [i \in Nat |-> G(i)[i]]
<1>1. \A n \in Nat : Computes(G(n), f, e, n)
    BY Computable
<1>2. ASSUME NEW i \in Nat PROVE r[i] = IF i = 0 THEN e ELSE f[i][r[i - 1]]
  <2>1. G(i)[i] = IF i = 0 THEN e ELSE f[i][G(i)[i - 1]]
    <3>1. i \in 0 .. i
      OBVIOUS
    <3>2. Computes(G(i), f, e, i)
      BY <1>1
    <3> HIDE DEF G
    <3> QED BY <3>1, <3>2, Zenon DEF Computes
  <2>2. i # 0 => G(i)[i - 1] = G(i - 1)[i - 1]
    <3> SUFFICES ASSUME i # 0 PROVE G(i)[i - 1] = G(i - 1)[i - 1]
      OBVIOUS
    <3>1. i - 1 \in Nat /\ i - 1 <= i /\ i - 1 <= i - 1
      OBVIOUS
    <3>2. Computes(G(i), f, e, i) /\ Computes(G(i - 1), f, e, i - 1)
      BY <1>1, <3>1
    <3> HIDE DEF G
    <3> QED BY <3>1, <3>2, ComputedOnce
  <2> QED BY <2>1, <2>2
<1> HIDE DEF G
<1>3. r = [i \in Nat |-> IF i = 0 THEN e ELSE f[i][r[i - 1]]]
  <2>1. r = [i \in Nat |-> r[i]]
    OBVIOUS
  <2> HIDE DEF r
  <2>2. [i \in Nat |-> r[i]] = [i \in Nat |-> IF i = 0 THEN e ELSE f[i][r[i - 1]]]
    BY <1>2
  <2> QED BY <2>1, <2>2
<1> DEFINE R == CHOOSE r_1 : r_1 = [i \in Nat |-> IF i = 0 THEN e ELSE f[i][r_1[i - 1]]]
<1> HIDE DEF r
<1>4. R = [i \in Nat |-> IF i = 0 THEN e ELSE f[i][R[i - 1]]]
    BY <1>3, Zenon
<1>5. Iterates(f, e) = R
    BY Zenon DEF Iterates
<1> HIDE DEF R
<1> QED BY <1>4, <1>5

(* A loop of no statements, and of one more. *)
LEMMA LoopDef ==
    ASSUME NEW f, NEW e
    PROVE  /\ Loop(f, e, 0) = e
           /\ \A n \in Nat : Loop(f, e, n + 1) = f[n + 1][Loop(f, e, n)]
<1>1. \A i \in Nat : Iterates(f, e)[i] = IF i = 0 THEN e ELSE f[i][Iterates(f, e)[i - 1]]
    BY IteratesDef
<1>2. ASSUME NEW n \in Nat PROVE n + 1 \in Nat /\ n + 1 # 0 /\ (n + 1) - 1 = n
    OBVIOUS
<1> QED BY <1>1, <1>2 DEF Loop

(* What holds before a loop and is handed on by each of its statements. *)
LEMMA LoopInvariant ==
    ASSUME NEW f, NEW e, NEW n \in Nat, NEW T, e \in T[0],
           \A i \in 0 .. n - 1 : \A a \in T[i] : f[i + 1][a] \in T[i + 1]
    PROVE  \A i \in 0 .. n : Loop(f, e, i) \in T[i]
<1> DEFINE S == {i \in Nat : i <= n => Loop(f, e, i) \in T[i]}
<1>1. 0 \in S
    BY LoopDef
<1>2. ASSUME NEW i \in Nat, i \in S PROVE i + 1 \in S
  <2> SUFFICES ASSUME i + 1 <= n PROVE Loop(f, e, i + 1) \in T[i + 1]
      OBVIOUS
  <2>1. i \in 0 .. n - 1 /\ Loop(f, e, i) \in T[i]
      BY <1>2
  <2>2. Loop(f, e, i + 1) = f[i + 1][Loop(f, e, i)]
    <3> HIDE DEF S
    <3> QED BY LoopDef, ZenonT(40)
  <2> QED BY <2>1, <2>2
<1> HIDE DEF S
<1>3. Nat \subseteq S
    BY <1>1, <1>2, Induction
<1> QED BY <1>3 DEF S

------------------------------------------------------------------------------
(* Sequences computed element by element.                                  *)

(* A function on 1 .. n is a sequence. *)
LEMMA SeqOfFunction ==
    ASSUME NEW S, NEW n \in Nat, NEW p \in [1 .. n -> S]
    PROVE  p \in Seq(S) /\ Len(p) = n
OBVIOUS

(* Tabulated() changes nothing. *)
LEMMA TabulatedIs ==
    ASSUME NEW S, NEW n \in Nat, NEW p \in [1 .. n -> S]
    PROVE  Tabulated(p) \in Seq(S) /\ Len(Tabulated(p)) = n /\ \A i \in 1 .. n : Tabulated(p)[i] = p[i]
<1>1. p \in Seq(S) /\ Len(p) = n /\ <<>> \in Seq(S) /\ Len(<<>>) = 0
    BY SeqOfFunction
<1> QED BY <1>1 DEF Tabulated
(* On a range of places a tabulated sequence is the function it was. *)
LEMMA TabulatedFunction ==
    ASSUME NEW S, NEW n \in Nat, NEW p \in [1 .. n -> S]
    PROVE  Tabulated(p) = p
<1>1. Tabulated(p) \in Seq(S) /\ Len(Tabulated(p)) = n /\ \A i \in 1 .. n : Tabulated(p)[i] = p[i]
    BY TabulatedIs
<1> DEFINE t == Tabulated(p)
<1> HIDE DEF t
<1>2. t \in Seq(S) /\ Len(t) = n
    BY <1>1 DEF t
<1>3. t \in [1 .. n -> S]
    BY <1>2
<1>4. \A i \in 1 .. n : t[i] = p[i]
    BY <1>1 DEF t
<1>5. t = p
    BY <1>3, <1>4
<1> QED BY <1>5 DEF t
==============================================================================
