-------------------------- MODULE ReedSolomonProofs --------------------------
(***************************************************************************)
(* The decoder of RS-FEC.h is right: for every field, every length of      *)
(* message and redundancy that DecodeBlock() accepts, all messages and all *)
(* errors, and whatever an earlier block left in the coder.                *)
(*                                                                         *)
(* Part 1 is namespace gf, what the arithmetic of GaloisField does.  The   *)
(* laws of a field come from the tables.  Sums, polynomials by their       *)
(* coefficients and their values, and division follow, and from them the   *)
(* two facts that a Reed-Solomon code rests on: a polynomial has no more   *)
(* roots than its degree, and few weights are found by few power sums.     *)
(*                                                                         *)
(* Part 2 is the coder.  A codeword vanishes at the powers of 2, so the    *)
(* syndromes are the power sums of the errors.  The rounds of              *)
(* Berlekamp-Massey keep a recurrence, and its length never exceeds the    *)
(* number of errors, so that the locator vanishes where the errors are;    *)
(* the search finds its roots, and Forney's quotient is what the air added *)
(* at each of them.                                                        *)
(***************************************************************************)
EXTENDS ReedSolomon, LoopProofs, FiniteSetTheorems

(***************************************************************************)
(* Part 1: the field.                                                      *)
(***************************************************************************)

------------------------------------------------------------------------------
(* Remainders.                                                             *)

(* A remainder is found by taking multiples away. *)
LEMMA ModUnique ==
    ASSUME NEW n \in Nat, n > 1, NEW q \in Int, NEW r \in 0 .. n - 1
    PROVE  (n * q + r) % n = r
OBVIOUS

(* A remainder may be taken before adding. *)
LEMMA ModAdd ==
    ASSUME NEW n \in Nat, n > 1, NEW a \in Int, NEW b \in Int
    PROVE  ((a % n) + b) % n = (a + b) % n
<1> DEFINE q == a \div n
           c == (a % n) + b
           s == c \div n
           r == c % n
<1>1. a = (n * q) + (a % n) /\ q \in Int /\ a % n \in 0 .. n - 1
    OBVIOUS
<1>2. c \in Int /\ a + b = n * q + c
    BY <1>1
<1>3. c = (n * s) + r /\ s \in Int /\ r \in 0 .. n - 1
    BY <1>2
<1>4. q \in Int
    BY <1>1
<1>5. c % n = r
    OBVIOUS
<1> HIDE DEF q, c, s, r
<1>6. a + b = n * (q + s) + r /\ q + s \in Int
    BY <1>2, <1>3, <1>4
<1>7. (a + b) % n = r
    BY <1>3, <1>6, ModUnique
<1> QED BY <1>5, <1>7 DEF c

(* What is needed of remainders by Order. *)
LEMMA ModOrder ==
    /\ \A a \in Int : a % Order \in 0 .. Order - 1
    /\ \A a \in 0 .. Order - 1 : a % Order = a
    /\ \A a \in 0 .. Order - 1 : (a + Order) % Order = a
    /\ \A a, b \in Int : ((a % Order) + b) % Order = (a + b) % Order
<1>0. Order \in Nat /\ Order > 1
    BY TableAssumption
<1>1. \A a \in Int : a % Order \in 0 .. Order - 1
    BY <1>0
<1>2. \A a \in 0 .. Order - 1 : a % Order = a
    BY <1>0
<1>3. ASSUME NEW a \in 0 .. Order - 1 PROVE (a + Order) % Order = a
  <2>1. a + Order = Order * 1 + a
      BY <1>0
  <2> QED BY <1>0, <2>1, ModUnique
<1>4. \A a, b \in Int : ((a % Order) + b) % Order = (a + b) % Order
    BY <1>0, ModAdd
<1> QED BY <1>1, <1>2, <1>3, <1>4

------------------------------------------------------------------------------
(* The field.                                                              *)

NonZero == 1 .. Order

(* Which numbers are symbols, and which of them are not zero. *)
LEMMA SymbolsFacts ==
    /\ 0 \in Symbols /\ 1 \in Symbols /\ 2 \in Symbols
    /\ 1 \in NonZero /\ 2 \in NonZero
    /\ \A x \in Symbols : x # 0 <=> x \in NonZero
    /\ NonZero \subseteq Symbols
    BY TableAssumption DEF Symbols, NonZero

(* The tables take a non-zero symbol to its exponent and back. *)
LEMMA LogFacts ==
    /\ \A x \in NonZero : log(x) \in 0 .. Order - 1 /\ exp(log(x)) = x
    /\ \A i \in 0 .. 2 * Order : exp(i) \in NonZero /\ log(exp(i)) = i % Order
    /\ log(1) = 0 /\ log(2) = 1
<1>1. /\ \A x \in NonZero : log(x) \in 0 .. Order - 1 /\ exp(log(x)) = x
      /\ \A i \in 0 .. 2 * Order : exp(i) \in NonZero /\ log(exp(i)) = i % Order
      /\ Order \in Nat /\ Order > 1 /\ exp(0) = 1 /\ exp(1) = 2
    BY TableAssumption DEF NonZero
<1>2. 0 \in 0 .. 2 * Order /\ 1 \in 0 .. 2 * Order /\ 0 \in 0 .. Order - 1 /\ 1 \in 0 .. Order - 1
    BY <1>1
<1>3. log(exp(0)) = 0 /\ log(exp(1)) = 1
    BY <1>1, <1>2, ModOrder
<1> QED BY <1>1, <1>3

(* Symbols of one logarithm are one. *)
LEMMA LogInjective ==
    ASSUME NEW x \in NonZero, NEW y \in NonZero, log(x) = log(y) PROVE x = y
    BY LogFacts

(* A product of non-zero symbols: its logarithm is the sum. *)
LEMMA LogMul ==
    ASSUME NEW x \in NonZero, NEW y \in NonZero
    PROVE  mul(x, y) \in NonZero /\ log(mul(x, y)) = (log(x) + log(y)) % Order
<1>1. x # 0 /\ y # 0
    BY DEF NonZero
<1>2. mul(x, y) = exp(log(x) + log(y))
    BY <1>1 DEF mul
<1>3. log(x) \in 0 .. Order - 1 /\ log(y) \in 0 .. Order - 1
    BY LogFacts
<1>4. log(x) + log(y) \in 0 .. 2 * Order
    BY <1>3, TableAssumption
<1> QED BY <1>2, <1>4, LogFacts

(* What mul() does: a product by zero. *)
LEMMA MulZero == \A x : mul(0, x) = 0 /\ mul(x, 0) = 0
    BY DEF mul

(* mul() stays inside the field. *)
LEMMA MulType == \A x, y \in Symbols : mul(x, y) \in Symbols
<1> SUFFICES ASSUME NEW x \in Symbols, NEW y \in Symbols PROVE mul(x, y) \in Symbols
    OBVIOUS
<1>1. CASE x = 0 \/ y = 0
    BY <1>1, MulZero, SymbolsFacts
<1>2. CASE x # 0 /\ y # 0
    BY <1>2, LogMul, SymbolsFacts
<1> QED BY <1>1, <1>2

(* No zero divisors. *)
LEMMA MulNonZero == \A x, y \in Symbols : mul(x, y) = 0 => x = 0 \/ y = 0
<1> SUFFICES ASSUME NEW x \in Symbols, NEW y \in Symbols, x # 0, y # 0 PROVE mul(x, y) # 0
    OBVIOUS
<1>1. mul(x, y) \in NonZero
    BY LogMul, SymbolsFacts
<1> QED BY <1>1, SymbolsFacts

(* 1 is neutral for mul(). *)
LEMMA MulOne == \A x \in Symbols : mul(1, x) = x /\ mul(x, 1) = x
<1> SUFFICES ASSUME NEW x \in Symbols PROVE mul(1, x) = x /\ mul(x, 1) = x
    OBVIOUS
<1>1. CASE x = 0
    BY <1>1, MulZero
<1>2. CASE x # 0
  <2>1. x \in NonZero /\ 1 \in NonZero /\ 1 # 0
      BY <1>2, SymbolsFacts
  <2>2. log(x) \in 0 .. Order - 1 /\ exp(log(x)) = x /\ log(1) = 0
      BY <2>1, LogFacts
  <2>3. log(1) + log(x) = log(x) /\ log(x) + log(1) = log(x)
      BY <2>2, TableAssumption
  <2> QED BY <1>2, <2>1, <2>2, <2>3 DEF mul
<1> QED BY <1>1, <1>2

(* mul() commutes. *)
LEMMA MulComm == \A x, y \in Symbols : mul(x, y) = mul(y, x)
<1> SUFFICES ASSUME NEW x \in Symbols, NEW y \in Symbols, x # 0, y # 0
             PROVE  mul(x, y) = mul(y, x)
    BY MulZero
<1>1. log(x) + log(y) = log(y) + log(x)
    BY LogFacts, SymbolsFacts, TableAssumption
<1> QED BY <1>1 DEF mul

(* mul() associates: exponents add up. *)
LEMMA MulAssoc == \A x, y, z \in Symbols : mul(x, mul(y, z)) = mul(mul(x, y), z)
<1> SUFFICES ASSUME NEW x \in Symbols, NEW y \in Symbols, NEW z \in Symbols,
                    x # 0, y # 0, z # 0
             PROVE  mul(x, mul(y, z)) = mul(mul(x, y), z)
    BY MulZero
<1>1. x \in NonZero /\ y \in NonZero /\ z \in NonZero
    BY SymbolsFacts
<1> DEFINE a == log(x)
           b == log(y)
           c == log(z)
           yz == mul(y, z)
           xy == mul(x, y)
<1>2. a \in Int /\ b \in Int /\ c \in Int
    BY <1>1, LogFacts, TableAssumption
<1>3. yz \in NonZero /\ log(yz) = (b + c) % Order
    BY <1>1, LogMul
<1>4. xy \in NonZero /\ log(xy) = (a + b) % Order
    BY <1>1, LogMul
<1>5. mul(x, yz) \in NonZero /\ log(mul(x, yz)) = (a + log(yz)) % Order
    BY <1>1, <1>3, LogMul
<1>6. mul(xy, z) \in NonZero /\ log(mul(xy, z)) = (log(xy) + c) % Order
    BY <1>1, <1>4, LogMul
<1> HIDE DEF a, b, c, yz, xy
<1>7. (a + ((b + c) % Order)) % Order = (((b + c) % Order) + a) % Order
  <2>1. (b + c) % Order \in Int
      BY <1>2, ModOrder, b + c \in Int, TableAssumption
  <2>2. a + ((b + c) % Order) = ((b + c) % Order) + a
      BY <1>2, <2>1
  <2> QED BY <2>2
<1>8. (((b + c) % Order) + a) % Order = (b + c + a) % Order
    BY <1>2, ModOrder, b + c \in Int
<1>9. (((a + b) % Order) + c) % Order = (a + b + c) % Order
    BY <1>2, ModOrder, a + b \in Int
<1>10. b + c + a = a + b + c
    BY <1>2
<1>11. log(mul(x, yz)) = log(mul(xy, z))
    BY <1>3, <1>4, <1>5, <1>6, <1>7, <1>8, <1>9, <1>10
<1>12. mul(x, yz) = mul(xy, z)
    BY <1>5, <1>6, <1>11, LogInjective
<1> QED BY <1>12 DEF yz, xy

(* Exponents count doublings. *)
LEMMA ExpStep ==
    ASSUME NEW k \in Nat, k + 1 < Order
    PROVE  exp(k) \in NonZero /\ exp(k + 1) = mul(2, exp(k))
<1>1. k \in 0 .. 2 * Order /\ k \in 0 .. Order - 1 /\ k + 1 = 1 + k
    BY TableAssumption
<1>2. exp(k) \in NonZero /\ log(exp(k)) = k
    BY <1>1, LogFacts, ModOrder
<1>3. exp(k) # 0 /\ 2 # 0
    BY <1>2 DEF NonZero
<1> QED BY <1>1, <1>2, <1>3, LogFacts DEF mul

(* Multiplication by a power of 2 distributes because doubling does; and every
   non-zero symbol is a power of 2. *)
LEMMA MulDistributes ==
    \A x, y, z \in Symbols : mul(z, Add(x, y)) = Add(mul(z, x), mul(z, y))
<1> DEFINE Distributes(z) == \A x, y \in Symbols : mul(z, Add(x, y)) = Add(mul(z, x), mul(z, y))
           S == {k \in Nat : k < Order => Distributes(exp(k))}
<1>1. 0 \in S
  <2>1. exp(0) = 1
      BY TableAssumption
  <2>2. Distributes(1)
      BY MulOne, AddAssumption
  <2> QED BY <2>1, <2>2
<1>2. ASSUME NEW k \in Nat, k \in S PROVE k + 1 \in S
  <2> SUFFICES ASSUME k + 1 < Order, NEW x \in Symbols, NEW y \in Symbols
               PROVE  mul(exp(k + 1), Add(x, y)) = Add(mul(exp(k + 1), x), mul(exp(k + 1), y))
      OBVIOUS
  <2> DEFINE z == exp(k)
  <2>1. z \in Symbols /\ exp(k + 1) = mul(2, z)
      BY ExpStep, SymbolsFacts
  <2>2. mul(z, Add(x, y)) = Add(mul(z, x), mul(z, y))
      BY <1>2, TableAssumption
  <2> HIDE DEF z
  <2>3. /\ mul(z, x) \in Symbols /\ mul(z, y) \in Symbols
        /\ Add(x, y) \in Symbols /\ 2 \in Symbols
      BY <2>1, MulType, AddAssumption, SymbolsFacts
  <2>4. mul(mul(2, z), Add(x, y)) = mul(2, Add(mul(z, x), mul(z, y)))
      BY <2>1, <2>2, <2>3, MulAssoc
  <2>5. mul(2, Add(mul(z, x), mul(z, y))) = Add(mul(2, mul(z, x)), mul(2, mul(z, y)))
      BY <2>3, AddAssumption
  <2>6. mul(2, mul(z, x)) = mul(mul(2, z), x) /\ mul(2, mul(z, y)) = mul(mul(2, z), y)
      BY <2>1, <2>3, MulAssoc
  <2> QED BY <2>1, <2>4, <2>5, <2>6
<1> HIDE DEF S
<1>3. Nat \subseteq S
    BY <1>1, <1>2, Induction
<1>4. ASSUME NEW z \in NonZero PROVE Distributes(z)
  <2>1. log(z) \in Nat /\ log(z) < Order /\ exp(log(z)) = z
      BY LogFacts, TableAssumption
  <2>2. log(z) \in S
      BY <1>3, <2>1
  <2> QED BY <2>1, <2>2 DEF S
<1>5. Distributes(0)
    BY MulZero, AddAssumption, SymbolsFacts
<1> QED BY <1>4, <1>5, SymbolsFacts

(* inverse() and div() undo mul(). *)
LEMMA InverseFacts ==
    ASSUME NEW x \in NonZero
    PROVE  inverse(x) \in NonZero /\ mul(x, inverse(x)) = 1
<1> DEFINE l == log(x)
           j == Order - l
           i == exp(j)
<1>1. l \in 0 .. Order - 1 /\ Order \in Nat /\ Order > 1
    BY LogFacts, TableAssumption
<1>2. j \in 0 .. 2 * Order /\ j \in Int /\ j + l = Order /\ l \in Int
    BY <1>1
<1>3. i \in NonZero /\ log(i) = j % Order
    BY <1>2, LogFacts
<1>4. mul(i, x) \in NonZero /\ log(mul(i, x)) = (log(i) + l) % Order
    BY <1>3, LogMul
<1>5. inverse(x) = i
    BY DEF inverse
<1> HIDE DEF i, j, l
<1>6. log(mul(i, x)) = Order % Order
    BY <1>2, <1>3, <1>4, ModOrder
<1>7. Order % Order = 0
    BY <1>1, ModOrder, 0 \in 0 .. Order - 1, 0 + Order = Order
<1>8. mul(i, x) = 1
    BY <1>4, <1>6, <1>7, LogInjective, LogFacts, SymbolsFacts
<1> QED BY <1>3, <1>5, <1>8, MulComm, SymbolsFacts

(* div() multiplies by the inverse. *)
LEMMA DivFacts ==
    ASSUME NEW x \in Symbols, NEW y \in NonZero
    PROVE  div(x, y) = mul(x, inverse(y))
<1>1. CASE x = 0
    BY <1>1, MulZero DEF div
<1>2. CASE x # 0
  <2> DEFINE a == log(x)
             b == log(y)
             j == Order - b
             i == exp(j)
  <2>1. /\ a \in 0 .. Order - 1 /\ b \in 0 .. Order - 1 /\ Order \in Nat /\ Order > 1
        /\ x \in NonZero
      BY <1>2, LogFacts, SymbolsFacts, TableAssumption
  <2>2. /\ j \in 0 .. 2 * Order /\ j \in Int /\ a \in Int
        /\ a + Order - b = j + a /\ j + a \in Int
      BY <2>1
  <2>3. i \in NonZero /\ log(i) = j % Order
      BY <2>2, LogFacts
  <2>4. mul(i, x) \in NonZero /\ log(mul(i, x)) = (log(i) + a) % Order
      BY <2>1, <2>3, LogMul
  <2>5. inverse(y) = i /\ div(x, y) = exp((a + Order - b) % Order)
      BY <1>2 DEF inverse, div
  <2> HIDE DEF a, b, i, j
  <2>6. log(mul(i, x)) = (j + a) % Order
      BY <2>2, <2>3, <2>4, ModOrder
  <2>7. exp(log(mul(i, x))) = mul(i, x)
      BY <2>4, LogFacts
  <2>8. mul(i, x) = mul(x, i)
      BY <2>1, <2>3, MulComm, SymbolsFacts
  <2> QED BY <2>2, <2>5, <2>6, <2>7, <2>8
<1> QED BY <1>1, <1>2

(* div(), inverse() and pow() return symbols even where the code asserts. *)
LEMMA DivType == \A x, y \in Symbols : div(x, y) \in Symbols
<1> SUFFICES ASSUME NEW x \in Symbols, NEW y \in Symbols, x # 0 PROVE div(x, y) \in Symbols
    BY SymbolsFacts DEF div
<1>1. log(x) \in Int /\ log(y) \in Int /\ Order \in Nat
    BY TableAssumption, LogFacts, SymbolsFacts
<1> DEFINE a == log(x) + Order - log(y)
<1>2. a \in Int
    BY <1>1
<1> HIDE DEF a
<1>3. a % Order \in 0 .. Order - 1
    BY <1>2, ModOrder
<1>4. exp(a % Order) \in Symbols
  <2>1. a % Order \in 0 .. 2 * Order
      BY <1>1, <1>3
  <2> QED BY <2>1, LogFacts, SymbolsFacts
<1> QED BY <1>4 DEF div, a

(* Addition: what of its laws is used below. *)
LEMMA AddLaws ==
    /\ \A x, y \in Symbols : Add(x, y) \in Symbols /\ Add(x, y) = Add(y, x)
    /\ \A x, y, z \in Symbols : Add(x, Add(y, z)) = Add(Add(x, y), z)
    /\ \A x \in Symbols : Add(x, 0) = x /\ Add(0, x) = x /\ Add(x, x) = 0
<1>1. \A x \in Symbols : Add(0, x) = Add(x, 0)
    BY AddAssumption, SymbolsFacts
<1> QED BY <1>1, AddAssumption

(* Addition undoes itself. *)
LEMMA AddCancel ==
    /\ \A x, y \in Symbols : Add(Add(x, y), y) = x
    /\ \A x, y \in Symbols : Add(x, y) = 0 => x = y
<1>1. ASSUME NEW x \in Symbols, NEW y \in Symbols PROVE Add(Add(x, y), y) = x
  <2>1. Add(x, Add(y, y)) = Add(Add(x, y), y) /\ Add(y, y) = 0 /\ Add(x, 0) = x
      BY AddLaws
  <2> QED BY <2>1
<1>2. ASSUME NEW x \in Symbols, NEW y \in Symbols, Add(x, y) = 0 PROVE x = y
  <2>1. Add(0, y) = x /\ Add(0, y) = y
      BY <1>1, <1>2, AddLaws
  <2> QED BY <2>1
<1> QED BY <1>1, <1>2

(* Two sums of two, added crosswise. *)
LEMMA AddCross ==
    \A a, b, c, d \in Symbols : Add(Add(a, b), Add(c, d)) = Add(Add(a, c), Add(b, d))
<1> SUFFICES ASSUME NEW a \in Symbols, NEW b \in Symbols, NEW c \in Symbols, NEW d \in Symbols
             PROVE  Add(Add(a, b), Add(c, d)) = Add(Add(a, c), Add(b, d))
    OBVIOUS
<1>1. Add(c, d) \in Symbols /\ Add(b, d) \in Symbols /\ Add(b, c) \in Symbols /\ Add(c, b) \in Symbols
    BY AddLaws
<1>2. Add(Add(a, b), Add(c, d)) = Add(a, Add(b, Add(c, d)))
    BY <1>1, AddLaws
<1>3. Add(b, Add(c, d)) = Add(Add(b, c), d) /\ Add(c, Add(b, d)) = Add(Add(c, b), d)
    BY AddLaws
<1>4. Add(b, c) = Add(c, b)
    BY AddLaws
<1>5. Add(Add(a, c), Add(b, d)) = Add(a, Add(c, Add(b, d)))
    BY <1>1, AddLaws
<1> QED BY <1>2, <1>3, <1>4, <1>5

------------------------------------------------------------------------------
(* Powers and sums.                                                        *)

Power(x, n) == Loop([i \in Nat |-> [y \in Symbols |-> mul(y, x)]], 1, n)

(* The powers of x, one after another. *)
LEMMA PowerDef ==
    ASSUME NEW x \in Symbols
    PROVE  /\ Power(x, 0) = 1
           /\ \A n \in Nat : Power(x, n) \in Symbols /\ Power(x, n + 1) = mul(Power(x, n), x)
<1> DEFINE f == [i \in Nat |-> [y \in Symbols |-> mul(y, x)]]
           S == {n \in Nat : Power(x, n) \in Symbols}
<1>1. Loop(f, 1, 0) = 1 /\ \A n \in Nat : Loop(f, 1, n + 1) = f[n + 1][Loop(f, 1, n)]
  <2> HIDE DEF f
  <2> QED BY LoopDef, ZenonT(40)
<1>2. \A n \in Nat : Power(x, n) = Loop(f, 1, n)
    BY Zenon DEF Power
<1>3. \A n \in Nat : \A y \in Symbols : f[n + 1][y] = mul(y, x)
    OBVIOUS
<1> HIDE DEF f
<1>4. Power(x, 0) = 1
    BY <1>1, <1>2
<1>5. \A n \in Nat : Power(x, n) \in Symbols => Power(x, n + 1) = mul(Power(x, n), x)
    BY <1>1, <1>2, <1>3
<1>6. 0 \in S /\ \A n \in Nat : n \in S => n + 1 \in S
    BY <1>4, <1>5, MulType, SymbolsFacts
<1> HIDE DEF S
<1>7. Nat \subseteq S
    BY <1>6, Induction
<1> QED BY <1>4, <1>5, <1>7 DEF S

(* Powers of what is not zero are not. *)
LEMMA PowerNonZero ==
    ASSUME NEW x \in NonZero PROVE \A n \in Nat : Power(x, n) \in NonZero
<1> DEFINE S == {n \in Nat : Power(x, n) \in NonZero}
<1>1. x \in Symbols
    BY SymbolsFacts
<1>2. 0 \in S
    BY <1>1, PowerDef, SymbolsFacts
<1>3. \A n \in Nat : n \in S => n + 1 \in S
    BY <1>1, PowerDef, LogMul
<1> HIDE DEF S
<1>4. Nat \subseteq S
    BY <1>2, <1>3, Induction
<1> QED BY <1>4 DEF S

(* Exponents add up. *)
LEMMA PowerAdd ==
    ASSUME NEW x \in Symbols, NEW m \in Nat
    PROVE  \A n \in Nat : Power(x, m + n) = mul(Power(x, m), Power(x, n))
<1> DEFINE S == {n \in Nat : Power(x, m + n) = mul(Power(x, m), Power(x, n))}
<1>1. 0 \in S
  <2>1. m + 0 = m
      OBVIOUS
  <2> QED BY <2>1, PowerDef, MulOne
<1>2. ASSUME NEW n \in Nat, n \in S PROVE n + 1 \in S
  <2>1. m + n \in Nat /\ m + (n + 1) = (m + n) + 1
      OBVIOUS
  <2>2. Power(x, (m + n) + 1) = mul(Power(x, m + n), x)
      BY <2>1, PowerDef
  <2>3. Power(x, n + 1) = mul(Power(x, n), x)
      BY PowerDef
  <2>4. mul(Power(x, m), mul(Power(x, n), x)) = mul(mul(Power(x, m), Power(x, n)), x)
      BY PowerDef, MulAssoc
  <2> QED BY <1>2, <2>1, <2>2, <2>3, <2>4
<1> HIDE DEF S
<1>3. Nat \subseteq S
    BY <1>1, <1>2, Induction
<1> QED BY <1>3 DEF S

(* A power of a power. *)
LEMMA PowerPower ==
    ASSUME NEW x \in Symbols, NEW m \in Nat
    PROVE  \A n \in Nat : Power(Power(x, m), n) = Power(x, m * n)
<1> DEFINE S == {n \in Nat : Power(Power(x, m), n) = Power(x, m * n)}
<1>0. Power(x, m) \in Symbols
    BY PowerDef
<1>1. 0 \in S
  <2>1. m * 0 = 0
      OBVIOUS
  <2> QED BY <1>0, <2>1, PowerDef
<1>2. ASSUME NEW n \in Nat, n \in S PROVE n + 1 \in S
  <2>1. m * n \in Nat /\ m * (n + 1) = m * n + m
      OBVIOUS
  <2>2. Power(Power(x, m), n + 1) = mul(Power(Power(x, m), n), Power(x, m))
      BY <1>0, PowerDef
  <2>3. Power(x, m * n + m) = mul(Power(x, m * n), Power(x, m))
      BY <2>1, PowerAdd
  <2> QED BY <1>2, <2>1, <2>2, <2>3
<1> HIDE DEF S
<1>3. Nat \subseteq S
    BY <1>1, <1>2, Induction
<1> QED BY <1>3 DEF S

(* pow() of 2 is that, for every exponent. *)
LEMMA PowOfTwo ==
    \A n \in Nat : pow(2, n) = Power(2, n) /\ pow(2, n) \in NonZero
<1> DEFINE S == {n \in Nat : pow(2, n) = Power(2, n)}
<1>0. Order \in Nat /\ Order > 1 /\ 2 \in Symbols /\ 2 \in NonZero
    BY TableAssumption, SymbolsFacts
<1>1. ASSUME NEW n \in Nat
      PROVE  pow(2, n) = exp(n % Order) /\ n % Order \in 0 .. Order - 1 /\ n \in Int
  <2>1. n \in Int /\ 1 * n = n
      OBVIOUS
  <2> QED BY <2>1, LogFacts, ModOrder DEF pow
<1>2. 0 \in S
  <2>1. 0 % Order = 0
      BY <1>0, ModOrder
  <2> QED BY <1>0, <1>1, <2>1, PowerDef, TableAssumption
<1>3. ASSUME NEW n \in Nat, n \in S PROVE n + 1 \in S
  <2> DEFINE r == n % Order
  <2>1. r \in 0 .. Order - 1 /\ r \in Int /\ pow(2, n) = exp(r)
      BY <1>0, <1>1
  <2>2. (r + 1) % Order = (n + 1) % Order
      BY ModOrder
  <2> HIDE DEF r
  <2>3. r % Order = r
      BY <2>1, ModOrder
  <2>4. r \in 0 .. 2 * Order
      BY <1>0, <2>1
  <2>5. exp(r) \in NonZero /\ log(exp(r)) = r
      BY <2>4, <2>3, LogFacts
  <2>6. /\ mul(exp(r), 2) \in NonZero
        /\ log(mul(exp(r), 2)) = (r + 1) % Order
      BY <1>0, <2>5, LogMul, LogFacts
  <2>7. mul(exp(r), 2) = exp((n + 1) % Order)
      BY <2>2, <2>6, LogFacts
  <2>8. Power(2, n + 1) = mul(Power(2, n), 2)
      BY <1>0, PowerDef
  <2>9. pow(2, n + 1) = exp((n + 1) % Order)
      BY <1>1
  <2> QED BY <1>3, <2>1, <2>7, <2>8, <2>9
<1> HIDE DEF S
<1>4. Nat \subseteq S
    BY <1>2, <1>3, Induction
<1> QED BY <1>0, <1>4, PowerNonZero DEF S

(* The exponents of a block name different powers. *)
LEMMA PowInjective ==
    ASSUME NEW m \in 0 .. Order - 1, NEW n \in 0 .. Order - 1, pow(2, m) = pow(2, n)
    PROVE  m = n
<1>0. Order \in Nat /\ Order > 1
    BY TableAssumption
<1>1. ASSUME NEW k \in 0 .. Order - 1 PROVE log(pow(2, k)) = k
  <2>1. k \in Int /\ 1 * k = k /\ k \in 0 .. 2 * Order
      BY <1>0
  <2>2. k % Order = k
      BY ModOrder
  <2> QED BY <2>1, <2>2, LogFacts DEF pow
<1> QED BY <1>1

(* An exponent less Order is as good as the exponent. *)
LEMMA PowLessOrder ==
    ASSUME NEW n \in 0 .. Order - 1 PROVE pow(2, n - Order) = pow(2, n)
<1>0. Order \in Nat /\ Order > 1
    BY TableAssumption
<1>1. n - Order = Order * (0 - 1) + n /\ 0 - 1 \in Int
    BY <1>0
<1>2. (n - Order) % Order = n
    BY <1>0, <1>1, ModUnique
<1>3. 1 * (n - Order) = n - Order /\ 1 * n = n
    BY <1>0
<1>4. n % Order = n
    BY ModOrder
<1> QED BY <1>2, <1>3, <1>4, LogFacts DEF pow

Total(f, n) == Loop([i \in Nat |-> [s \in Symbols |-> Add(s, f[i - 1])]], 0, n)

Families == [Nat -> Symbols]

(* The sum, one term after another. *)
LEMMA SumDef ==
    ASSUME NEW f \in Families
    PROVE  /\ Total(f, 0) = 0
           /\ \A n \in Nat : Total(f, n) \in Symbols /\ Total(f, n + 1) = Add(Total(f, n), f[n])
<1> DEFINE g == [i \in Nat |-> [s \in Symbols |-> Add(s, f[i - 1])]]
           S == {n \in Nat : Total(f, n) \in Symbols}
<1>1. Loop(g, 0, 0) = 0 /\ \A n \in Nat : Loop(g, 0, n + 1) = g[n + 1][Loop(g, 0, n)]
  <2> HIDE DEF g
  <2> QED BY LoopDef, ZenonT(40)
<1>2. \A n \in Nat : Total(f, n) = Loop(g, 0, n)
    BY Zenon DEF Total
<1>3. ASSUME NEW n \in Nat, NEW s \in Symbols PROVE g[n + 1][s] = Add(s, f[n])
  <2>1. n + 1 \in Nat /\ (n + 1) - 1 = n
      OBVIOUS
  <2> QED BY <2>1
<1> HIDE DEF g
<1>4. Total(f, 0) = 0
    BY <1>1, <1>2
<1>5. \A n \in Nat : Total(f, n) \in Symbols => Total(f, n + 1) = Add(Total(f, n), f[n])
    BY <1>1, <1>2, <1>3
<1>6. 0 \in S /\ \A n \in Nat : n \in S => n + 1 \in S
    BY <1>4, <1>5, AddLaws, SymbolsFacts DEF Families
<1> HIDE DEF S
<1>7. Nat \subseteq S
    BY <1>6, Induction
<1> QED BY <1>4, <1>5, <1>7 DEF S

(* The sum of one term. *)
LEMMA SumOne == ASSUME NEW f \in Families PROVE Total(f, 1) = f[0]
<1>1. Total(f, 0 + 1) = Add(0, f[0]) /\ f[0] \in Symbols
    BY SumDef DEF Families
<1> QED BY <1>1, AddLaws

(* A sum depends on its terms only, and of zeros it is zero. *)
LEMMA SumEqual ==
    ASSUME NEW f \in Families, NEW g \in Families, NEW n \in Nat,
           \A i \in 0 .. n - 1 : f[i] = g[i]
    PROVE  Total(f, n) = Total(g, n)
<1> DEFINE S == {k \in Nat : k <= n => Total(f, k) = Total(g, k)}
<1>1. 0 \in S
    BY SumDef
<1>2. ASSUME NEW k \in Nat, k \in S PROVE k + 1 \in S
  <2> SUFFICES ASSUME k + 1 <= n PROVE Total(f, k + 1) = Total(g, k + 1)
      OBVIOUS
  <2>1. Total(f, k) = Total(g, k) /\ k \in 0 .. n - 1
      BY <1>2
  <2> QED BY <2>1, SumDef
<1> HIDE DEF S
<1>3. Nat \subseteq S
    BY <1>1, <1>2, Induction
<1> QED BY <1>3 DEF S

(* The sum of zeros. *)
LEMMA SumZero ==
    ASSUME NEW f \in Families, NEW n \in Nat, \A i \in 0 .. n - 1 : f[i] = 0
    PROVE  Total(f, n) = 0
<1> DEFINE S == {k \in Nat : k <= n => Total(f, k) = 0}
<1>1. 0 \in S
    BY SumDef
<1>2. ASSUME NEW k \in Nat, k \in S PROVE k + 1 \in S
  <2> SUFFICES ASSUME k + 1 <= n PROVE Total(f, k + 1) = 0
      OBVIOUS
  <2>1. Total(f, k) = 0 /\ k \in 0 .. n - 1
      BY <1>2
  <2>2. Total(f, k + 1) = Add(0, 0)
      BY <2>1, SumDef
  <2> QED BY <2>2, AddLaws, SymbolsFacts
<1> HIDE DEF S
<1>3. Nat \subseteq S
    BY <1>1, <1>2, Induction
<1> QED BY <1>3 DEF S

(* Only one term that is not zero. *)
LEMMA SumSingle ==
    ASSUME NEW f \in Families, NEW n \in Nat, NEW m \in 0 .. n - 1,
           \A i \in 0 .. n - 1 : i # m => f[i] = 0
    PROVE  Total(f, n) = f[m]
<1> DEFINE S == {k \in Nat : k <= n => Total(f, k) = IF k <= m THEN 0 ELSE f[m]}
<1>1. 0 \in S
    BY SumDef
<1>2. ASSUME NEW k \in Nat, k \in S PROVE k + 1 \in S
  <2> SUFFICES ASSUME k + 1 <= n
               PROVE  Total(f, k + 1) = IF k + 1 <= m THEN 0 ELSE f[m]
      OBVIOUS
  <2>1. /\ k \in 0 .. n - 1 /\ Total(f, k + 1) = Add(Total(f, k), f[k])
        /\ Total(f, k) = IF k <= m THEN 0 ELSE f[m]
      BY <1>2, SumDef
  <2>2. f[m] \in Symbols /\ f[k] \in Symbols /\ 0 \in Symbols
      BY SymbolsFacts DEF Families
  <2>3. CASE k = m
      BY <2>1, <2>2, <2>3, AddLaws
  <2>4. CASE k # m
    <3>1. f[k] = 0 /\ (k <= m <=> k + 1 <= m)
        BY <2>1, <2>4
    <3> QED BY <2>1, <2>2, <3>1, AddLaws
  <2> QED BY <2>3, <2>4
<1> HIDE DEF S
<1>3. Nat \subseteq S
    BY <1>1, <1>2, Induction
<1>4. n \in S /\ ~(n <= m)
    BY <1>3
<1> QED BY <1>4 DEF S

(* Sums are linear. *)
LEMMA SumAdd ==
    ASSUME NEW f \in Families, NEW g \in Families, NEW h \in Families, NEW n \in Nat,
           \A i \in 0 .. n - 1 : h[i] = Add(f[i], g[i])
    PROVE  Total(h, n) = Add(Total(f, n), Total(g, n))
<1> DEFINE S == {k \in Nat : k <= n => Total(h, k) = Add(Total(f, k), Total(g, k))}
<1>1. 0 \in S
    BY SumDef, AddLaws, SymbolsFacts
<1>2. ASSUME NEW k \in Nat, k \in S PROVE k + 1 \in S
  <2> SUFFICES ASSUME k + 1 <= n PROVE Total(h, k + 1) = Add(Total(f, k + 1), Total(g, k + 1))
      OBVIOUS
  <2>1. Total(h, k) = Add(Total(f, k), Total(g, k)) /\ h[k] = Add(f[k], g[k])
      BY <1>2
  <2>2. f[k] \in Symbols /\ g[k] \in Symbols /\ Total(f, k) \in Symbols /\ Total(g, k) \in Symbols
      BY SumDef DEF Families
  <2>3. Add(Add(Total(f, k), Total(g, k)), Add(f[k], g[k]))
            = Add(Add(Total(f, k), f[k]), Add(Total(g, k), g[k]))
      BY <2>2, AddCross
  <2> QED BY <2>1, <2>3, SumDef
<1> HIDE DEF S
<1>3. Nat \subseteq S
    BY <1>1, <1>2, Induction
<1> QED BY <1>3 DEF S

(* A common factor of the terms. *)
LEMMA SumScale ==
    ASSUME NEW f \in Families, NEW g \in Families, NEW c \in Symbols, NEW n \in Nat,
           \A i \in 0 .. n - 1 : g[i] = mul(c, f[i])
    PROVE  Total(g, n) = mul(c, Total(f, n))
<1> DEFINE S == {k \in Nat : k <= n => Total(g, k) = mul(c, Total(f, k))}
<1>1. 0 \in S
    BY SumDef, MulZero
<1>2. ASSUME NEW k \in Nat, k \in S PROVE k + 1 \in S
  <2> SUFFICES ASSUME k + 1 <= n PROVE Total(g, k + 1) = mul(c, Total(f, k + 1))
      OBVIOUS
  <2>1. Total(g, k) = mul(c, Total(f, k)) /\ g[k] = mul(c, f[k])
      BY <1>2
  <2>2. f[k] \in Symbols /\ Total(f, k) \in Symbols
      BY SumDef DEF Families
  <2>3. mul(c, Add(Total(f, k), f[k])) = Add(mul(c, Total(f, k)), mul(c, f[k]))
      BY <2>2, MulDistributes
  <2> QED BY <2>1, <2>3, SumDef
<1> HIDE DEF S
<1>3. Nat \subseteq S
    BY <1>1, <1>2, Induction
<1> QED BY <1>3 DEF S

(* The first term taken out. *)
LEMMA SumFirst ==
    ASSUME NEW f \in Families, NEW g \in Families, NEW n \in Nat,
           \A i \in 0 .. n - 1 : g[i] = f[i + 1]
    PROVE  Total(f, n + 1) = Add(f[0], Total(g, n))
<1> DEFINE S == {k \in Nat : k <= n => Total(f, k + 1) = Add(f[0], Total(g, k))}
<1>1. 0 \in S
  <2>1. Total(f, 0 + 1) = f[0] /\ Total(g, 0) = 0 /\ f[0] \in Symbols
      BY SumOne, SumDef DEF Families
  <2> QED BY <2>1, AddLaws
<1>2. ASSUME NEW k \in Nat, k \in S PROVE k + 1 \in S
  <2> SUFFICES ASSUME k + 1 <= n PROVE Total(f, (k + 1) + 1) = Add(f[0], Total(g, k + 1))
      OBVIOUS
  <2>1. Total(f, k + 1) = Add(f[0], Total(g, k)) /\ g[k] = f[k + 1] /\ k + 1 \in Nat
      BY <1>2
  <2>2. f[0] \in Symbols /\ g[k] \in Symbols /\ Total(g, k) \in Symbols
      BY SumDef DEF Families
  <2>3. Add(f[0], Add(Total(g, k), g[k])) = Add(Add(f[0], Total(g, k)), g[k])
      BY <2>2, AddLaws
  <2>4. Total(f, (k + 1) + 1) = Add(Total(f, k + 1), f[k + 1]) /\ Total(g, k + 1) = Add(Total(g, k), g[k])
      BY <2>1, SumDef
  <2> QED BY <2>1, <2>3, <2>4
<1> HIDE DEF S
<1>3. Nat \subseteq S
    BY <1>1, <1>2, Induction
<1> QED BY <1>3 DEF S

(* Rows first or columns first. *)
Grids == [Nat -> Families]
RowSums(f, F, n, m) == \A i \in 0 .. n - 1 : f[i] = Total(F[i], m)
Transposed(F, G) == \A i, j \in Nat : G[j][i] = F[i][j]
(* A sum over a grid, by rows and by columns. *)
LEMMA SumExchange ==
    ASSUME NEW F \in Grids, NEW G \in Grids,
           NEW rows \in Families, NEW cols \in Families, NEW n \in Nat, NEW m \in Nat,
           RowSums(rows, F, n, m), RowSums(cols, G, m, n), Transposed(F, G)
    PROVE  Total(rows, n) = Total(cols, m)
<1> DEFINE C(k) == [j \in Nat |-> Total(G[j], k)]
           S == {k \in Nat : k <= n => Total(rows, k) = Total(C(k), m)}
<1>0. \A j \in Nat : F[j] \in Families /\ G[j] \in Families
    BY DEF Grids
<1>8. /\ \A i \in 0 .. n - 1 : rows[i] = Total(F[i], m)
      /\ \A j \in 0 .. m - 1 : cols[j] = Total(G[j], n)
      /\ \A i, j \in Nat : G[j][i] = F[i][j]
    BY DEF RowSums, Transposed
<1>1. \A k \in Nat : C(k) \in Families /\ \A j \in Nat : C(k)[j] = Total(G[j], k)
    BY <1>0, SumDef DEF Families
<1> HIDE DEF C
<1>2. 0 \in S
  <2>1. \A j \in 0 .. m - 1 : C(0)[j] = 0
      BY <1>0, <1>1, SumDef
  <2>2. Total(C(0), m) = 0
      BY <1>1, <2>1, SumZero
  <2> QED BY <2>2, SumDef
<1>3. ASSUME NEW k \in Nat, k \in S PROVE k + 1 \in S
  <2> SUFFICES ASSUME k + 1 <= n PROVE Total(rows, k + 1) = Total(C(k + 1), m)
      OBVIOUS
  <2>1. Total(rows, k + 1) = Add(Total(C(k), m), Total(F[k], m))
      BY <1>3, <1>8, SumDef
  <2>2. \A j \in 0 .. m - 1 : C(k + 1)[j] = Add(C(k)[j], F[k][j])
      BY <1>0, <1>1, <1>8, SumDef, SMTT(30)
  <2>3. C(k) \in Families /\ C(k + 1) \in Families /\ F[k] \in Families
      BY <1>0, <1>1
  <2>4. Total(C(k + 1), m) = Add(Total(C(k), m), Total(F[k], m))
    <3>1. PICK f \in Families, g \in Families, h \in Families : f = C(k) /\ g = F[k] /\ h = C(k + 1)
        BY <2>3
    <3>2. \A j \in 0 .. m - 1 : h[j] = Add(f[j], g[j])
        BY <2>2, <3>1
    <3>3. Total(h, m) = Add(Total(f, m), Total(g, m))
        BY <3>2, SumAdd
    <3> QED BY <3>1, <3>3
  <2> QED BY <2>1, <2>4
<1> HIDE DEF S
<1>4. Nat \subseteq S
    BY <1>2, <1>3, Induction
<1>5. Total(rows, n) = Total(C(n), m)
    BY <1>4 DEF S
<1>6. \A j \in 0 .. m - 1 : C(n)[j] = cols[j]
    BY <1>1, <1>8
<1>7. Total(C(n), m) = Total(cols, m)
    BY <1>1, <1>6, SumEqual
<1> QED BY <1>5, <1>7

(* A polynomial has its length and its coefficients, and no others. *)
LEMMA CoefficientFacts ==
    ASSUME NEW p \in Polys
    PROVE  /\ Len(p) \in Nat
           /\ \A i \in 1 .. Len(p) : p[i] \in Symbols /\ p[i] = Coefficient(p, Len(p) - i)
           /\ \A j \in Nat : Coefficient(p, j) \in Symbols
           /\ \A j \in Nat : j >= Len(p) => Coefficient(p, j) = 0
<1>1. Len(p) \in Nat /\ \A i \in 1 .. Len(p) : p[i] \in Symbols
    BY DEF Polys
<1>2. ASSUME NEW i \in 1 .. Len(p) PROVE p[i] = Coefficient(p, Len(p) - i)
  <2>1. Len(p) - i < Len(p) /\ Len(p) - (Len(p) - i) = i
      BY <1>1
  <2> QED BY <2>1 DEF Coefficient
<1>3. ASSUME NEW j \in Nat PROVE Coefficient(p, j) \in Symbols
  <2>1. CASE j < Len(p)
    <3>1. Len(p) - j \in 1 .. Len(p)
        BY <1>1, <2>1
    <3> QED BY <1>1, <2>1, <3>1 DEF Coefficient
  <2>2. CASE ~(j < Len(p))
      BY <2>2, SymbolsFacts DEF Coefficient
  <2> QED BY <2>1, <2>2
<1>4. \A j \in Nat : j >= Len(p) => Coefficient(p, j) = 0
    BY <1>1 DEF Coefficient
<1> QED BY <1>1, <1>2, <1>3, <1>4

(* Polynomials of one length and the same coefficients are one. *)
LEMMA PolyEqual ==
    ASSUME NEW p \in Polys, NEW q \in Polys, Len(p) = Len(q),
           \A j \in 0 .. Len(p) - 1 : Coefficient(p, j) = Coefficient(q, j)
    PROVE  p = q
<1>1. ASSUME NEW i \in 1 .. Len(p) PROVE p[i] = q[i]
  <2>1. Len(p) \in Nat /\ Len(p) - i \in 0 .. Len(p) - 1
      BY CoefficientFacts
  <2>2. p[i] = Coefficient(p, Len(p) - i)
      BY CoefficientFacts
  <2>3. q[i] = Coefficient(q, Len(q) - i)
      BY CoefficientFacts
  <2> QED BY <2>1, <2>2, <2>3
<1> QED BY <1>1 DEF Polys

(* The polynomial of n zeros. *)
LEMMA ZerosFacts ==
    ASSUME NEW n \in Nat
    PROVE  /\ Zeros(n) \in Polys /\ Len(Zeros(n)) = n
           /\ \A i \in 1 .. n : Zeros(n)[i] = 0
           /\ \A j \in Nat : Coefficient(Zeros(n), j) = 0
<1>1. Zeros(n) \in [1 .. n -> Symbols]
    BY SymbolsFacts DEF Zeros
<1>2. Zeros(n) \in Polys /\ Len(Zeros(n)) = n
    BY <1>1, SeqOfFunction DEF Polys
<1>3. \A i \in 1 .. n : Zeros(n)[i] = 0
    BY DEF Zeros
<1>4. ASSUME NEW j \in Nat PROVE Coefficient(Zeros(n), j) = 0
  <2>1. j < n => n - j \in 1 .. n
      OBVIOUS
  <2> QED BY <1>2, <1>3, <2>1 DEF Coefficient
<1> QED BY <1>2, <1>3, <1>4

(* poly_scale(), by coefficients. *)
LEMMA ScaleFacts ==
    ASSUME NEW p \in Polys, NEW x \in Symbols
    PROVE  /\ poly_scale(p, x) \in Polys /\ Len(poly_scale(p, x)) = Len(p)
           /\ \A i \in 1 .. Len(p) : poly_scale(p, x)[i] = mul(p[i], x)
           /\ \A j \in Nat : Coefficient(poly_scale(p, x), j) = mul(Coefficient(p, j), x)
<1> DEFINE f == [i \in 1 .. Len(p) |-> mul(p[i], x)]
<1>1. Len(p) \in Nat /\ \A i \in 1 .. Len(p) : p[i] \in Symbols
    BY CoefficientFacts
<1>2. f \in [1 .. Len(p) -> Symbols]
    BY <1>1, MulType
<1>3. \A i \in 1 .. Len(p) : f[i] = mul(p[i], x)
    OBVIOUS
<1>4. poly_scale(p, x) = Tabulated(f)
    BY DEF poly_scale
<1> HIDE DEF f
<1>5. /\ poly_scale(p, x) \in Polys /\ Len(poly_scale(p, x)) = Len(p)
      /\ \A i \in 1 .. Len(p) : poly_scale(p, x)[i] = mul(p[i], x)
    BY <1>1, <1>2, <1>3, <1>4, TabulatedIs DEF Polys
<1>6. ASSUME NEW j \in Nat PROVE Coefficient(poly_scale(p, x), j) = mul(Coefficient(p, j), x)
  <2>1. CASE j < Len(p)
    <3>1. Len(p) - j \in 1 .. Len(p)
        BY <1>1, <2>1
    <3> QED BY <1>5, <2>1, <3>1 DEF Coefficient
  <2>2. CASE ~(j < Len(p))
      BY <1>5, <2>2, MulZero DEF Coefficient
  <2> QED BY <2>1, <2>2
<1> QED BY <1>5, <1>6

(* poly_add(), by coefficients, whatever the lengths. *)
LEMMA PolyAddFacts ==
    ASSUME NEW p \in Polys, NEW q \in Polys
    PROVE  /\ poly_add(p, q) \in Polys /\ Len(poly_add(p, q)) = poly_max(Len(p), Len(q))
           /\ \A j \in Nat : Coefficient(poly_add(p, q), j) = Add(Coefficient(p, j), Coefficient(q, j))
<1> DEFINE n == poly_max(Len(p), Len(q))
           f == [i \in 1 .. n |-> Add(Coefficient(p, n - i), Coefficient(q, n - i))]
           C(j) == Add(Coefficient(p, j), Coefficient(q, j))
<1>1. n \in Nat /\ n >= Len(p) /\ n >= Len(q) /\ Len(p) \in Nat /\ Len(q) \in Nat
    BY CoefficientFacts DEF poly_max
<1>2. \A j \in Nat : C(j) \in Symbols /\ (j >= n => C(j) = 0)
  <2>1. ASSUME NEW j \in Nat PROVE C(j) \in Symbols
      BY CoefficientFacts, AddLaws
  <2>2. ASSUME NEW j \in Nat, j >= n PROVE C(j) = 0
    <3>1. j >= Len(p) /\ j >= Len(q)
        BY <1>1, <2>2
    <3>2. Coefficient(p, j) = 0 /\ Coefficient(q, j) = 0
        BY <3>1, CoefficientFacts
    <3> QED BY <3>2, AddLaws, SymbolsFacts
  <2> QED BY <2>1, <2>2
<1>3. poly_add(p, q) = Tabulated(f)
    BY DEF poly_add
<1>4. \A i \in 1 .. n : f[i] = C(n - i)
    OBVIOUS
<1>5. f = [i \in 1 .. n |-> C(n - i)]
    OBVIOUS
<1> HIDE DEF n, f, C
<1>6. f \in [1 .. n -> Symbols]
  <2>1. \A i \in 1 .. n : n - i \in Nat
      BY <1>1
  <2> QED BY <1>2, <1>5, <2>1
<1>7. /\ poly_add(p, q) \in Polys /\ Len(poly_add(p, q)) = n
      /\ \A i \in 1 .. n : poly_add(p, q)[i] = C(n - i)
    BY <1>1, <1>3, <1>4, <1>6, TabulatedIs DEF Polys
<1>8. ASSUME NEW j \in Nat PROVE Coefficient(poly_add(p, q), j) = C(j)
  <2>1. CASE j < n
    <3>1. n - j \in 1 .. n /\ n - (n - j) = j
        BY <1>1, <2>1
    <3> QED BY <1>7, <2>1, <3>1 DEF Coefficient
  <2>2. CASE ~(j < n)
      BY <1>1, <1>2, <1>7, <2>2 DEF Coefficient
  <2> QED BY <2>1, <2>2
<1> QED BY <1>7, <1>8 DEF n, C

(* Zeros at the end: a product by a power of the variable. *)
LEMMA ShiftFacts ==
    ASSUME NEW p \in Polys, NEW n \in Nat
    PROVE  /\ p \o Zeros(n) \in Polys /\ Len(p \o Zeros(n)) = Len(p) + n
           /\ \A i \in 1 .. Len(p) : (p \o Zeros(n))[i] = p[i]
           /\ \A j \in Nat : Coefficient(p \o Zeros(n), j)
                                 = IF j < n THEN 0 ELSE Coefficient(p, j - n)
<1> DEFINE z == Zeros(n)
           r == p \o z
<1>1. z \in Polys /\ Len(z) = n /\ \A i \in 1 .. n : z[i] = 0
    BY ZerosFacts
<1>2. Len(p) \in Nat
    BY CoefficientFacts
<1> HIDE DEF z
<1>3. /\ r \in Polys /\ Len(r) = Len(p) + n
      /\ \A i \in 1 .. Len(p) + n : r[i] = IF i <= Len(p) THEN p[i] ELSE z[i - Len(p)]
    BY <1>1, <1>2 DEF Polys
<1> HIDE DEF r
<1>4. ASSUME NEW j \in Nat
      PROVE  Coefficient(r, j) = IF j < n THEN 0 ELSE Coefficient(p, j - n)
  <2>1. CASE j < n
    <3>1. /\ j < Len(p) + n /\ Len(p) + n - j \in 1 .. Len(p) + n /\ ~(Len(p) + n - j <= Len(p))
          /\ (Len(p) + n - j) - Len(p) \in 1 .. n
        BY <1>2, <2>1
    <3>2. r[Len(p) + n - j] = 0
        BY <1>1, <1>3, <3>1
    <3> QED BY <1>3, <2>1, <3>1, <3>2 DEF Coefficient
  <2>2. CASE ~(j < n) /\ j < Len(p) + n
    <3>1. /\ Len(p) + n - j \in 1 .. Len(p) + n /\ Len(p) + n - j <= Len(p)
          /\ j - n \in Nat /\ j - n < Len(p) /\ Len(p) - (j - n) = Len(p) + n - j
        BY <1>2, <2>2
    <3>2. r[Len(p) + n - j] = p[Len(p) + n - j]
        BY <1>3, <3>1
    <3> QED BY <1>3, <2>2, <3>1, <3>2 DEF Coefficient
  <2>3. CASE ~(j < Len(p) + n)
    <3>1. ~(j < n) /\ ~(j - n < Len(p))
        BY <1>2, <2>3
    <3> QED BY <1>3, <2>3, <3>1 DEF Coefficient
  <2> QED BY <2>1, <2>2, <2>3
<1> QED BY <1>2, <1>3, <1>4 DEF r, z

------------------------------------------------------------------------------
(* Evaluation.                                                             *)

(* What poly_eval() has after k steps. *)
Horner(p, x, k) ==
    Loop([i \in 1 .. Len(p) - 1 |-> [y \in Symbols |-> Add(mul(y, x), p[i + 1])]], p[1], k)

(* poly_eval(), step by step. *)
LEMMA HornerDef ==
    ASSUME NEW p \in Polys, Len(p) >= 1, NEW x \in Symbols
    PROVE  /\ Horner(p, x, 0) = p[1]
           /\ \A k \in 0 .. Len(p) - 1 : Horner(p, x, k) \in Symbols
           /\ \A k \in 0 .. Len(p) - 2 : Horner(p, x, k + 1) = Add(mul(Horner(p, x, k), x), p[k + 2])
           /\ poly_eval(p, x) = Horner(p, x, Len(p) - 1)
           /\ poly_eval(p, x) \in Symbols
<1> DEFINE f == [i \in 1 .. Len(p) - 1 |-> [y \in Symbols |-> Add(mul(y, x), p[i + 1])]]
           S == {k \in Nat : k < Len(p) => Horner(p, x, k) \in Symbols}
<1>1. Len(p) \in Nat /\ \A i \in 1 .. Len(p) : p[i] \in Symbols
    BY CoefficientFacts
<1>2. Loop(f, p[1], 0) = p[1] /\ \A k \in Nat : Loop(f, p[1], k + 1) = f[k + 1][Loop(f, p[1], k)]
  <2> HIDE DEF f
  <2> QED BY LoopDef, ZenonT(40)
<1>3. \A k : Horner(p, x, k) = Loop(f, p[1], k)
    BY Zenon DEF Horner
<1>4. ASSUME NEW k \in 0 .. Len(p) - 2, NEW y \in Symbols
      PROVE  f[k + 1][y] = Add(mul(y, x), p[k + 2]) /\ f[k + 1][y] \in Symbols
  <2>1. k + 1 \in 1 .. Len(p) - 1 /\ (k + 1) + 1 = k + 2 /\ k + 2 \in 1 .. Len(p)
      BY <1>1
  <2>2. f[k + 1][y] = Add(mul(y, x), p[k + 2])
      BY <2>1
  <2>3. p[k + 2] \in Symbols /\ mul(y, x) \in Symbols
      BY <1>1, <2>1, MulType
  <2> QED BY <2>2, <2>3, AddLaws
<1>5. poly_eval(p, x) = Loop(f, p[1], Len(p) - 1)
    BY DEF poly_eval
<1> HIDE DEF f
<1>6. 0 \in S
    BY <1>1, <1>2, <1>3, SMTT(30)
<1>7. ASSUME NEW k \in Nat, k \in S PROVE k + 1 \in S
  <2> SUFFICES ASSUME k + 1 < Len(p) PROVE Horner(p, x, k + 1) \in Symbols
      OBVIOUS
  <2>1. k \in 0 .. Len(p) - 2 /\ Horner(p, x, k) \in Symbols
      BY <1>1, <1>7
  <2> QED BY <1>2, <1>3, <1>4, <2>1
<1> HIDE DEF S
<1>8. Nat \subseteq S
    BY <1>6, <1>7, Induction
<1>9. \A k \in 0 .. Len(p) - 1 : Horner(p, x, k) \in Symbols
  <2>1. \A k \in 0 .. Len(p) - 1 : k \in Nat /\ k < Len(p)
      BY <1>1
  <2> QED BY <1>8, <2>1 DEF S
<1>10. ASSUME NEW k \in 0 .. Len(p) - 2
       PROVE  Horner(p, x, k + 1) = Add(mul(Horner(p, x, k), x), p[k + 2])
  <2>1. k \in Nat /\ k \in 0 .. Len(p) - 1
      BY <1>1
  <2> QED BY <1>2, <1>3, <1>4, <1>9, <2>1
<1>11. Len(p) - 1 \in 0 .. Len(p) - 1
    BY <1>1
<1> QED BY <1>2, <1>3, <1>5, <1>9, <1>10, <1>11

(* The terms of a polynomial at a point. *)
Terms(p, x) == [j \in Nat |-> mul(Coefficient(p, j), Power(x, j))]

(* The terms of a polynomial at x, of which only the first are not zero. *)
LEMMA TermsFacts ==
    ASSUME NEW p \in Polys, NEW x \in Symbols
    PROVE  /\ Terms(p, x) \in Families
           /\ \A j \in Nat : Terms(p, x)[j] = mul(Coefficient(p, j), Power(x, j))
           /\ \A j \in Nat : j >= Len(p) => Terms(p, x)[j] = 0
<1>1. \A j \in Nat : mul(Coefficient(p, j), Power(x, j)) \in Symbols
    BY CoefficientFacts, PowerDef, MulType
<1>2. Terms(p, x) \in Families
    BY <1>1 DEF Terms, Families
<1>3. \A j \in Nat : Terms(p, x)[j] = mul(Coefficient(p, j), Power(x, j))
    BY DEF Terms
<1> QED BY <1>2, <1>3, CoefficientFacts, MulZero

(* Terms that are zero add nothing. *)
LEMMA SumTail ==
    ASSUME NEW f \in Families, NEW m \in Nat, \A i \in Nat : i >= m => f[i] = 0
    PROVE  \A n \in Nat : n >= m => Total(f, n) = Total(f, m)
<1> DEFINE S == {n \in Nat : n >= m => Total(f, n) = Total(f, m)}
<1>1. 0 \in S
    OBVIOUS
<1>2. ASSUME NEW n \in Nat, n \in S PROVE n + 1 \in S
  <2> SUFFICES ASSUME n + 1 >= m, n + 1 # m PROVE Total(f, n + 1) = Total(f, m)
      OBVIOUS
  <2>1. n >= m /\ Total(f, n) = Total(f, m) /\ f[n] = 0
      BY <1>2
  <2> QED BY <2>1, SumDef, AddLaws
<1> HIDE DEF S
<1>3. Nat \subseteq S
    BY <1>1, <1>2, Induction
<1> QED BY <1>3 DEF S

(* Horner's scheme computes the sum of the terms. *)
LEMMA EvalSum ==
    ASSUME NEW p \in Polys, Len(p) >= 1, NEW x \in Symbols
    PROVE  \A n \in Nat : n >= Len(p) => poly_eval(p, x) = Total(Terms(p, x), n)
<1> DEFINE t == Terms(p, x)
           L == Len(p)
           H(k) == Horner(p, x, k)
           S == {k \in Nat : k < L => Add(mul(H(k), Power(x, L - 1 - k)), Total(t, L - 1 - k)) = Total(t, L)}
<1>1. L \in Nat /\ L >= 1
    BY CoefficientFacts
<1>2. /\ t \in Families /\ \A j \in Nat : t[j] = mul(Coefficient(p, j), Power(x, j))
      /\ \A j \in Nat : j >= L => t[j] = 0
    BY TermsFacts
<1>3. /\ \A m \in Nat : Total(t, m) \in Symbols /\ Total(t, m + 1) = Add(Total(t, m), t[m])
      /\ \A m \in Nat : t[m] \in Symbols
    BY <1>2, SumDef DEF Families
<1>4. \A k \in 0 .. L - 1 : p[k + 1] = Coefficient(p, L - 1 - k)
  <2> SUFFICES ASSUME NEW k \in 0 .. L - 1 PROVE p[k + 1] = Coefficient(p, L - 1 - k)
      OBVIOUS
  <2>1. k + 1 \in 1 .. L /\ L - (k + 1) = L - 1 - k
      BY <1>1
  <2> QED BY <2>1, CoefficientFacts
<1>5. \A k \in 0 .. L - 1 : H(k) \in Symbols
    BY <1>1, HornerDef
<1>6. H(0) = p[1] /\ \A k \in 0 .. L - 2 : H(k + 1) = Add(mul(H(k), x), p[k + 2])
    BY <1>1, HornerDef
<1>7. poly_eval(p, x) = H(L - 1)
    BY <1>1, HornerDef
<1> HIDE DEF t, L, H
<1>8. 0 \in S
  <2>1. L - 1 \in Nat /\ (L - 1) + 1 = L /\ 0 \in 0 .. L - 1 /\ 0 + 1 = 1 /\ L - 1 - 0 = L - 1
      BY <1>1
  <2>2. p[1] = Coefficient(p, L - 1)
      BY <1>4, <2>1
  <2>3. Total(t, L) = Add(Total(t, L - 1), mul(H(0), Power(x, L - 1)))
      BY <1>2, <1>3, <1>6, <2>1, <2>2
  <2>4. Total(t, L - 1) \in Symbols /\ mul(H(0), Power(x, L - 1)) \in Symbols
      BY <1>3, <1>5, <2>1, MulType, PowerDef
  <2> QED BY <2>1, <2>3, <2>4, AddLaws
<1>9. ASSUME NEW k \in Nat, k \in S PROVE k + 1 \in S
  <2> SUFFICES ASSUME k + 1 < L
               PROVE  Add(mul(H(k + 1), Power(x, L - 1 - (k + 1))), Total(t, L - 1 - (k + 1))) = Total(t, L)
      OBVIOUS
  <2> DEFINE m == L - 1 - (k + 1)
  <2>1. /\ m \in Nat /\ L - 1 - k = m + 1 /\ k \in 0 .. L - 2 /\ k \in 0 .. L - 1
        /\ k + 1 \in 0 .. L - 1 /\ (k + 1) + 1 = k + 2
      BY <1>1
  <2>2. Add(mul(H(k), Power(x, m + 1)), Total(t, m + 1)) = Total(t, L)
      BY <1>1, <1>9, <2>1
  <2> HIDE DEF m
  <2>3. p[k + 2] = Coefficient(p, m)
      BY <1>4, <2>1 DEF m
  <2> DEFINE a == H(k)
             w == Power(x, m)
             c == Coefficient(p, m)
             s == Total(t, m)
  <2>4. a \in Symbols /\ w \in Symbols /\ c \in Symbols /\ s \in Symbols /\ mul(a, x) \in Symbols
        /\ mul(a, mul(w, x)) \in Symbols /\ mul(c, w) \in Symbols /\ mul(mul(a, x), w) \in Symbols
      BY <1>3, <1>5, <2>1, MulType, PowerDef, CoefficientFacts
  <2>5. H(k + 1) = Add(mul(a, x), c)
      BY <1>6, <2>1, <2>3
  <2>6. Power(x, m + 1) = mul(w, x)
      BY <2>1, PowerDef
  <2>7. Total(t, m + 1) = Add(s, mul(c, w))
      BY <1>2, <1>3, <2>1
  <2> HIDE DEF a, w, c, s
  <2>8. Add(mul(a, mul(w, x)), Add(s, mul(c, w))) = Total(t, L)
      BY <2>2, <2>6, <2>7 DEF a
  <2>9. mul(Add(mul(a, x), c), w) = Add(mul(mul(a, x), w), mul(c, w))
    <3>1. /\ mul(Add(mul(a, x), c), w) = mul(w, Add(mul(a, x), c))
          /\ mul(mul(a, x), w) = mul(w, mul(a, x)) /\ mul(c, w) = mul(w, c)
        BY <2>4, MulComm, AddLaws
    <3> QED BY <2>4, <3>1, MulDistributes
  <2>10. mul(mul(a, x), w) = mul(a, mul(w, x))
    <3>1. mul(a, mul(x, w)) = mul(mul(a, x), w) /\ mul(x, w) = mul(w, x)
        BY <2>4, MulAssoc, MulComm
    <3> QED BY <3>1
  <2>11. Add(Add(mul(a, mul(w, x)), mul(c, w)), s) = Add(mul(a, mul(w, x)), Add(s, mul(c, w)))
    <3>1. Add(mul(c, w), s) = Add(s, mul(c, w))
        BY <2>4, AddLaws
    <3> QED BY <2>4, <3>1, AddLaws
  <2>12. Add(mul(H(k + 1), w), s) = Total(t, L)
      BY <2>5, <2>8, <2>9, <2>10, <2>11
  <2> QED BY <2>12 DEF m, w, s
<1> HIDE DEF S
<1>10. Nat \subseteq S
    BY <1>8, <1>9, Induction
<1>11. poly_eval(p, x) = Total(t, L)
  <2>1. L - 1 \in Nat /\ L - 1 < L /\ L - 1 - (L - 1) = 0 /\ L - 1 \in 0 .. L - 1
      BY <1>1
  <2>2. Add(mul(H(L - 1), Power(x, 0)), Total(t, 0)) = Total(t, L)
      BY <1>10, <2>1 DEF S
  <2>3. Power(x, 0) = 1 /\ Total(t, 0) = 0 /\ H(L - 1) \in Symbols
      BY <1>2, <1>5, <2>1, PowerDef, SumDef
  <2> QED BY <1>7, <2>2, <2>3, MulOne, AddLaws
<1>12. ASSUME NEW n \in Nat, n >= L PROVE Total(t, n) = Total(t, L)
    BY <1>1, <1>2, <1>12, SumTail
<1> QED BY <1>11, <1>12 DEF t, L

------------------------------------------------------------------------------
(* Products.                                                               *)

Coefs(p) == [j \in Nat |-> Coefficient(p, j)]

(* What two families contribute to the m-th coefficient of their product. *)
Crossed(f, g, m) == [j \in Nat |-> IF j <= m THEN mul(f[j], g[m - j]) ELSE 0]
Conv(f, g, m) == Total(Crossed(f, g, m), m + 1)

(* The coefficients of a polynomial, as a family. *)
LEMMA CoefsFacts ==
    ASSUME NEW p \in Polys
    PROVE  Coefs(p) \in Families /\ \A j \in Nat : Coefs(p)[j] = Coefficient(p, j)
BY CoefficientFacts DEF Coefs, Families

(* A coefficient of a product is a symbol. *)
LEMMA ConvFacts ==
    ASSUME NEW f \in Families, NEW g \in Families, NEW m \in Nat
    PROVE  /\ Crossed(f, g, m) \in Families
           /\ \A j \in Nat : Crossed(f, g, m)[j] = IF j <= m THEN mul(f[j], g[m - j]) ELSE 0
           /\ Conv(f, g, m) \in Symbols
<1>1. ASSUME NEW j \in Nat PROVE (IF j <= m THEN mul(f[j], g[m - j]) ELSE 0) \in Symbols
  <2>1. j <= m => m - j \in Nat
      OBVIOUS
  <2>2. j <= m => f[j] \in Symbols /\ g[m - j] \in Symbols
      BY <2>1 DEF Families
  <2> QED BY <2>2, MulType, SymbolsFacts
<1>2. Crossed(f, g, m) \in Families
    BY <1>1 DEF Crossed, Families
<1>3. \A j \in Nat : Crossed(f, g, m)[j] = IF j <= m THEN mul(f[j], g[m - j]) ELSE 0
    BY DEF Crossed
<1> QED BY <1>2, <1>3, SumDef DEF Conv

(* A product in the first factor: linear, and moved by a shift. *)
LEMMA ConvAdd ==
    ASSUME NEW f \in Families, NEW g \in Families, NEW h \in Families, NEW t \in Families,
           NEW m \in Nat, \A j \in Nat : h[j] = Add(f[j], g[j])
    PROVE  Conv(h, t, m) = Add(Conv(f, t, m), Conv(g, t, m))
<1> DEFINE F == Crossed(f, t, m)
           G == Crossed(g, t, m)
           H == Crossed(h, t, m)
<1>1. ASSUME NEW j \in 0 .. (m + 1) - 1 PROVE H[j] = Add(F[j], G[j])
  <2>1. j \in Nat /\ j <= m /\ m - j \in Nat
      OBVIOUS
  <2>2. H[j] = mul(h[j], t[m - j]) /\ F[j] = mul(f[j], t[m - j]) /\ G[j] = mul(g[j], t[m - j])
      BY <2>1, ConvFacts
  <2>3. f[j] \in Symbols /\ g[j] \in Symbols /\ t[m - j] \in Symbols /\ h[j] = Add(f[j], g[j])
      BY <2>1 DEF Families
  <2>4. mul(t[m - j], Add(f[j], g[j])) = Add(mul(t[m - j], f[j]), mul(t[m - j], g[j]))
      BY <2>3, MulDistributes
  <2>5. /\ mul(t[m - j], Add(f[j], g[j])) = mul(Add(f[j], g[j]), t[m - j])
        /\ mul(t[m - j], f[j]) = mul(f[j], t[m - j]) /\ mul(t[m - j], g[j]) = mul(g[j], t[m - j])
      BY <2>3, MulComm, AddLaws
  <2> QED BY <2>2, <2>3, <2>4, <2>5
<1>2. F \in Families /\ G \in Families /\ H \in Families /\ m + 1 \in Nat
    BY ConvFacts
<1> HIDE DEF F, G, H
<1>3. Total(H, m + 1) = Add(Total(F, m + 1), Total(G, m + 1))
    BY <1>1, <1>2, SumAdd
<1> QED BY <1>3 DEF Conv, F, G, H

(* A product is linear in its first factor. *)
LEMMA ConvScale ==
    ASSUME NEW f \in Families, NEW h \in Families, NEW t \in Families, NEW c \in Symbols,
           NEW m \in Nat, \A j \in Nat : h[j] = mul(c, f[j])
    PROVE  Conv(h, t, m) = mul(c, Conv(f, t, m))
<1> DEFINE F == Crossed(f, t, m)
           H == Crossed(h, t, m)
<1>1. ASSUME NEW j \in 0 .. (m + 1) - 1 PROVE H[j] = mul(c, F[j])
  <2>1. j \in Nat /\ j <= m /\ m - j \in Nat
      OBVIOUS
  <2>2. H[j] = mul(h[j], t[m - j]) /\ F[j] = mul(f[j], t[m - j])
      BY <2>1, ConvFacts
  <2>3. f[j] \in Symbols /\ t[m - j] \in Symbols /\ h[j] = mul(c, f[j])
      BY <2>1 DEF Families
  <2> QED BY <2>2, <2>3, MulAssoc
<1>2. F \in Families /\ H \in Families /\ m + 1 \in Nat
    BY ConvFacts
<1> HIDE DEF F, H
<1>3. Total(H, m + 1) = mul(c, Total(F, m + 1))
    BY <1>1, <1>2, SumScale
<1> QED BY <1>3 DEF Conv, F, H

(* A factor moved up moves the product up. *)
LEMMA ConvShift ==
    ASSUME NEW f \in Families, NEW h \in Families, NEW t \in Families, NEW m \in Nat,
           h[0] = 0, \A j \in Nat : h[j + 1] = f[j]
    PROVE  Conv(h, t, m + 1) = Conv(f, t, m)
<1> DEFINE F == Crossed(f, t, m)
           H == Crossed(h, t, m + 1)
<1>1. H[0] = 0
  <2>1. 0 \in Nat /\ 0 <= m + 1 /\ m + 1 \in Nat
      OBVIOUS
  <2>2. H[0] = mul(h[0], t[(m + 1) - 0])
      BY <2>1, ConvFacts
  <2> QED BY <2>2, MulZero
<1>2. ASSUME NEW j \in 0 .. (m + 1) - 1 PROVE F[j] = H[j + 1]
  <2>1. /\ j \in Nat /\ j <= m /\ j + 1 \in Nat /\ j + 1 <= m + 1 /\ m + 1 \in Nat
        /\ (m + 1) - (j + 1) = m - j
      OBVIOUS
  <2>2. H[j + 1] = mul(h[j + 1], t[(m + 1) - (j + 1)])
      BY <2>1, ConvFacts
  <2>3. F[j] = mul(f[j], t[m - j])
      BY <2>1, ConvFacts
  <2> QED BY <2>1, <2>2, <2>3
<1>0. m + 1 \in Nat
    OBVIOUS
<1>3. F \in Families /\ H \in Families /\ m + 1 \in Nat
    BY <1>0, ConvFacts
<1> HIDE DEF F, H
<1>4. Total(H, (m + 1) + 1) = Add(H[0], Total(F, m + 1))
    BY <1>2, <1>3, SumFirst
<1>5. Total(F, m + 1) \in Symbols
    BY <1>3, SumDef
<1> QED BY <1>1, <1>4, <1>5, AddLaws DEF Conv, F, H

(* poly_mul() has the coefficients of the product. *)
LEMMA PolyMulFacts ==
    ASSUME NEW p \in Polys, NEW q \in Polys, Len(p) >= 1, Len(q) >= 1
    PROVE  /\ poly_mul(p, q) \in Polys /\ Len(poly_mul(p, q)) = Len(p) + Len(q) - 1
           /\ \A m \in Nat : Coefficient(poly_mul(p, q), m) = Conv(Coefs(q), Coefs(p), m)
<1> DEFINE L == Len(q)
           N == Len(p) + Len(q) - 1
           f == [j \in 1 .. Len(q) |-> [r \in Polys |->
                    poly_add(r, poly_scale(p, q[j]) \o Zeros(Len(q) - j))]]
           R(t) == Loop(f, Zeros(N), t)
           T(m) == Crossed(Coefs(q), Coefs(p), m)
           Good(t) == /\ R(t) \in Polys /\ Len(R(t)) = N
                      /\ \A m \in Nat : Add(Total(T(m), L - t), Coefficient(R(t), m)) = Total(T(m), L)
           S == {t \in Nat : t <= L => Good(t)}
<1>1. Len(p) \in Nat /\ L \in Nat /\ N \in Nat /\ L >= 1
    BY CoefficientFacts
<1>2. Coefs(p) \in Families /\ Coefs(q) \in Families
    BY CoefsFacts
<1>3. /\ \A m \in Nat : T(m) \in Families
      /\ \A m, j \in Nat : T(m)[j] = IF j <= m THEN mul(Coefficient(q, j), Coefficient(p, m - j)) ELSE 0
  <2>1. ASSUME NEW m \in Nat, NEW j \in Nat
        PROVE  T(m)[j] = IF j <= m THEN mul(Coefficient(q, j), Coefficient(p, m - j)) ELSE 0
    <3>1. j <= m => m - j \in Nat
        OBVIOUS
    <3>2. T(m)[j] = IF j <= m THEN mul(Coefs(q)[j], Coefs(p)[m - j]) ELSE 0
        BY <1>2, ConvFacts
    <3>3. j <= m => Coefs(q)[j] = Coefficient(q, j) /\ Coefs(p)[m - j] = Coefficient(p, m - j)
        BY <3>1, CoefsFacts
    <3> HIDE DEF T
    <3> QED BY <3>2, <3>3
  <2> QED BY <1>2, <2>1, ConvFacts
<1>4. poly_mul(p, q) = R(L)
    BY Zenon DEF poly_mul
<1>5. R(0) = Zeros(N) /\ \A t \in Nat : R(t + 1) = f[t + 1][R(t)]
  <2> HIDE DEF f
  <2> QED BY LoopDef, ZenonT(40)
<1>6. ASSUME NEW t \in 0 .. L - 1, NEW r \in Polys, Len(r) = N
      PROVE  /\ f[t + 1][r] \in Polys /\ Len(f[t + 1][r]) = N
             /\ \A m \in Nat : Coefficient(f[t + 1][r], m) = Add(Coefficient(r, m), T(m)[L - (t + 1)])
  <2> DEFINE k == L - (t + 1)
             s == poly_scale(p, q[t + 1])
  <2>1. k \in Nat /\ t + 1 \in 1 .. L /\ Len(p) + k <= N
      BY <1>1
  <2>2. q[t + 1] \in Symbols /\ q[t + 1] = Coefficient(q, k)
      BY <2>1, CoefficientFacts
  <2>3. /\ s \in Polys /\ Len(s) = Len(p)
        /\ \A j \in Nat : Coefficient(s, j) = mul(Coefficient(p, j), Coefficient(q, k))
      BY <2>2, ScaleFacts
  <2>4. f[t + 1][r] = poly_add(r, s \o Zeros(k))
      BY <2>1
  <2> HIDE DEF k, s
  <2>5. /\ s \o Zeros(k) \in Polys /\ Len(s \o Zeros(k)) = Len(p) + k
        /\ \A j \in Nat : Coefficient(s \o Zeros(k), j) = IF j < k THEN 0 ELSE Coefficient(s, j - k)
      BY <2>1, <2>3, ShiftFacts
  <2>6. /\ poly_add(r, s \o Zeros(k)) \in Polys
        /\ Len(poly_add(r, s \o Zeros(k))) = poly_max(N, Len(p) + k)
        /\ \A m \in Nat : Coefficient(poly_add(r, s \o Zeros(k)), m)
                              = Add(Coefficient(r, m), Coefficient(s \o Zeros(k), m))
      BY <1>6, <2>5, PolyAddFacts
  <2>7. poly_max(N, Len(p) + k) = N
      BY <1>1, <2>1 DEF poly_max
  <2>8. ASSUME NEW m \in Nat PROVE Coefficient(s \o Zeros(k), m) = T(m)[k]
    <3>1. CASE m < k
      <4>1. ~(k <= m)
          BY <2>1, <3>1
      <4>2. T(m)[k] = 0
          BY <1>3, <2>1, <4>1
      <4> QED BY <2>5, <3>1, <4>2
    <3>2. CASE ~(m < k)
      <4>1. m - k \in Nat /\ k <= m
          BY <2>1, <3>2
      <4>2. Coefficient(p, m - k) \in Symbols /\ Coefficient(q, k) \in Symbols
          BY <2>1, <4>1, CoefficientFacts
      <4>3. mul(Coefficient(p, m - k), Coefficient(q, k)) = mul(Coefficient(q, k), Coefficient(p, m - k))
          BY <4>2, MulComm
      <4>4. T(m)[k] = mul(Coefficient(q, k), Coefficient(p, m - k))
          BY <1>3, <2>1, <4>1
      <4>5. Coefficient(s \o Zeros(k), m) = Coefficient(s, m - k)
          BY <2>5, <3>2
      <4>6. Coefficient(s, m - k) = mul(Coefficient(p, m - k), Coefficient(q, k))
          BY <2>3, <4>1
      <4> QED BY <4>3, <4>4, <4>5, <4>6
    <3> QED BY <3>1, <3>2
  <2> QED BY <2>4, <2>6, <2>7, <2>8 DEF k
<1> HIDE DEF f, T, R, L, N
<1>7. 0 \in S
  <2>1. /\ Zeros(N) \in Polys /\ Len(Zeros(N)) = N
        /\ \A m \in Nat : Coefficient(Zeros(N), m) = 0
      BY <1>1, ZerosFacts
  <2>2. L - 0 = L
      BY <1>1
  <2>3. \A m \in Nat : Total(T(m), L) \in Symbols
      BY <1>1, <1>3, SumDef
  <2> QED BY <1>5, <2>1, <2>2, <2>3, AddLaws
<1>8. ASSUME NEW t \in Nat, t \in S PROVE t + 1 \in S
  <2> SUFFICES ASSUME t + 1 <= L PROVE Good(t + 1)
      OBVIOUS
  <2>1. Good(t) /\ t \in 0 .. L - 1
      BY <1>1, <1>8
  <2>2. R(t + 1) = f[t + 1][R(t)]
      BY <1>5
  <2>3. /\ R(t + 1) \in Polys /\ Len(R(t + 1)) = N
        /\ \A m \in Nat : Coefficient(R(t + 1), m) = Add(Coefficient(R(t), m), T(m)[L - (t + 1)])
      BY <1>6, <2>1, <2>2
  <2>4. ASSUME NEW m \in Nat
        PROVE  Add(Total(T(m), L - (t + 1)), Coefficient(R(t + 1), m)) = Total(T(m), L)
    <3> DEFINE k == L - (t + 1)
               a == Total(T(m), k)
               b == T(m)[k]
               c == Coefficient(R(t), m)
    <3>1. k \in Nat /\ L - t = k + 1
        BY <1>1, <2>1
    <3>2. Total(T(m), L - t) = Add(a, b)
        BY <1>3, <3>1, SumDef
    <3>3. Add(Add(a, b), c) = Total(T(m), L)
        BY <2>1, <3>2
    <3>4. a \in Symbols /\ b \in Symbols /\ c \in Symbols
        BY <1>3, <2>1, <3>1, SumDef, CoefficientFacts DEF Families
    <3>5. Add(a, Add(c, b)) = Add(Add(a, b), c)
      <4>1. Add(c, b) = Add(b, c)
          BY <3>4, AddLaws
      <4> HIDE DEF a, b, c
      <4> QED BY <3>4, <4>1, AddLaws
    <3>6. Coefficient(R(t + 1), m) = Add(c, b)
        BY <2>3
    <3> QED BY <3>3, <3>5, <3>6
  <2> QED BY <2>3, <2>4
<1> HIDE DEF S
<1>9. Nat \subseteq S
    BY <1>7, <1>8, Induction
<1>10. Good(L)
    BY <1>1, <1>9 DEF S
<1>11. ASSUME NEW m \in Nat PROVE Coefficient(R(L), m) = Conv(Coefs(q), Coefs(p), m)
  <2>1. L - L = 0 /\ m + 1 \in Nat
      BY <1>1
  <2>2. T(m) \in Families /\ Total(T(m), 0) = 0
      BY <1>3, SumDef
  <2>3. Coefficient(R(L), m) = Total(T(m), L)
    <3>1. Coefficient(R(L), m) \in Symbols
        BY <1>10, CoefficientFacts
    <3>2. Add(Total(T(m), L - L), Coefficient(R(L), m)) = Total(T(m), L)
        BY <1>10
    <3> QED BY <2>1, <2>2, <3>1, <3>2, AddLaws
  <2>4. \A j \in Nat : j >= m + 1 => T(m)[j] = 0
      BY <1>3
  <2>5. \A j \in Nat : j >= L => T(m)[j] = 0
      BY <1>3, CoefficientFacts, MulZero DEF L
  <2>6. Total(T(m), L) = Total(T(m), m + 1)
    <3>1. CASE L >= m + 1
        BY <1>1, <2>1, <2>2, <2>4, <3>1, SumTail
    <3>2. CASE m + 1 >= L
        BY <1>1, <2>1, <2>2, <2>5, <3>2, SumTail
    <3> QED BY <1>1, <2>1, <3>1, <3>2
  <2> QED BY <2>3, <2>6 DEF T, Conv
<1> QED BY <1>4, <1>10, <1>11 DEF N

(* A product by a x + b. *)
LEMMA MulLinear ==
    ASSUME NEW p \in Polys, Len(p) >= 1, NEW a \in Symbols, NEW b \in Symbols
    PROVE  /\ poly_mul(p, <<a, b>>) \in Polys /\ Len(poly_mul(p, <<a, b>>)) = Len(p) + 1
           /\ Coefficient(poly_mul(p, <<a, b>>), 0) = mul(b, Coefficient(p, 0))
           /\ \A j \in Nat : Coefficient(poly_mul(p, <<a, b>>), j + 1)
                                 = Add(mul(b, Coefficient(p, j + 1)), mul(a, Coefficient(p, j)))
<1> DEFINE q == <<a, b>>
           r == poly_mul(p, q)
           f == Coefs(q)
           g == Coefs(p)
<1>1. /\ q \in Polys /\ Len(q) = 2 /\ Len(p) \in Nat
      /\ Coefficient(q, 0) = b /\ Coefficient(q, 1) = a
      /\ \A j \in Nat : j >= 2 => Coefficient(q, j) = 0
  <2>1. q \in Polys /\ Len(q) = 2 /\ q[1] = a /\ q[2] = b
      BY DEF Polys
  <2> HIDE DEF q
  <2>2. q[2 - 0] = b /\ q[2 - 1] = a
      BY <2>1
  <2> QED BY <2>1, <2>2, CoefficientFacts DEF Coefficient
<1> HIDE DEF q
<1>2. /\ r \in Polys /\ Len(r) = Len(p) + 1
      /\ \A m \in Nat : Coefficient(r, m) = Conv(f, g, m)
  <2>1. Len(q) >= 1
      BY <1>1
  <2>2. /\ r \in Polys /\ Len(r) = Len(p) + Len(q) - 1
        /\ \A m \in Nat : Coefficient(r, m) = Conv(f, g, m)
      BY <1>1, <2>1, PolyMulFacts
  <2> HIDE DEF r, f, g
  <2>3. Len(p) + Len(q) - 1 = Len(p) + 1
      BY <1>1
  <2> QED BY <2>2, <2>3
<1>3. /\ f \in Families /\ g \in Families
      /\ f[0] = b /\ f[1] = a /\ \A j \in Nat : j >= 2 => f[j] = 0
      /\ \A j \in Nat : g[j] = Coefficient(p, j)
    BY <1>1, CoefsFacts
<1> HIDE DEF r, f, g
<1>4. Coefficient(r, 0) = mul(b, Coefficient(p, 0))
  <2> DEFINE T == Crossed(f, g, 0)
  <2>0. 0 \in Nat /\ 0 - 0 = 0 /\ 0 <= 0
      OBVIOUS
  <2>1. T \in Families /\ \A i \in Nat : T[i] = IF i <= 0 THEN mul(f[i], g[0 - i]) ELSE 0
      BY <1>3, <2>0, ConvFacts
  <2> HIDE DEF T
  <2>2. Total(T, 0 + 1) = mul(b, Coefficient(p, 0))
    <3>1. T[0] = mul(f[0], g[0 - 0])
        BY <2>0, <2>1
    <3>2. Total(T, 0 + 1) = T[0]
        BY <2>1, SumOne
    <3> QED BY <1>3, <2>0, <3>1, <3>2
  <2> QED BY <1>2, <2>2 DEF Conv, T
<1>5. ASSUME NEW j \in Nat
      PROVE  Coefficient(r, j + 1) = Add(mul(b, Coefficient(p, j + 1)), mul(a, Coefficient(p, j)))
  <2> DEFINE m == j + 1
             T == Crossed(f, g, m)
  <2>0. m \in Nat /\ 1 \in Nat /\ m - 0 = m /\ m - 1 = j /\ 0 <= m /\ 1 <= m /\ m + 1 >= 2
      OBVIOUS
  <2>1. T \in Families /\ \A i \in Nat : T[i] = IF i <= m THEN mul(f[i], g[m - i]) ELSE 0
    <3> HIDE DEF m
    <3> QED BY <1>3, <2>0, ConvFacts, ZenonT(40)
  <2> HIDE DEF T, m
  <2>2. T[0] = mul(f[0], g[m]) /\ T[1] = mul(f[1], g[j])
    <3>1. T[0] = mul(f[0], g[m - 0]) /\ T[1] = mul(f[1], g[m - 1])
        BY <2>0, <2>1
    <3> QED BY <2>0, <3>1
  <2>3. T[0] = mul(b, Coefficient(p, m)) /\ T[1] = mul(a, Coefficient(p, j))
      BY <1>3, <2>0, <2>2
  <2>4. \A i \in Nat : i >= 2 => T[i] = 0
      BY <1>3, <2>1, MulZero
  <2>5. Total(T, m + 1) = Total(T, 2)
      BY <2>0, <2>1, <2>4, SumTail
  <2>6. Total(T, 1 + 1) = Add(Total(T, 1), T[1]) /\ Total(T, 1) = T[0]
      BY <2>1, SumDef, SumOne
  <2>7. Conv(f, g, m) = Add(T[0], T[1])
      BY <2>5, <2>6 DEF Conv, T
  <2> QED BY <1>2, <2>0, <2>3, <2>7 DEF m
<1> QED BY <1>2, <1>4, <1>5 DEF r, q

(* Values: of a product by a x + b, of a sum, of zeros. *)
LEMMA EvalLinear ==
    ASSUME NEW p \in Polys, Len(p) >= 1, NEW a \in Symbols, NEW b \in Symbols, NEW y \in Symbols
    PROVE  poly_eval(poly_mul(p, <<a, b>>), y) = mul(poly_eval(p, y), Add(mul(a, y), b))
<1> DEFINE r == poly_mul(p, <<a, b>>)
           L == Len(p)
           t == Terms(p, y)
           u == Terms(r, y)
           c == mul(a, y)
           A == [j \in Nat |-> mul(b, t[j])]
           D == [j \in Nat |-> mul(c, t[j])]
           B == [j \in Nat |-> IF j = 0 THEN 0 ELSE D[j - 1]]
           V == poly_eval(p, y)
<1>1. /\ r \in Polys /\ Len(r) = L + 1 /\ L \in Nat /\ L >= 1
      /\ Coefficient(r, 0) = mul(b, Coefficient(p, 0))
      /\ \A j \in Nat : Coefficient(r, j + 1) = Add(mul(b, Coefficient(p, j + 1)), mul(a, Coefficient(p, j)))
    BY MulLinear, CoefficientFacts
<1> HIDE DEF r
<1>2. /\ t \in Families /\ u \in Families
      /\ \A j \in Nat : t[j] = mul(Coefficient(p, j), Power(y, j))
      /\ \A j \in Nat : u[j] = mul(Coefficient(r, j), Power(y, j))
    BY <1>1, TermsFacts
<1>3. V \in Symbols /\ c \in Symbols
    BY HornerDef, MulType
<1>4. V = Total(t, L) /\ V = Total(t, L + 1) /\ poly_eval(r, y) = Total(u, L + 1)
    BY <1>1, EvalSum, SMTT(30)
<1>5. \A j \in Nat : t[j] \in Symbols /\ Coefficient(p, j) \in Symbols /\ Power(y, j) \in Symbols
    BY <1>2, CoefficientFacts, PowerDef DEF Families
<1> HIDE DEF t, u, c, V
<1>6. D \in Families /\ A \in Families
    BY <1>3, <1>5, MulType DEF Families
<1>7. B \in Families
  <2> HIDE DEF D
  <2>1. \A j \in Nat : j # 0 => D[j - 1] \in Symbols
      BY <1>6 DEF Families
  <2> QED BY <2>1, SymbolsFacts DEF Families
<1>8. /\ \A j \in Nat : A[j] = mul(b, t[j]) /\ D[j] = mul(c, t[j])
      /\ B[0] = 0 /\ \A j \in Nat : B[j + 1] = D[j]
  <2>1. \A j \in Nat : j + 1 \in Nat /\ j + 1 # 0 /\ (j + 1) - 1 = j
      OBVIOUS
  <2>2. \A j \in Nat : A[j] = mul(b, t[j]) /\ D[j] = mul(c, t[j])
      OBVIOUS
  <2> HIDE DEF A, D
  <2> QED BY <2>1, <2>2
<1> HIDE DEF A, D, B
<1>9. \A j \in Nat : u[j] = Add(A[j], B[j])
  <2>1. u[0] = Add(A[0], B[0])
    <3>1. Coefficient(p, 0) \in Symbols /\ Power(y, 0) \in Symbols
        BY <1>5
    <3>2. mul(mul(b, Coefficient(p, 0)), Power(y, 0)) = mul(b, mul(Coefficient(p, 0), Power(y, 0)))
        BY <3>1, MulAssoc
    <3>3. u[0] = A[0] /\ A[0] \in Symbols
        BY <1>1, <1>2, <1>6, <1>8, <3>2 DEF Families
    <3> QED BY <1>8, <3>3, AddLaws
  <2>2. ASSUME NEW j \in Nat PROVE u[j + 1] = Add(A[j + 1], B[j + 1])
    <3> DEFINE d == Coefficient(p, j + 1)
               e == Coefficient(p, j)
               w == Power(y, j)
               z == Power(y, j + 1)
    <3>0. j + 1 \in Nat
        OBVIOUS
    <3>1. j + 1 \in Nat /\ d \in Symbols /\ e \in Symbols /\ w \in Symbols /\ z \in Symbols /\ z = mul(w, y)
        BY <1>5, <3>0, PowerDef
    <3>2. u[j + 1] = mul(Add(mul(b, d), mul(a, e)), z)
        BY <1>1, <1>2, <3>1
    <3>3. A[j + 1] = mul(b, mul(d, z)) /\ B[j + 1] = mul(mul(a, y), mul(e, w))
        BY <1>2, <1>8, <3>1 DEF c
    <3> HIDE DEF d, e, w, z
    <3>4. mul(b, d) \in Symbols /\ mul(a, e) \in Symbols /\ mul(e, w) \in Symbols /\ mul(y, w) \in Symbols
        BY <3>1, MulType
    <3>5. mul(Add(mul(b, d), mul(a, e)), z) = Add(mul(mul(b, d), z), mul(mul(a, e), z))
      <4>1. Add(mul(b, d), mul(a, e)) \in Symbols
          BY <3>4, AddLaws
      <4>2. mul(z, Add(mul(b, d), mul(a, e))) = Add(mul(z, mul(b, d)), mul(z, mul(a, e)))
          BY <3>1, <3>4, MulDistributes
      <4> QED BY <3>1, <3>4, <4>1, <4>2, MulComm
    <3>6. mul(mul(b, d), z) = mul(b, mul(d, z))
        BY <3>1, MulAssoc
    <3>7. mul(mul(a, e), z) = mul(mul(a, y), mul(e, w))
      <4>1. mul(mul(a, e), mul(w, y)) = mul(a, mul(e, mul(w, y)))
          BY <3>1, MulAssoc
      <4>2. mul(e, mul(w, y)) = mul(mul(e, w), y)
          BY <3>1, MulAssoc
      <4>3. mul(mul(e, w), y) = mul(y, mul(e, w))
          BY <3>1, <3>4, MulComm
      <4>4. mul(mul(a, y), mul(e, w)) = mul(a, mul(y, mul(e, w)))
          BY <3>1, <3>4, MulAssoc
      <4> QED BY <3>1, <4>1, <4>2, <4>3, <4>4
    <3> QED BY <3>2, <3>3, <3>5, <3>6, <3>7
  <2>3. ASSUME NEW j \in Nat PROVE u[j] = Add(A[j], B[j])
    <3>1. j = 0 \/ (j - 1 \in Nat /\ (j - 1) + 1 = j)
        OBVIOUS
    <3> QED BY <2>1, <2>2, <3>1
  <2> QED BY <2>3
<1>10. Total(u, L + 1) = Add(mul(b, V), mul(c, V))
  <2>1. L + 1 \in Nat /\ L \in Nat /\ \A j \in 0 .. L - 1 : j \in Nat
      BY <1>1
  <2> HIDE DEF L
  <2>2. Total(u, L + 1) = Add(Total(A, L + 1), Total(B, L + 1))
      BY <1>2, <1>6, <1>7, <1>9, <2>1, SumAdd
  <2>3. Total(A, L + 1) = mul(b, V)
      BY <1>2, <1>4, <1>6, <1>8, <2>1, SumScale
  <2>4. Total(B, L + 1) = Add(B[0], Total(D, L))
      BY <1>6, <1>7, <1>8, <2>1, SumFirst
  <2>5. Total(D, L) = mul(c, V)
    <3>1. \A j \in 0 .. L - 1 : D[j] = mul(c, t[j])
        BY <1>8, <2>1
    <3>2. Total(D, L) = mul(c, Total(t, L))
        BY <1>2, <1>3, <1>6, <2>1, <3>1, SumScale
    <3> QED BY <1>4, <3>2
  <2>6. Add(0, mul(c, V)) = mul(c, V)
      BY <1>3, MulType, AddLaws
  <2> QED BY <1>8, <2>2, <2>3, <2>4, <2>5, <2>6
<1>11. Add(mul(b, V), mul(c, V)) = mul(V, Add(c, b))
  <2>1. mul(V, Add(c, b)) = Add(mul(V, c), mul(V, b))
      BY <1>3, MulDistributes
  <2>2. mul(V, c) = mul(c, V) /\ mul(V, b) = mul(b, V)
      BY <1>3, MulComm
  <2>3. Add(mul(b, V), mul(c, V)) = Add(mul(c, V), mul(b, V))
      BY <1>3, MulType, AddLaws
  <2> QED BY <2>1, <2>2, <2>3
<1> QED BY <1>4, <1>10, <1>11 DEF r, V, c

(* The value of a sum of polynomials of one length. *)
LEMMA EvalAdd ==
    ASSUME NEW p \in Polys, NEW q \in Polys, Len(p) >= 1, Len(q) = Len(p), NEW y \in Symbols
    PROVE  poly_eval(poly_add(p, q), y) = Add(poly_eval(p, y), poly_eval(q, y))
<1> DEFINE r == poly_add(p, q)
           L == Len(p)
<1>1. /\ r \in Polys /\ Len(r) = poly_max(L, L) /\ L \in Nat
      /\ \A j \in Nat : Coefficient(r, j) = Add(Coefficient(p, j), Coefficient(q, j))
    BY PolyAddFacts, CoefficientFacts
<1>2. Len(r) = L
    BY <1>1 DEF poly_max
<1> HIDE DEF r
<1>3. /\ Terms(p, y) \in Families /\ Terms(q, y) \in Families /\ Terms(r, y) \in Families
    BY <1>1, TermsFacts
<1>4. ASSUME NEW j \in Nat PROVE Terms(r, y)[j] = Add(Terms(p, y)[j], Terms(q, y)[j])
  <2> DEFINE a == Coefficient(p, j)
             b == Coefficient(q, j)
             w == Power(y, j)
  <2>1. a \in Symbols /\ b \in Symbols /\ w \in Symbols
      BY CoefficientFacts, PowerDef
  <2>2. /\ Terms(r, y)[j] = mul(Add(a, b), w) /\ Terms(p, y)[j] = mul(a, w) /\ Terms(q, y)[j] = mul(b, w)
      BY <1>1, TermsFacts
  <2> HIDE DEF a, b, w
  <2>3. mul(w, Add(a, b)) = Add(mul(w, a), mul(w, b))
      BY <2>1, MulDistributes
  <2>4. mul(w, Add(a, b)) = mul(Add(a, b), w) /\ mul(w, a) = mul(a, w) /\ mul(w, b) = mul(b, w)
      BY <2>1, MulComm, AddLaws
  <2> QED BY <2>2, <2>3, <2>4
<1>5. poly_eval(p, y) = Total(Terms(p, y), L) /\ poly_eval(q, y) = Total(Terms(q, y), L)
      /\ poly_eval(r, y) = Total(Terms(r, y), L)
    BY <1>1, <1>2, EvalSum
<1>6. Total(Terms(r, y), L) = Add(Total(Terms(p, y), L), Total(Terms(q, y), L))
    BY <1>1, <1>3, <1>4, SumAdd
<1> QED BY <1>5, <1>6 DEF r

------------------------------------------------------------------------------
(* Roots.                                                                  *)

(* p divided by the variable less x: what Horner's scheme leaves on its way. *)
Quotient(p, x) == [k \in 1 .. Len(p) - 1 |-> Horner(p, x, k - 1)]

(* Division with remainder by the variable less x. *)
LEMMA QuotientFacts ==
    ASSUME NEW p \in Polys, Len(p) >= 2, NEW x \in Symbols
    PROVE  /\ Quotient(p, x) \in Polys /\ Len(Quotient(p, x)) = Len(p) - 1
           /\ Quotient(p, x)[1] = p[1]
           /\ \A y \in Symbols :
                 poly_eval(p, y) = Add(mul(Add(y, x), poly_eval(Quotient(p, x), y)), poly_eval(p, x))
<1> DEFINE L == Len(p)
           q == Quotient(p, x)
           H(k) == Horner(p, x, k)
<1>1. L \in Nat /\ L >= 2 /\ L >= 1 /\ \A i \in 1 .. L : p[i] \in Symbols
    BY CoefficientFacts
<1>2. /\ H(0) = p[1] /\ \A k \in 0 .. L - 1 : H(k) \in Symbols
      /\ \A k \in 0 .. L - 2 : H(k + 1) = Add(mul(H(k), x), p[k + 2])
      /\ poly_eval(p, x) = H(L - 1)
    BY <1>1, HornerDef
<1> HIDE DEF H
<1>3. /\ q \in Polys /\ Len(q) = L - 1
      /\ \A k \in 1 .. L - 1 : q[k] = H(k - 1)
  <2>1. \A k \in 1 .. L - 1 : k - 1 \in 0 .. L - 1
      BY <1>1
  <2>2. q = [k \in 1 .. L - 1 |-> H(k - 1)]
      BY DEF Quotient, H
  <2> HIDE DEF q, L
  <2>3. q \in [1 .. L - 1 -> Symbols] /\ L - 1 \in Nat
      BY <1>1, <1>2, <2>1, <2>2
  <2> QED BY <2>2, <2>3, SeqOfFunction DEF Polys
<1> HIDE DEF q
<1>4. q[1] = p[1]
  <2>1. 1 \in 1 .. L - 1 /\ 1 - 1 = 0
      BY <1>1
  <2> QED BY <1>2, <1>3, <2>1
<1>5. ASSUME NEW y \in Symbols
      PROVE  poly_eval(p, y) = Add(mul(Add(y, x), poly_eval(q, y)), poly_eval(p, x))
  <2> DEFINE P(k) == Horner(p, y, k)
             Q(k) == Horner(q, y, k)
             z == Add(y, x)
             S == {k \in Nat : k <= L - 2 => P(k + 1) = Add(mul(z, Q(k)), H(k + 1))}
  <2>1. /\ P(0) = p[1] /\ \A k \in 0 .. L - 1 : P(k) \in Symbols
        /\ \A k \in 0 .. L - 2 : P(k + 1) = Add(mul(P(k), y), p[k + 2])
        /\ poly_eval(p, y) = P(L - 1)
      BY <1>1, HornerDef
  <2>2. /\ Q(0) = q[1] /\ \A k \in 0 .. L - 2 : Q(k) \in Symbols
        /\ \A k \in 0 .. L - 3 : Q(k + 1) = Add(mul(Q(k), y), q[k + 2])
        /\ poly_eval(q, y) = Q(L - 2)
    <3>1. Len(q) >= 1 /\ Len(q) - 1 = L - 2 /\ Len(q) - 2 = L - 3
        BY <1>1, <1>3
    <3>2. /\ Q(0) = q[1] /\ \A k \in 0 .. Len(q) - 1 : Q(k) \in Symbols
          /\ \A k \in 0 .. Len(q) - 2 : Q(k + 1) = Add(mul(Q(k), y), q[k + 2])
          /\ poly_eval(q, y) = Q(Len(q) - 1)
        BY <1>3, <3>1, HornerDef
    <3> HIDE DEF Q
    <3> QED BY <3>1, <3>2
  <2>3. z \in Symbols
      BY AddLaws
  <2> HIDE DEF P, Q, L
  <2>4. 0 \in S
    <3>1. 0 \in 0 .. L - 2 /\ 0 + 1 = 1 /\ 0 + 2 = 2 /\ 1 \in 1 .. L /\ 2 \in 1 .. L
        BY <1>1
    <3> DEFINE a == p[1]
               b == p[2]
    <3>2. P(0 + 1) = Add(mul(a, y), b) /\ H(0 + 1) = Add(mul(a, x), b) /\ Q(0) = a
        BY <1>2, <1>4, <2>1, <2>2, <3>1
    <3>3. a \in Symbols /\ b \in Symbols
        BY <1>1, <3>1
    <3> HIDE DEF a, b
    <3>4. mul(a, Add(y, x)) = Add(mul(a, y), mul(a, x)) /\ mul(z, a) = mul(a, z)
        BY <2>3, <3>3, MulDistributes, MulComm
    <3>5. mul(a, y) \in Symbols /\ mul(a, x) \in Symbols
        BY <3>3, MulType
    <3>6. Add(Add(mul(a, y), mul(a, x)), Add(mul(a, x), b)) = Add(mul(a, y), b)
      <4> DEFINE c == mul(a, y)
                 d == mul(a, x)
      <4> HIDE DEF c, d
      <4>1. c \in Symbols /\ d \in Symbols /\ Add(d, b) \in Symbols /\ Add(c, d) \in Symbols
          BY <3>3, <3>5, AddLaws DEF c, d
      <4>2. Add(Add(c, d), Add(d, b)) = Add(Add(Add(c, d), d), b)
          BY <3>3, <4>1, AddLaws
      <4> QED BY <4>1, <4>2, AddCancel DEF c, d
    <3> QED BY <3>2, <3>4, <3>6
  <2>5. ASSUME NEW k \in Nat, k \in S PROVE k + 1 \in S
    <3> SUFFICES ASSUME k + 1 <= L - 2 PROVE P((k + 1) + 1) = Add(mul(z, Q(k + 1)), H((k + 1) + 1))
        OBVIOUS
    <3>1. /\ k \in 0 .. L - 3 /\ k \in 0 .. L - 2 /\ k + 1 \in 0 .. L - 2 /\ k + 1 \in 0 .. L - 1
          /\ (k + 1) + 1 \in 1 .. L - 1 /\ k + 2 \in 1 .. L - 1 /\ (k + 2) - 1 = k + 1
          /\ (k + 1) + 2 \in 1 .. L
        BY <1>1
    <3> DEFINE a == Q(k)
               h == H(k + 1)
               c == p[(k + 1) + 2]
    <3>2. P(k + 1) = Add(mul(z, a), h)
        BY <1>1, <2>5
    <3>3. /\ P((k + 1) + 1) = Add(mul(P(k + 1), y), c)
          /\ H((k + 1) + 1) = Add(mul(h, x), c)
          /\ Q(k + 1) = Add(mul(a, y), h)
      <4>1. q[k + 2] = h
          BY <1>3, <3>1
      <4> QED BY <1>2, <2>1, <2>2, <3>1, <4>1
    <3>4. a \in Symbols /\ h \in Symbols /\ c \in Symbols
        BY <1>1, <1>2, <2>2, <3>1
    <3> HIDE DEF a, h, c
    <3> DEFINE A == mul(z, mul(a, y))
               D == mul(h, y)
               B == mul(h, x)
    <3>5. mul(Add(mul(z, a), h), y) = Add(A, D)
      <4>1. mul(y, Add(mul(z, a), h)) = Add(mul(y, mul(z, a)), mul(y, h))
          BY <2>3, <3>4, MulType, MulDistributes
      <4>2. mul(y, mul(z, a)) = mul(mul(z, a), y) /\ mul(y, h) = mul(h, y)
          BY <2>3, <3>4, MulType, MulComm
      <4>3. mul(mul(z, a), y) = mul(z, mul(a, y))
          BY <2>3, <3>4, MulAssoc
      <4>4. mul(y, Add(mul(z, a), h)) = mul(Add(mul(z, a), h), y)
          BY <2>3, <3>4, MulType, AddLaws, MulComm
      <4> QED BY <4>1, <4>2, <4>3, <4>4
    <3>6. mul(z, Add(mul(a, y), h)) = Add(A, Add(D, B))
      <4>1. mul(z, Add(mul(a, y), h)) = Add(A, mul(z, h))
          BY <2>3, <3>4, MulType, MulDistributes
      <4>2. mul(z, h) = mul(h, z)
          BY <2>3, <3>4, MulComm
      <4>3. mul(h, z) = Add(D, B)
          BY <3>4, MulDistributes
      <4> QED BY <4>1, <4>2, <4>3
    <3>7. A \in Symbols /\ D \in Symbols /\ B \in Symbols
        BY <2>3, <3>4, MulType
    <3> HIDE DEF A, D, B
    <3>8. Add(Add(A, Add(D, B)), Add(B, c)) = Add(Add(A, D), c)
      <4>1. Add(A, Add(D, B)) = Add(Add(A, D), B) /\ Add(A, D) \in Symbols
          BY <3>7, AddLaws
      <4> DEFINE E == Add(A, D)
      <4> HIDE DEF E
      <4>2. Add(Add(E, B), Add(B, c)) = Add(Add(Add(E, B), B), c)
        <5>1. E \in Symbols /\ Add(E, B) \in Symbols
            BY <3>7, <4>1, AddLaws DEF E
        <5> QED BY <3>4, <3>7, <5>1, AddLaws
      <4>3. Add(Add(E, B), B) = E
          BY <3>7, <4>1, AddCancel DEF E
      <4> QED BY <4>1, <4>2, <4>3 DEF E
    <3> QED BY <3>2, <3>3, <3>5, <3>6, <3>8 DEF B
  <2> HIDE DEF S
  <2>6. Nat \subseteq S
      BY <2>4, <2>5, Induction
  <2>7. L - 2 \in Nat /\ L - 2 <= L - 2 /\ (L - 2) + 1 = L - 1
      BY <1>1
  <2>8. P(L - 1) = Add(mul(z, Q(L - 2)), H(L - 1))
      BY <2>6, <2>7 DEF S
  <2> QED BY <1>2, <2>1, <2>2, <2>8
<1> QED BY <1>3, <1>4, <1>5 DEF q, L

(* The field is finite. *)
LEMMA SymbolsFinite == IsFiniteSet(Symbols)
    BY FS_Interval, TableAssumption DEF Symbols

(* A polynomial has no more roots than its degree. *)
THEOREM RootBound ==
    ASSUME NEW p \in Polys, Len(p) >= 1, p[1] # 0,
           NEW R \in SUBSET Symbols, \A x \in R : poly_eval(p, x) = 0
    PROVE  IsFiniteSet(R) /\ Cardinality(R) <= Len(p) - 1
<1> DEFINE Good(q, T) == q[1] # 0 /\ (\A x \in T : poly_eval(q, x) = 0)
           S == {n \in Nat : \A q \in Polys : \A T \in SUBSET Symbols :
                     Len(q) = n + 1 /\ Good(q, T) => Cardinality(T) <= n}
<1>1. \A T \in SUBSET Symbols : IsFiniteSet(T) /\ Cardinality(T) \in Nat
    BY SymbolsFinite, FS_Subset, FS_CardinalityType
<1>2. 0 \in S
  <2> SUFFICES ASSUME NEW q \in Polys, NEW T \in SUBSET Symbols, Len(q) = 0 + 1, Good(q, T)
               PROVE  Cardinality(T) <= 0
      OBVIOUS
  <2>1. ASSUME NEW x \in T PROVE FALSE
    <3>1. Len(q) >= 1 /\ Len(q) - 1 = 0 /\ x \in Symbols
        OBVIOUS
    <3>2. poly_eval(q, x) = Horner(q, x, Len(q) - 1) /\ Horner(q, x, 0) = q[1]
        BY <3>1, HornerDef
    <3> QED BY <3>1, <3>2
  <2>2. T = {}
      BY <2>1
  <2> QED BY <2>2, FS_EmptySet
<1>3. ASSUME NEW n \in Nat, n \in S PROVE n + 1 \in S
  <2> SUFFICES ASSUME NEW q \in Polys, NEW T \in SUBSET Symbols, Len(q) = (n + 1) + 1, Good(q, T)
               PROVE  Cardinality(T) <= n + 1
      OBVIOUS
  <2> SUFFICES ASSUME T # {} PROVE Cardinality(T) <= n + 1
    <3>1. Cardinality({}) = 0 /\ 0 <= n + 1
        BY FS_EmptySet
    <3> QED BY <3>1
  <2>1. PICK x : x \in T
      OBVIOUS
  <2> DEFINE r == Quotient(q, x)
             U == T \ {x}
  <2>2. Len(q) >= 2 /\ Len(q) - 1 = n + 1 /\ x \in Symbols /\ Len(q) >= 1
      BY <2>1
  <2>3. /\ r \in Polys /\ Len(r) = n + 1 /\ r[1] = q[1]
        /\ \A y \in Symbols : poly_eval(q, y) = Add(mul(Add(y, x), poly_eval(r, y)), poly_eval(q, x))
      BY <2>2, QuotientFacts
  <2> HIDE DEF r
  <2>4. ASSUME NEW y \in U PROVE poly_eval(r, y) = 0
    <3>1. y \in Symbols /\ y # x /\ poly_eval(q, y) = 0 /\ poly_eval(q, x) = 0
        BY <2>1
    <3>2. Add(y, x) \in Symbols /\ Add(y, x) # 0
        BY <2>2, <3>1, AddLaws, AddCancel
    <3>3. poly_eval(r, y) \in Symbols
      <4>1. Len(r) >= 1
          BY <2>3
      <4> QED BY <2>3, <3>1, <4>1, HornerDef
    <3>4. mul(Add(y, x), poly_eval(r, y)) \in Symbols
        BY <3>2, <3>3, MulType
    <3>5. mul(Add(y, x), poly_eval(r, y)) = 0
        BY <2>3, <3>1, <3>4, AddLaws
    <3> QED BY <3>2, <3>3, <3>5, MulNonZero
  <2>5. Cardinality(U) <= n
    <3>1. Good(r, U) /\ U \in SUBSET Symbols
        BY <2>3, <2>4
    <3> QED BY <1>3, <2>3, <3>1
  <2>6. Cardinality(U) = Cardinality(T) - 1
      BY <1>1, <2>1, FS_RemoveElement
  <2>7. Cardinality(T) \in Nat
      BY <1>1
  <2> QED BY <2>5, <2>6, <2>7
<1> HIDE DEF S
<1>4. Nat \subseteq S
    BY <1>2, <1>3, Induction
<1>5. Len(p) - 1 \in Nat /\ (Len(p) - 1) + 1 = Len(p)
    BY CoefficientFacts
<1>6. Len(p) - 1 \in S
    BY <1>4, <1>5
<1> QED BY <1>1, <1>5, <1>6 DEF S

------------------------------------------------------------------------------
(* Weighted power sums.                                                    *)

(* The terms of the i-th power sum of the points X with weights Z. *)
Moment(Z, X, i) == [j \in Nat |-> mul(Z[j], Power(X[j], i))]
Support(Z, n) == {j \in 0 .. n - 1 : Z[j] # 0}

(* The terms of a power sum are symbols. *)
LEMMA MomentFacts ==
    ASSUME NEW Z \in Families, NEW X \in Families, NEW i \in Nat
    PROVE  /\ Moment(Z, X, i) \in Families
           /\ \A j \in Nat : Moment(Z, X, i)[j] = mul(Z[j], Power(X[j], i))
<1>1. \A j \in Nat : mul(Z[j], Power(X[j], i)) \in Symbols
    BY PowerDef, MulType DEF Families
<1> QED BY <1>1 DEF Moment, Families

(* Only finitely many weights count. *)
LEMMA SupportFacts ==
    ASSUME NEW Z, NEW n \in Nat
    PROVE  IsFiniteSet(Support(Z, n)) /\ Cardinality(Support(Z, n)) \in Nat
<1>1. IsFiniteSet(0 .. n - 1)
    BY FS_Interval
<1>2. Support(Z, n) \in SUBSET (0 .. n - 1)
    BY DEF Support
<1> QED BY <1>1, <1>2, FS_Subset, FS_CardinalityType

(* m weights that are not zero, at different points, cannot make m power sums
   vanish. *)
THEOREM Vandermonde ==
    ASSUME NEW X \in Families, NEW n \in Nat,
           \A i, j \in 0 .. n - 1 : X[i] = X[j] => i = j,
           NEW Z \in Families, NEW m \in Nat, Cardinality(Support(Z, n)) <= m,
           \A i \in 0 .. m - 1 : Total(Moment(Z, X, i), n) = 0
    PROVE  \A j \in 0 .. n - 1 : Z[j] = 0
<1> DEFINE Vanish(z, l, k) == /\ Cardinality(Support(z, k)) <= l
                              /\ \A i \in 0 .. l - 1 : Total(Moment(z, X, i), k) = 0
           S == {k \in Nat : k <= n => \A z \in Families : \A l \in Nat :
                     Vanish(z, l, k) => \A j \in 0 .. k - 1 : z[j] = 0}
<1>1. 0 \in S
    OBVIOUS
<1>2. ASSUME NEW k \in Nat, k \in S PROVE k + 1 \in S
  <2> SUFFICES ASSUME k + 1 <= n, NEW z \in Families, NEW l \in Nat, Vanish(z, l, k + 1)
               PROVE  \A j \in 0 .. k : z[j] = 0
    <3>1. (k + 1) - 1 = k
        OBVIOUS
    <3> QED BY <3>1
  <2>1. \A y \in Families : \A o \in Nat : Vanish(y, o, k) => \A j \in 0 .. k - 1 : y[j] = 0
      BY <1>2
  <2>0. /\ Cardinality(Support(z, k + 1)) <= l
        /\ \A i \in 0 .. l - 1 : Total(Moment(z, X, i), k + 1) = 0
      OBVIOUS
  <2> HIDE DEF S, Vanish
  <2>2. \A y, j : j \in Support(y, k + 1) <=> j \in 0 .. k /\ y[j] # 0
      BY DEF Support
  <2>3. \A y, j : j \in Support(y, k) <=> j \in 0 .. k - 1 /\ y[j] # 0
      BY DEF Support
  <2>4. IsFiniteSet(Support(z, k + 1)) /\ Cardinality(Support(z, k + 1)) \in Nat
      BY SupportFacts
  <2>5. \A y \in Families : \A i \in Nat :
            /\ Moment(y, X, i) \in Families
            /\ Total(Moment(y, X, i), k) \in Symbols
            /\ Total(Moment(y, X, i), k + 1) = Add(Total(Moment(y, X, i), k), Moment(y, X, i)[k])
      BY MomentFacts, SumDef
  <2>6. X[k] \in Symbols /\ z[k] \in Symbols /\ \A j \in Nat : X[j] \in Symbols /\ z[j] \in Symbols
      BY DEF Families
  <2>10. ASSUME NEW y \in Families, NEW i \in Nat
        PROVE  Moment(y, X, i) \in Families /\ \A j \in Nat : Moment(y, X, i)[j] = mul(y[j], Power(X[j], i))
      BY MomentFacts, ZenonT(40)
  <2>7. CASE z[k] = 0
    <3>1. Support(z, k + 1) = Support(z, k)
      <4>1. \A j : j \in 0 .. k <=> j \in 0 .. k - 1 \/ j = k
          OBVIOUS
      <4>2. \A j : j \in Support(z, k + 1) <=> j \in Support(z, k)
          BY <2>2, <2>3, <2>7, <4>1
      <4> QED BY <4>2 DEF Support
    <3>2. ASSUME NEW i \in 0 .. l - 1 PROVE Total(Moment(z, X, i), k) = 0
      <4>1. i \in Nat
          OBVIOUS
      <4>2. Moment(z, X, i)[k] = 0
        <5>1. Moment(z, X, i)[k] = mul(z[k], Power(X[k], i))
            BY <4>1, MomentFacts
        <5> QED BY <2>7, <5>1, MulZero
      <4>3. Total(Moment(z, X, i), k + 1) = 0
          BY <2>0
      <4>4. /\ Total(Moment(z, X, i), k) \in Symbols
            /\ Total(Moment(z, X, i), k + 1) = Add(Total(Moment(z, X, i), k), Moment(z, X, i)[k])
          BY <2>5, <4>1
      <4> QED BY <4>2, <4>3, <4>4, AddLaws
    <3>3. \A j \in 0 .. k - 1 : z[j] = 0
        BY <2>0, <2>1, <3>1, <3>2 DEF Vanish
    <3> QED BY <2>7, <3>3
  <2>8. CASE z[k] # 0
    <3> DEFINE c == X[k]
    <3>1. PICK y \in Families : \A j \in Nat : y[j] = mul(z[j], Add(X[j], c))
      <4>1. [j \in Nat |-> mul(z[j], Add(X[j], c))] \in Families
          BY <2>6, AddLaws, MulType DEF Families
      <4> QED BY <4>1
    <3>2. c \in Symbols
        BY <2>6
    <3>3. l >= 1 /\ Cardinality(Support(y, k)) <= l - 1
      <4>1. k \in Support(z, k + 1)
          BY <2>2, <2>8
      <4>2. /\ IsFiniteSet(Support(z, k + 1) \ {k})
            /\ Cardinality(Support(z, k + 1) \ {k}) = Cardinality(Support(z, k + 1)) - 1
          BY <2>4, <4>1, FS_RemoveElement
      <4>3. ASSUME NEW j \in Support(y, k) PROVE j \in Support(z, k + 1) \ {k}
        <5>1. j \in 0 .. k - 1 /\ y[j] # 0
            BY <2>3
        <5>2. j \in Nat /\ j \in 0 .. k /\ j # k
            BY <5>1
        <5>3. z[j] # 0
            BY <3>1, <5>1, <5>2, MulZero
        <5> QED BY <2>2, <5>2, <5>3
      <4>4. Support(y, k) \in SUBSET (Support(z, k + 1) \ {k})
          BY <4>3
      <4>5. Cardinality(Support(y, k)) <= Cardinality(Support(z, k + 1) \ {k})
          BY <4>2, <4>4, FS_Subset
      <4>6. Cardinality(Support(y, k)) \in Nat
          BY SupportFacts
      <4>7. Cardinality(Support(z, k + 1)) <= l
          BY <2>0
      <4> QED BY <2>4, <4>2, <4>5, <4>6, <4>7
    <3>4. ASSUME NEW i \in 0 .. (l - 1) - 1 PROVE Total(Moment(y, X, i), k) = 0
      <4> DEFINE A == Moment(z, X, i + 1)
                 B == Moment(z, X, i)
                 M == Moment(y, X, i)
      <4>1. i \in Nat /\ i + 1 \in Nat /\ i \in 0 .. l - 1 /\ i + 1 \in 0 .. l - 1 /\ k + 1 \in Nat
          BY <3>3
      <4>2. /\ A \in Families /\ B \in Families /\ M \in Families
            /\ \A j \in Nat : A[j] = mul(z[j], Power(X[j], i + 1))
            /\ \A j \in Nat : B[j] = mul(z[j], Power(X[j], i))
            /\ \A j \in Nat : M[j] = mul(y[j], Power(X[j], i))
        <5>1. A \in Families /\ \A j \in Nat : A[j] = mul(z[j], Power(X[j], i + 1))
            BY <2>10, <4>1
        <5>2. B \in Families /\ \A j \in Nat : B[j] = mul(z[j], Power(X[j], i))
            BY <2>10, <4>1
        <5>3. M \in Families /\ \A j \in Nat : M[j] = mul(y[j], Power(X[j], i))
            BY <2>10, <4>1
        <5> QED BY <5>1, <5>2, <5>3
      <4>3. Total(A, k + 1) = 0 /\ Total(B, k + 1) = 0
          BY <2>0, <4>1
      <4>4. Total(M, k) \in Symbols /\ Total(M, k + 1) = Add(Total(M, k), M[k])
          BY <2>5, <3>1, <4>1
      <4> HIDE DEF A, B, M
      <4> DEFINE D == [j \in Nat |-> mul(c, B[j])]
      <4>5. D \in Families /\ \A j \in Nat : D[j] = mul(c, B[j])
          BY <3>2, <4>2, MulType DEF Families
      <4> HIDE DEF D
      <4>6. ASSUME NEW j \in Nat PROVE M[j] = Add(A[j], D[j])
        <5> DEFINE u == z[j]
                   v == X[j]
                   w == Power(v, i)
        <5>1. u \in Symbols /\ v \in Symbols /\ w \in Symbols /\ Power(v, i + 1) = mul(w, v)
            BY <2>6, <4>1, PowerDef
        <5>2. M[j] = mul(mul(u, Add(v, c)), w) /\ A[j] = mul(u, mul(w, v)) /\ D[j] = mul(c, mul(u, w))
            BY <3>1, <4>2, <4>5, <5>1
        <5> HIDE DEF u, v, w
        <5> HIDE DEF c
        <5>3. mul(mul(u, Add(v, c)), w) = mul(mul(u, w), Add(v, c))
          <6>1. Add(v, c) \in Symbols
              BY <3>2, <5>1, AddLaws
          <6>2. mul(mul(u, Add(v, c)), w) = mul(u, mul(Add(v, c), w))
              BY <5>1, <6>1, MulAssoc
          <6>3. mul(Add(v, c), w) = mul(w, Add(v, c))
              BY <5>1, <6>1, MulComm
          <6>4. mul(mul(u, w), Add(v, c)) = mul(u, mul(w, Add(v, c)))
              BY <5>1, <6>1, MulAssoc
          <6> QED BY <6>2, <6>3, <6>4
        <5>4. mul(mul(u, w), Add(v, c)) = Add(mul(mul(u, w), v), mul(mul(u, w), c))
            BY <3>2, <5>1, MulType, MulDistributes
        <5>5. mul(mul(u, w), v) = mul(u, mul(w, v))
            BY <5>1, MulAssoc
        <5>6. mul(mul(u, w), c) = mul(c, mul(u, w))
            BY <3>2, <5>1, MulType, MulComm
        <5> QED BY <5>2, <5>3, <5>4, <5>5, <5>6
      <4>7. Total(M, k + 1) = Add(Total(A, k + 1), Total(D, k + 1))
          BY <4>1, <4>2, <4>5, <4>6, SumAdd
      <4>8. Total(D, k + 1) = mul(c, Total(B, k + 1))
          BY <3>2, <4>1, <4>2, <4>5, SumScale
      <4>9. Total(M, k + 1) = 0
          BY <4>3, <4>7, <4>8, MulZero, AddLaws, SymbolsFacts
      <4>10. M[k] = 0
        <5>1. y[k] = mul(z[k], Add(c, c)) /\ Add(c, c) = 0
            BY <3>1, <3>2, AddLaws
        <5> QED BY <4>2, <5>1, MulZero
      <4>11. Total(M, k) = 0
          BY <4>4, <4>9, <4>10, AddLaws
      <4> QED BY <4>11 DEF M
    <3>5. \A j \in 0 .. k - 1 : y[j] = 0
      <4>1. l - 1 \in Nat
          BY <3>3
      <4>2. Vanish(y, l - 1, k)
          BY <3>3, <3>4 DEF Vanish
      <4> QED BY <2>1, <3>1, <4>1, <4>2
    <3>6. ASSUME NEW j \in 0 .. k - 1 PROVE z[j] = 0
      <4>1. j \in 0 .. n - 1 /\ k \in 0 .. n - 1 /\ j # k /\ j \in Nat
          OBVIOUS
      <4>2. X[j] # X[k] /\ X[j] \in Symbols
          BY <2>6, <4>1
      <4>3. Add(X[j], c) \in Symbols /\ Add(X[j], c) # 0
          BY <3>2, <4>2, AddLaws, AddCancel
      <4>4. mul(z[j], Add(X[j], c)) = 0
          BY <3>1, <3>5, <4>1
      <4> QED BY <2>6, <4>1, <4>3, <4>4, MulNonZero
    <3>7. z[k] = 0
      <4> DEFINE B == Moment(z, X, 0)
      <4>1. B \in Families /\ \A j \in Nat : B[j] = mul(z[j], Power(X[j], 0))
        <5>1. 0 \in Nat
            OBVIOUS
        <5> QED BY <5>1, MomentFacts, ZenonT(40)
      <4>2. Total(B, k + 1) = 0
        <5>1. 0 \in 0 .. l - 1
            BY <3>3
        <5> QED BY <2>0, <5>1
      <4> HIDE DEF B
      <4>3. \A j \in Nat : B[j] = z[j]
          BY <2>6, <4>1, PowerDef, MulOne
      <4>4. k + 1 \in Nat /\ k \in 0 .. (k + 1) - 1 /\ \A j \in 0 .. (k + 1) - 1 : j # k => j \in 0 .. k - 1 /\ j \in Nat
          OBVIOUS
      <4>5. Total(B, k + 1) = B[k]
        <5>1. \A j \in 0 .. (k + 1) - 1 : j # k => B[j] = 0
            BY <3>6, <4>3, <4>4
        <5> QED BY <4>1, <4>4, <5>1, SumSingle
      <4> QED BY <4>2, <4>3, <4>5
    <3> QED BY <2>8, <3>7
  <2> QED BY <2>7, <2>8
<1> HIDE DEF S
<1>3. Nat \subseteq S
    BY <1>1, <1>2, Induction
<1>4. Vanish(Z, m, n) /\ n <= n
    OBVIOUS
<1> HIDE DEF Vanish
<1> QED BY <1>3, <1>4 DEF S

------------------------------------------------------------------------------
(* Division by a polynomial that begins with 1.                            *)

(* Terms moved up by s. *)
LEMMA SumShift ==
    ASSUME NEW f \in Families, NEW h \in Families, NEW s \in Nat,
           \A j \in 0 .. s - 1 : h[j] = 0, \A j \in Nat : h[j + s] = f[j]
    PROVE  \A n \in Nat : Total(h, n + s) = Total(f, n)
<1> DEFINE S == {n \in Nat : Total(h, n + s) = Total(f, n)}
<1>1. 0 \in S
  <2>1. 0 + s = s
      OBVIOUS
  <2> QED BY <2>1, SumZero, SumDef
<1>2. ASSUME NEW n \in Nat, n \in S PROVE n + 1 \in S
  <2>1. n + s \in Nat /\ (n + 1) + s = (n + s) + 1
      OBVIOUS
  <2>2. Total(h, (n + s) + 1) = Add(Total(h, n + s), h[n + s])
      BY <2>1, SumDef
  <2>3. Total(f, n + 1) = Add(Total(f, n), f[n])
      BY SumDef
  <2> QED BY <1>2, <2>1, <2>2, <2>3
<1> HIDE DEF S
<1>3. Nat \subseteq S
    BY <1>1, <1>2, Induction
<1> QED BY <1>3 DEF S

(* The value of a polynomial with s zeros appended. *)
LEMMA ShiftTerms ==
    ASSUME NEW p \in Polys, NEW s \in Nat, NEW y \in Symbols, NEW n \in Nat
    PROVE  Total(Terms(p \o Zeros(s), y), n + s) = mul(Power(y, s), Total(Terms(p, y), n))
<1> DEFINE q == p \o Zeros(s)
           f == Terms(p, y)
           h == Terms(q, y)
           c == Power(y, s)
           D == [j \in Nat |-> mul(c, f[j])]
<1>1. /\ q \in Polys
      /\ \A j \in Nat : Coefficient(q, j) = IF j < s THEN 0 ELSE Coefficient(p, j - s)
    BY ShiftFacts
<1> HIDE DEF q
<1>2. /\ f \in Families /\ h \in Families
      /\ \A j \in Nat : f[j] = mul(Coefficient(p, j), Power(y, j))
      /\ \A j \in Nat : h[j] = mul(Coefficient(q, j), Power(y, j))
    BY <1>1, TermsFacts
<1>3. c \in Symbols /\ \A j \in Nat : Power(y, j) \in Symbols /\ Coefficient(p, j) \in Symbols
    BY PowerDef, CoefficientFacts
<1> HIDE DEF f, h
<1>4. D \in Families /\ \A j \in Nat : D[j] = mul(c, f[j])
    BY <1>2, <1>3, MulType DEF Families
<1> HIDE DEF D
<1>5. \A j \in 0 .. s - 1 : h[j] = 0
    BY <1>1, <1>2, MulZero
<1>6. ASSUME NEW j \in Nat PROVE h[j + s] = D[j]
  <2> DEFINE a == Coefficient(p, j)
             w == Power(y, j)
  <2>1. j + s \in Nat /\ ~(j + s < s) /\ (j + s) - s = j
      OBVIOUS
  <2>2. Power(y, j + s) = mul(w, c)
      BY PowerAdd
  <2>3. h[j + s] = mul(a, mul(w, c)) /\ D[j] = mul(c, mul(a, w))
      BY <1>1, <1>2, <1>4, <2>1, <2>2
  <2>4. a \in Symbols /\ w \in Symbols
      BY <1>3
  <2> HIDE DEF a, w, c
  <2>5. mul(a, mul(w, c)) = mul(mul(a, w), c) /\ mul(mul(a, w), c) = mul(c, mul(a, w))
      BY <1>3, <2>4, MulType, MulAssoc, MulComm
  <2> QED BY <2>3, <2>5
<1>7. Total(h, n + s) = Total(D, n)
    BY <1>2, <1>4, <1>5, <1>6, SumShift, ZenonT(40)
<1>8. Total(D, n) = mul(c, Total(f, n))
    BY <1>2, <1>3, <1>4, SumScale
<1> QED BY <1>7, <1>8 DEF q, f, h, c

(* A polynomial without its leading coefficient. *)
LEMMA TailFacts ==
    ASSUME NEW q \in Polys, Len(q) >= 1
    PROVE  /\ Tail(q) \in Polys /\ Len(Tail(q)) = Len(q) - 1
           /\ \A j \in 0 .. Len(q) - 2 : Coefficient(Tail(q), j) = Coefficient(q, j)
<1>1. /\ Tail(q) \in Polys /\ Len(Tail(q)) = Len(q) - 1 /\ Len(q) \in Nat
      /\ \A i \in 1 .. Len(q) - 1 : Tail(q)[i] = q[i + 1]
    BY DEF Polys
<1>2. ASSUME NEW j \in 0 .. Len(q) - 2 PROVE Coefficient(Tail(q), j) = Coefficient(q, j)
  <2>1. /\ j < Len(q) - 1 /\ j < Len(q) /\ Len(q) - 1 - j \in 1 .. Len(q) - 1
        /\ (Len(q) - 1 - j) + 1 = Len(q) - j
      BY <1>1
  <2>2. Tail(q)[Len(q) - 1 - j] = q[Len(q) - j]
      BY <1>1, <2>1
  <2> QED BY <1>1, <2>1, <2>2 DEF Coefficient
<1> QED BY <1>1, <1>2

(* Where the divisor vanishes, what division leaves below its own symbols has
   the value of the dividend. *)
LEMMA ReducedFacts ==
    ASSUME NEW p \in Polys, NEW q \in Polys, NEW steps \in Nat,
           Len(q) >= 1, q[1] = 1, steps + Len(q) - 1 <= Len(p)
    PROVE  /\ Reduced(p, q, steps) \in Polys /\ Len(Reduced(p, q, steps)) = Len(p)
           /\ \A y \in Symbols : poly_eval(q, y) = 0 =>
                 Total(Terms(Reduced(p, q, steps), y), Len(p) - steps) = Total(Terms(p, y), Len(p))
<1> DEFINE N == Len(p)
           L == Len(q)
           f == [i \in 1 .. steps |-> [r \in Polys |->
                    poly_add(r, poly_scale(Tail(q), r[i]) \o Zeros(Len(p) - Len(q) + 1 - i))]]
           Good(r, i) == /\ r \in Polys /\ Len(r) = N
                         /\ \A y \in Symbols : poly_eval(q, y) = 0 =>
                               Total(Terms(r, y), N - i) = Total(Terms(p, y), N)
           T == [i \in Nat |-> {r \in Polys : Good(r, i)}]
<1>1. N \in Nat /\ L \in Nat /\ L >= 1 /\ steps + L - 1 <= N
    BY CoefficientFacts
<1>2. /\ Tail(q) \in Polys /\ Len(Tail(q)) = L - 1
      /\ \A j \in 0 .. L - 2 : Coefficient(Tail(q), j) = Coefficient(q, j)
    BY <1>1, TailFacts
<1>3. p \in T[0]
  <2>1. N - 0 = N
      BY <1>1
  <2> QED BY <2>1
<1>4. ASSUME NEW y \in Symbols, poly_eval(q, y) = 0
      PROVE  Total(Terms(Tail(q), y), L - 1) = Power(y, L - 1)
  <2> DEFINE G == Total(Terms(q, y), L - 1)
  <2>1. L - 1 \in Nat /\ (L - 1) + 1 = L /\ L - (L - 1) = 1 /\ L - 1 < L /\ (L - 1) - 1 = L - 2
      BY <1>1
  <2>2. Terms(q, y) \in Families /\ Terms(Tail(q), y) \in Families
      BY <1>2, TermsFacts
  <2>3. poly_eval(q, y) = Total(Terms(q, y), L)
      BY <1>1, EvalSum
  <2>4. Total(Terms(q, y), L) = Add(G, Terms(q, y)[L - 1])
      BY <2>1, <2>2, SumDef
  <2>5. Terms(q, y)[L - 1] = Power(y, L - 1) /\ Power(y, L - 1) \in Symbols
    <3>1. Coefficient(q, L - 1) = 1
        BY <2>1 DEF Coefficient
    <3>2. Terms(q, y)[L - 1] = mul(Coefficient(q, L - 1), Power(y, L - 1))
        BY <2>1, TermsFacts
    <3>3. Power(y, L - 1) \in Symbols
        BY <2>1, PowerDef
    <3> QED BY <3>1, <3>2, <3>3, MulOne
  <2>6. G \in Symbols
      BY <2>1, <2>2, SumDef
  <2>7. G = Power(y, L - 1)
      BY <1>4, <2>3, <2>4, <2>5, <2>6, AddCancel
  <2>8. ASSUME NEW j \in 0 .. (L - 1) - 1 PROVE Terms(Tail(q), y)[j] = Terms(q, y)[j]
    <3>1. j \in Nat /\ j \in 0 .. L - 2
        BY <2>1
    <3>2. /\ Terms(Tail(q), y)[j] = mul(Coefficient(Tail(q), j), Power(y, j))
          /\ Terms(q, y)[j] = mul(Coefficient(q, j), Power(y, j))
        BY <1>2, <3>1, TermsFacts
    <3> QED BY <1>2, <3>1, <3>2
  <2>9. Total(Terms(Tail(q), y), L - 1) = G
      BY <2>1, <2>2, <2>8, SumEqual
  <2> QED BY <2>7, <2>9
<1>5. ASSUME NEW i \in 0 .. steps - 1, NEW r \in T[i] PROVE f[i + 1][r] \in T[i + 1]
  <2> DEFINE s == N - L + 1 - (i + 1)
             c == r[i + 1]
             v == poly_scale(Tail(q), c)
             w == v \o Zeros(s)
             t == poly_add(r, w)
             k == N - (i + 1)
  <2>1. r \in Polys /\ Len(r) = N /\ \A y \in Symbols : poly_eval(q, y) = 0 =>
                               Total(Terms(r, y), N - i) = Total(Terms(p, y), N)
      OBVIOUS
  <2> HIDE DEF T
  <2>2. /\ i + 1 \in 1 .. steps /\ i + 1 \in 1 .. N /\ s \in Nat /\ k \in Nat /\ N - i = k + 1
        /\ (L - 1) + s = k /\ L - 1 \in Nat /\ s + (L - 1) = k /\ k < N /\ N - k = i + 1
        /\ N - (i + 1) = k
      BY <1>1
  <2>3. f[i + 1][r] = t
      BY <2>1, <2>2
  <2>4. c \in Symbols /\ c = Coefficient(r, k)
      BY <2>1, <2>2, CoefficientFacts
  <2> HIDE DEF c, s, k, f
  <2>5. /\ v \in Polys /\ Len(v) = L - 1
        /\ \A j \in Nat : Coefficient(v, j) = mul(Coefficient(Tail(q), j), c)
      BY <1>2, <2>4, ScaleFacts
  <2> HIDE DEF v
  <2>6. w \in Polys /\ Len(w) = k
    <3>1. w \in Polys /\ Len(w) = Len(v) + s
        BY <2>2, <2>5, ShiftFacts
    <3> HIDE DEF w
    <3> QED BY <2>2, <2>5, <3>1
  <2> HIDE DEF w
  <2>7. /\ t \in Polys /\ Len(t) = poly_max(N, k)
        /\ \A j \in Nat : Coefficient(t, j) = Add(Coefficient(r, j), Coefficient(w, j))
    <3>1. r \in Polys /\ Len(r) = N
        BY <2>1
    <3> QED BY <2>6, <3>1, PolyAddFacts
  <2>8. poly_max(N, k) = N
      BY <1>1, <2>2 DEF poly_max
  <2> HIDE DEF t
  <2>9. ASSUME NEW y \in Symbols, poly_eval(q, y) = 0
        PROVE  Total(Terms(t, y), N - (i + 1)) = Total(Terms(p, y), N)
    <3> DEFINE a == Total(Terms(r, y), k)
               z == Power(y, k)
    <3>1. Terms(t, y) \in Families /\ Terms(r, y) \in Families /\ Terms(w, y) \in Families
          /\ Terms(v, y) \in Families /\ Terms(Tail(q), y) \in Families
        BY <1>2, <2>1, <2>5, <2>6, <2>7, TermsFacts
    <3>2. ASSUME NEW j \in Nat PROVE Terms(t, y)[j] = Add(Terms(r, y)[j], Terms(w, y)[j])
      <4> DEFINE d == Coefficient(r, j)
                 e == Coefficient(w, j)
                 o == Power(y, j)
      <4>1. d \in Symbols /\ e \in Symbols /\ o \in Symbols
          BY <2>1, <2>6, CoefficientFacts, PowerDef
      <4>2. Terms(r, y)[j] = mul(d, o) /\ Terms(w, y)[j] = mul(e, o)
          BY <2>1, <2>6, TermsFacts
      <4>3. Terms(t, y)[j] = mul(Add(d, e), o)
          BY <2>7, TermsFacts
      <4> HIDE DEF d, e, o
      <4>4. mul(o, Add(d, e)) = Add(mul(o, d), mul(o, e))
          BY <4>1, MulDistributes
      <4>5. mul(o, Add(d, e)) = mul(Add(d, e), o) /\ mul(o, d) = mul(d, o) /\ mul(o, e) = mul(e, o)
          BY <4>1, MulComm, AddLaws
      <4> QED BY <4>2, <4>3, <4>4, <4>5
    <3>3. Total(Terms(t, y), k) = Add(a, Total(Terms(w, y), k))
        BY <2>2, <3>1, <3>2, SumAdd
    <3>4. Total(Terms(w, y), k) = mul(Power(y, s), Total(Terms(v, y), L - 1))
      <4>1. Total(Terms(w, y), (L - 1) + s) = mul(Power(y, s), Total(Terms(v, y), L - 1))
          BY <2>2, <2>5, ShiftTerms, ZenonT(40) DEF w
      <4> QED BY <2>2, <4>1
    <3>5. Total(Terms(v, y), L - 1) = mul(c, Power(y, L - 1))
      <4>1. ASSUME NEW j \in Nat PROVE Terms(v, y)[j] = mul(c, Terms(Tail(q), y)[j])
        <5> DEFINE d == Coefficient(Tail(q), j)
                   o == Power(y, j)
        <5>1. d \in Symbols /\ o \in Symbols
            BY <1>2, CoefficientFacts, PowerDef
        <5>2. Terms(Tail(q), y)[j] = mul(d, o)
            BY <1>2, TermsFacts
        <5>3. Terms(v, y)[j] = mul(mul(d, c), o)
            BY <2>5, TermsFacts
        <5> HIDE DEF d, o
        <5>4. mul(d, c) = mul(c, d) /\ mul(mul(c, d), o) = mul(c, mul(d, o))
            BY <2>4, <5>1, MulComm, MulAssoc
        <5> QED BY <5>2, <5>3, <5>4
      <4>2. Total(Terms(v, y), L - 1) = mul(c, Total(Terms(Tail(q), y), L - 1))
          BY <2>2, <2>4, <3>1, <4>1, SumScale
      <4>3. Total(Terms(Tail(q), y), L - 1) = Power(y, L - 1)
          BY <1>4, <2>9
      <4> QED BY <4>2, <4>3
    <3>6. mul(Power(y, s), mul(c, Power(y, L - 1))) = mul(c, z)
      <4> DEFINE d == Power(y, s)
                 e == Power(y, L - 1)
      <4>1. d \in Symbols /\ e \in Symbols
          BY <2>2, PowerDef
      <4>2. z = mul(d, e)
        <5>1. Power(y, s + (L - 1)) = mul(d, e)
            BY <2>2, PowerAdd
        <5> QED BY <2>2, <5>1
      <4> HIDE DEF d, e, z
      <4>3. mul(d, mul(c, e)) = mul(mul(d, c), e) /\ mul(d, c) = mul(c, d) /\ mul(mul(c, d), e) = mul(c, mul(d, e))
          BY <2>4, <4>1, MulAssoc, MulComm
      <4> QED BY <4>2, <4>3 DEF d, e
    <3>7. Total(Terms(r, y), k + 1) = Add(a, mul(c, z))
      <4>1. Terms(r, y)[k] = mul(c, z)
          BY <2>1, <2>2, <2>4, TermsFacts
      <4>2. Total(Terms(r, y), k + 1) = Add(Total(Terms(r, y), k), Terms(r, y)[k])
        <5>1. k \in Nat /\ Terms(r, y) \in Families
            BY <2>2, <3>1
        <5> QED BY <5>1, SumDef
      <4> QED BY <4>1, <4>2
    <3>8. Total(Terms(r, y), N - i) = Total(Terms(p, y), N)
        BY <2>1, <2>9
    <3>9. Total(Terms(t, y), k) = Total(Terms(p, y), N)
        BY <2>2, <3>3, <3>4, <3>5, <3>6, <3>7, <3>8
    <3> QED BY <2>2, <3>9
  <2>10. Good(t, i + 1)
      BY <2>7, <2>8, <2>9
  <2>11. i + 1 \in Nat
      OBVIOUS
  <2> HIDE DEF Good
  <2> QED BY <2>3, <2>7, <2>10, <2>11 DEF T
<1>6. Reduced(p, q, steps) = Loop(f, p, steps)
    BY Zenon DEF Reduced
<1> HIDE DEF f
<1>7. Loop(f, p, steps) \in T[steps]
  <2>1. \A i \in 0 .. steps - 1 : \A a \in T[i] : f[i + 1][a] \in T[i + 1]
      BY <1>5
  <2> HIDE DEF T
  <2>2. \A i \in 0 .. steps : Loop(f, p, i) \in T[i]
      BY <1>3, <2>1, LoopInvariant
  <2> QED BY <2>2
<1> QED BY <1>6, <1>7

(* A sum backwards. *)
LEMMA SumReverse ==
    ASSUME NEW f \in Families, NEW g \in Families, NEW n \in Nat,
           \A j \in 0 .. n - 1 : g[j] = f[n - 1 - j]
    PROVE  Total(g, n) = Total(f, n)
<1> DEFINE S == {k \in Nat : \A a, b \in Families :
                     (\A j \in 0 .. k - 1 : b[j] = a[k - 1 - j]) => Total(b, k) = Total(a, k)}
<1>1. 0 \in S
    BY SumDef
<1>2. ASSUME NEW k \in Nat, k \in S PROVE k + 1 \in S
  <2> SUFFICES ASSUME NEW a \in Families, NEW b \in Families,
                      \A j \in 0 .. (k + 1) - 1 : b[j] = a[(k + 1) - 1 - j]
               PROVE  Total(b, k + 1) = Total(a, k + 1)
      OBVIOUS
  <2>1. PICK c \in Families : \A j \in Nat : c[j] = b[j + 1]
    <3>1. [j \in Nat |-> b[j + 1]] \in Families
        BY DEF Families
    <3> QED BY <3>1
  <2>2. ASSUME NEW j \in 0 .. k - 1 PROVE c[j] = a[k - 1 - j]
    <3>1. /\ j \in Nat /\ j + 1 \in 0 .. (k + 1) - 1 /\ (k + 1) - 1 - (j + 1) = k - 1 - j
        OBVIOUS
    <3> QED BY <2>1, <3>1
  <2>3. Total(c, k) = Total(a, k)
      BY <1>2, <2>1, <2>2
  <2>4. b[0] = a[k]
    <3>1. 0 \in 0 .. (k + 1) - 1 /\ (k + 1) - 1 - 0 = k
        OBVIOUS
    <3> QED BY <3>1
  <2>5. Total(b, k + 1) = Add(b[0], Total(c, k))
    <3>1. \A j \in 0 .. k - 1 : c[j] = b[j + 1]
        BY <2>1
    <3> HIDE DEF S
    <3> QED BY <2>1, <3>1, SumFirst
  <2>6. Total(a, k + 1) = Add(Total(a, k), a[k])
      BY SumDef
  <2>7. Total(a, k) \in Symbols /\ a[k] \in Symbols
      BY SumDef DEF Families
  <2> QED BY <2>3, <2>4, <2>5, <2>6, <2>7, AddLaws
<1> HIDE DEF S
<1>3. Nat \subseteq S
    BY <1>1, <1>2, Induction
<1> QED BY <1>3 DEF S

(***************************************************************************)
(* Part 2: the coder.                                                      *)
(***************************************************************************)

------------------------------------------------------------------------------
(* The code.                                                               *)

(* The lengths of a block and of the polynomials, as numbers. *)
LEMMA CodeFacts ==
    /\ msg_length \in Nat /\ msg_length >= 1 /\ ecc_length \in Nat /\ ecc_length >= 1
    /\ enc_len \in Nat /\ enc_len >= 2 /\ enc_len = msg_length + ecc_length /\ enc_len <= Order
    /\ poly_len \in Nat /\ poly_len = 2 * ecc_length /\ poly_len <= Order
    /\ Order \in Nat /\ Order > 1
    BY CodeAssumption, TableAssumption DEF enc_len, poly_len

Words == [1 .. enc_len -> Symbols]

(* A word is a polynomial. *)
LEMMA WordFacts ==
    ASSUME NEW w \in Words
    PROVE  w \in Polys /\ Len(w) = enc_len /\ Len(w) >= 1
    BY CodeFacts, SeqOfFunction DEF Words, Polys

(* What the 2^i say: non-zero, and different for the symbols of a block. *)
LEMMA PowFacts ==
    /\ \A i \in Nat : pow(2, i) \in NonZero /\ pow(2, i) \in Symbols /\ pow(2, i) = Power(2, i)
    /\ \A i, j \in 0 .. enc_len - 1 : pow(2, i) = pow(2, j) => i = j
<1>1. \A i \in Nat : pow(2, i) \in NonZero /\ pow(2, i) \in Symbols /\ pow(2, i) = Power(2, i)
    BY PowOfTwo, SymbolsFacts
<1>2. \A i \in 0 .. enc_len - 1 : i \in 0 .. Order - 1
    BY CodeFacts
<1> QED BY <1>1, <1>2, PowInjective

(* The generator has ecc_length roots and begins with 1. *)
LEMMA GeneratorFacts ==
    /\ GeneratorPoly \in Polys /\ Len(GeneratorPoly) = ecc_length + 1 /\ GeneratorPoly[1] = 1
    /\ \A i \in 0 .. ecc_length - 1 : poly_eval(GeneratorPoly, pow(2, i)) = 0
<1> DEFINE f == [i \in 1 .. ecc_length |-> [gen \in Polys |-> poly_mul(gen, <<1, pow(2, i - 1)>>)]]
           Good(g, i) == /\ Len(g) = i + 1 /\ g[1] = 1
                         /\ \A k \in 0 .. i - 1 : poly_eval(g, pow(2, k)) = 0
           T == [i \in Nat |-> {g \in Polys : Good(g, i)}]
<1>1. <<1>> \in T[0]
    BY SymbolsFacts DEF Polys
<1>2. ASSUME NEW i \in 0 .. ecc_length - 1, NEW g \in T[i] PROVE f[i + 1][g] \in T[i + 1]
  <2> DEFINE x == pow(2, i)
             h == poly_mul(g, <<1, x>>)
  <2>1. /\ i \in Nat /\ i + 1 \in 1 .. ecc_length /\ (i + 1) - 1 = i
        /\ g \in Polys /\ Len(g) = i + 1 /\ Len(g) >= 1 /\ g[1] = 1
        /\ \A k \in 0 .. i - 1 : poly_eval(g, pow(2, k)) = 0
      BY CodeFacts
  <2>2. f[i + 1][g] = h
      BY <2>1
  <2>3. x \in Symbols /\ 1 \in Symbols /\ 0 \in Symbols
      BY <2>1, PowFacts, SymbolsFacts
  <2> HIDE DEF x, f
  <2>4. /\ h \in Polys /\ Len(h) = Len(g) + 1
        /\ \A j \in Nat : Coefficient(h, j + 1)
                              = Add(mul(x, Coefficient(g, j + 1)), mul(1, Coefficient(g, j)))
        /\ \A y \in Symbols : poly_eval(h, y) = mul(poly_eval(g, y), Add(mul(1, y), x))
      BY <2>1, <2>3, MulLinear, EvalLinear
  <2> HIDE DEF h
  <2>5. h[1] = 1
    <3>1. Coefficient(g, i + 1) = 0 /\ Coefficient(g, i) = 1
      <4>1. Len(g) - i = 1
          BY <2>1
      <4> QED BY <2>1, <4>1 DEF Coefficient
    <3>2. Coefficient(h, i + 1) = Add(mul(x, 0), mul(1, 1))
        BY <2>1, <2>4, <3>1
    <3>3. Coefficient(h, i + 1) = h[1]
      <4>1. Len(h) - (i + 1) = 1 /\ i + 1 < Len(h)
          BY <2>1, <2>4
      <4> QED BY <4>1 DEF Coefficient
    <3> QED BY <2>3, <3>2, <3>3, MulZero, MulOne, AddLaws
  <2>6. ASSUME NEW k \in 0 .. (i + 1) - 1 PROVE poly_eval(h, pow(2, k)) = 0
    <3>1. k \in Nat /\ pow(2, k) \in Symbols /\ poly_eval(g, pow(2, k)) \in Symbols
        BY <2>1, PowFacts, HornerDef
    <3>2. poly_eval(h, pow(2, k)) = mul(poly_eval(g, pow(2, k)), Add(pow(2, k), x))
        BY <2>4, <3>1, MulOne
    <3>3. CASE k = i
      <4>1. Add(pow(2, k), x) = 0
          BY <2>3, <3>3, AddLaws DEF x
      <4> QED BY <3>2, <4>1, MulZero
    <3>4. CASE k # i
      <4>1. k \in 0 .. i - 1
          BY <2>1, <3>4
      <4>2. poly_eval(g, pow(2, k)) = 0
          BY <2>1, <4>1
      <4> QED BY <3>2, <4>2, MulZero
    <3> QED BY <3>3, <3>4
  <2>7. Good(h, i + 1) /\ i + 1 \in Nat
      BY <2>1, <2>4, <2>5, <2>6
  <2> HIDE DEF Good
  <2> QED BY <2>2, <2>4, <2>7
<1>3. GeneratorPoly = Loop(f, <<1>>, ecc_length)
    BY Zenon DEF GeneratorPoly
<1> HIDE DEF f
<1>4. Loop(f, <<1>>, ecc_length) \in T[ecc_length]
  <2> HIDE DEF T
  <2>1. \A i \in 0 .. ecc_length : Loop(f, <<1>>, i) \in T[i]
      BY <1>1, <1>2, CodeFacts, LoopInvariant
  <2>2. ecc_length \in 0 .. ecc_length
      BY CodeFacts
  <2> QED BY <2>1, <2>2
<1> QED BY <1>3, <1>4, CodeFacts

(* A part of a polynomial. *)
LEMMA SubSeqFacts ==
    ASSUME NEW s \in Polys, NEW a \in Nat, NEW b \in Nat, a >= 1, a <= b + 1, b <= Len(s)
    PROVE  /\ SubSeq(s, a, b) \in Polys /\ Len(SubSeq(s, a, b)) = b - a + 1
           /\ \A i \in 1 .. b - a + 1 : SubSeq(s, a, b)[i] = s[a + i - 1]
<1> DEFINE t == SubSeq(s, a, b)
<1>1. Len(s) \in Nat /\ \A i \in 1 .. Len(s) : s[i] \in Symbols
    BY CoefficientFacts
<1>2. t = [i \in 1 .. b - a + 1 |-> s[a + i - 1]]
    BY DEF Polys
<1> HIDE DEF t
<1>3. \A i \in 1 .. b - a + 1 : a + i - 1 \in 1 .. Len(s)
    BY <1>1
<1>4. t \in [1 .. b - a + 1 -> Symbols] /\ b - a + 1 \in Nat
    BY <1>1, <1>2, <1>3
<1>5. t \in Polys /\ Len(t) = b - a + 1
    BY <1>4, SeqOfFunction DEF Polys
<1> QED BY <1>2, <1>5 DEF t

(* A codeword is a word that begins with its message and vanishes there. *)
THEOREM EncodeFacts ==
    ASSUME NEW m \in [1 .. msg_length -> Symbols]
    PROVE  /\ Encode(m) \in Words
           /\ SubSeq(Encode(m), 1, msg_length) = m
           /\ \A i \in 0 .. ecc_length - 1 : poly_eval(Encode(m), pow(2, i)) = 0
<1> DEFINE g == GeneratorPoly
           p == m \o Zeros(ecc_length)
           r == Reduced(p, g, msg_length)
           t == SubSeq(r, msg_length + 1, enc_len)
           c == m \o t
<1>1. m \in Polys /\ Len(m) = msg_length
    BY CodeFacts, SeqOfFunction DEF Polys
<1>2. /\ p \in Polys /\ Len(p) = enc_len
      /\ \A j \in Nat : Coefficient(p, j) = IF j < ecc_length THEN 0 ELSE Coefficient(m, j - ecc_length)
    BY <1>1, CodeFacts, ShiftFacts
<1>3. g \in Polys /\ Len(g) = ecc_length + 1 /\ g[1] = 1
    BY GeneratorFacts
<1> HIDE DEF g, p
<1>4. /\ r \in Polys /\ Len(r) = enc_len
      /\ \A y \in Symbols : poly_eval(g, y) = 0 =>
            Total(Terms(r, y), ecc_length) = Total(Terms(p, y), enc_len)
  <2>1. /\ Len(g) >= 1 /\ msg_length + Len(g) - 1 <= Len(p) /\ enc_len - msg_length = ecc_length
        /\ msg_length \in Nat
      BY <1>2, <1>3, CodeFacts
  <2> QED BY <1>2, <1>3, <2>1, ReducedFacts
<1> HIDE DEF r
<1>5. /\ t \in Polys /\ Len(t) = ecc_length
      /\ \A i \in 1 .. ecc_length : t[i] = r[msg_length + i]
  <2>1. /\ msg_length + 1 \in Nat /\ enc_len \in Nat /\ msg_length + 1 >= 1
        /\ msg_length + 1 <= enc_len + 1 /\ enc_len <= Len(r)
        /\ enc_len - (msg_length + 1) + 1 = ecc_length
      BY <1>4, CodeFacts
  <2>2. \A i \in 1 .. ecc_length : (msg_length + 1) + i - 1 = msg_length + i
      BY CodeFacts
  <2>3. /\ t \in Polys /\ Len(t) = enc_len - (msg_length + 1) + 1
        /\ \A i \in 1 .. enc_len - (msg_length + 1) + 1 : t[i] = r[(msg_length + 1) + i - 1]
      BY <1>4, <2>1, SubSeqFacts
  <2> HIDE DEF t
  <2> QED BY <2>1, <2>2, <2>3
<1> HIDE DEF t
<1>6. /\ c \in Polys /\ Len(c) = enc_len
      /\ \A i \in 1 .. enc_len : c[i] = IF i <= msg_length THEN m[i] ELSE t[i - msg_length]
    BY <1>1, <1>5, CodeFacts DEF Polys
<1> HIDE DEF c
<1>7. c \in Words
    BY <1>6 DEF Words, Polys
<1>8. SubSeq(c, 1, msg_length) = m
  <2>1. 1 \in 1 .. Len(c) /\ msg_length \in 0 .. Len(c) /\ msg_length - 1 + 1 = msg_length
      BY <1>6, CodeFacts
  <2> DEFINE s == SubSeq(c, 1, msg_length)
  <2>2. s \in Seq(Symbols) /\ Len(s) = msg_length /\ \A i \in 1 .. msg_length : s[i] = c[i]
      BY <1>6, <2>1, CodeFacts DEF Polys
  <2> HIDE DEF s
  <2>3. \A i \in 1 .. msg_length : s[i] = m[i]
      BY <1>6, <2>2, CodeFacts
  <2> QED BY <1>1, <2>2, <2>3 DEF s, Polys
<1>9. ASSUME NEW i \in 0 .. ecc_length - 1 PROVE poly_eval(c, pow(2, i)) = 0
  <2> DEFINE y == pow(2, i)
             U == [j \in Nat |-> IF j < ecc_length THEN Terms(r, y)[j] ELSE 0]
             e == Total(Terms(p, y), enc_len)
  <2>1. y \in Symbols /\ poly_eval(g, y) = 0
      BY CodeFacts, PowFacts, GeneratorFacts DEF g
  <2> HIDE DEF y
  <2>2. Terms(r, y) \in Families /\ Terms(p, y) \in Families /\ Terms(c, y) \in Families
      BY <1>2, <1>4, <1>6, <2>1, TermsFacts
  <2>3. U \in Families /\ \A j \in Nat : U[j] = IF j < ecc_length THEN Terms(r, y)[j] ELSE 0
      BY <2>2, SymbolsFacts DEF Families
  <2> HIDE DEF U
  <2>4. ASSUME NEW j \in 0 .. enc_len - 1 PROVE Terms(c, y)[j] = Add(Terms(p, y)[j], U[j])
    <3>1. /\ j \in Nat /\ Terms(c, y)[j] = mul(Coefficient(c, j), Power(y, j))
          /\ Terms(p, y)[j] = mul(Coefficient(p, j), Power(y, j))
          /\ Terms(r, y)[j] = mul(Coefficient(r, j), Power(y, j))
        BY <1>2, <1>4, <1>6, <2>1, TermsFacts
    <3>2. Terms(c, y)[j] \in Symbols
        BY <2>2, <3>1 DEF Families
    <3>3. CASE j < ecc_length
      <4>1. /\ enc_len - j \in 1 .. enc_len /\ ~(enc_len - j <= msg_length)
            /\ (enc_len - j) - msg_length = ecc_length - j /\ ecc_length - j \in 1 .. ecc_length
            /\ msg_length + (ecc_length - j) = enc_len - j /\ j < enc_len
          BY <3>3, CodeFacts
      <4>2. c[enc_len - j] = r[enc_len - j]
          BY <1>5, <1>6, <4>1
      <4>3. Coefficient(c, j) = Coefficient(r, j)
          BY <1>4, <1>6, <4>1, <4>2 DEF Coefficient
      <4>4. Terms(c, y)[j] = U[j] /\ Terms(p, y)[j] = 0
          BY <1>2, <2>3, <3>1, <3>3, <4>3, MulZero
      <4> QED BY <3>2, <4>4, AddLaws
    <3>4. CASE ~(j < ecc_length)
      <4>1. /\ enc_len - j \in 1 .. enc_len /\ enc_len - j <= msg_length
            /\ j - ecc_length < msg_length /\ msg_length - (j - ecc_length) = enc_len - j /\ j < enc_len
          BY <3>4, CodeFacts
      <4>2. Coefficient(c, j) = m[enc_len - j] /\ Coefficient(m, j - ecc_length) = m[enc_len - j]
          BY <1>1, <1>6, <4>1 DEF Coefficient
      <4>3. Terms(c, y)[j] = Terms(p, y)[j] /\ U[j] = 0
          BY <1>2, <2>3, <3>1, <3>4, <4>2
      <4> QED BY <3>2, <4>3, AddLaws
    <3> QED BY <3>3, <3>4
  <2>5. Total(Terms(c, y), enc_len) = Add(e, Total(U, enc_len))
      BY <2>2, <2>3, <2>4, CodeFacts, SumAdd
  <2>6. Total(U, enc_len) = Total(U, ecc_length)
    <3>1. \A j \in Nat : j >= ecc_length => U[j] = 0
        BY <2>3, CodeFacts
    <3>2. enc_len >= ecc_length
        BY CodeFacts
    <3> QED BY <2>3, <3>1, <3>2, CodeFacts, SumTail
  <2>7. Total(U, ecc_length) = Total(Terms(r, y), ecc_length)
    <3>1. \A j \in 0 .. ecc_length - 1 : U[j] = Terms(r, y)[j]
        BY <2>3, CodeFacts
    <3> QED BY <2>2, <2>3, <3>1, CodeFacts, SumEqual
  <2>8. Total(Terms(r, y), ecc_length) = e
      BY <1>4, <2>1
  <2>9. e \in Symbols
      BY <2>2, CodeFacts, SumDef
  <2>10. poly_eval(c, y) = Total(Terms(c, y), enc_len)
      BY <1>6, <2>1, CodeFacts, EvalSum
  <2>11. Add(e, e) = 0
      BY <2>9, AddLaws
  <2> QED BY <2>5, <2>6, <2>7, <2>8, <2>10, <2>11 DEF y
<1>10. Encode(m) = c
    BY DEF Encode, c, t, r, p, g
<1> QED BY <1>7, <1>8, <1>9, <1>10

------------------------------------------------------------------------------
(* Syndromes.                                                              *)

(* Two polynomials, one after the other. *)
LEMMA ConcatFacts ==
    ASSUME NEW p \in Polys, NEW q \in Polys
    PROVE  /\ p \o q \in Polys /\ Len(p \o q) = Len(p) + Len(q)
           /\ \A i \in 1 .. Len(p) : (p \o q)[i] = p[i]
           /\ \A i \in 1 .. Len(q) : (p \o q)[Len(p) + i] = q[i]
<1>1. Len(p) \in Nat /\ Len(q) \in Nat
    BY CoefficientFacts
<1>2. \A i \in 1 .. Len(q) : /\ Len(p) + i \in 1 .. Len(p) + Len(q)
                            /\ ~(Len(p) + i <= Len(p)) /\ (Len(p) + i) - Len(p) = i
    BY <1>1
<1> QED BY <1>1, <1>2 DEF Polys

(* What CalcSyndromes() returns, and what the locator is found from. *)
LEMMA SyndromeFacts ==
    ASSUME NEW w \in Words
    PROVE  /\ CalcSyndromes(w) \in Polys /\ Len(CalcSyndromes(w)) = ecc_length + 1
           /\ CalcSyndromes(w)[1] = 0
           /\ \A i \in 1 .. ecc_length : CalcSyndromes(w)[i + 1] = poly_eval(w, pow(2, i - 1))
           /\ CalcForneySyndromes(CalcSyndromes(w)) \in Polys
           /\ Len(CalcForneySyndromes(CalcSyndromes(w))) = ecc_length
           /\ \A i \in 1 .. ecc_length :
                 CalcForneySyndromes(CalcSyndromes(w))[i] = poly_eval(w, pow(2, i - 1))
<1> DEFINE s == [i \in 1 .. ecc_length |-> poly_eval(w, pow(2, i - 1))]
           z == <<0>>
           c == z \o s
<1>1. ASSUME NEW i \in 1 .. ecc_length PROVE poly_eval(w, pow(2, i - 1)) \in Symbols
  <2>1. i - 1 \in Nat
      BY CodeFacts
  <2>2. pow(2, i - 1) \in Symbols
      BY <2>1, PowFacts
  <2> QED BY <2>2, WordFacts, HornerDef
<1>2. s \in Polys /\ Len(s) = ecc_length /\ \A i \in 1 .. ecc_length : s[i] = poly_eval(w, pow(2, i - 1))
    BY <1>1, CodeFacts, SeqOfFunction DEF Polys
<1>3. z \in Polys /\ Len(z) = 1 /\ z[1] = 0
    BY SymbolsFacts DEF Polys
<1>4. CalcSyndromes(w) = c
    BY DEF CalcSyndromes
<1> HIDE DEF s, z
<1>5. /\ c \in Polys /\ Len(c) = ecc_length + 1 /\ c[1] = 0
      /\ \A i \in 1 .. ecc_length : c[i + 1] = s[i]
  <2>1. /\ c \in Polys /\ Len(c) = 1 + ecc_length
        /\ \A i \in 1 .. 1 : c[i] = z[i]
        /\ \A i \in 1 .. ecc_length : c[1 + i] = s[i]
    <3>1. /\ c \in Polys /\ Len(c) = Len(z) + Len(s)
          /\ \A i \in 1 .. Len(z) : c[i] = z[i]
          /\ \A i \in 1 .. Len(s) : c[Len(z) + i] = s[i]
        BY <1>2, <1>3, ConcatFacts
    <3> HIDE DEF c
    <3> QED BY <1>2, <1>3, <3>1
  <2>2. 1 \in 1 .. 1 /\ 1 + ecc_length = ecc_length + 1 /\ \A i \in 1 .. ecc_length : 1 + i = i + 1
      BY CodeFacts
  <2> HIDE DEF c
  <2> QED BY <1>3, <2>1, <2>2
<1> HIDE DEF c
<1>6. /\ Tail(c) \in Polys /\ Len(Tail(c)) = ecc_length
      /\ \A i \in 1 .. ecc_length : Tail(c)[i] = c[i + 1]
  <2>1. (ecc_length + 1) - 1 = ecc_length /\ ecc_length + 1 >= 1
      BY CodeFacts
  <2> QED BY <1>5, <2>1 DEF Polys
<1>7. CalcForneySyndromes(c) = Tail(c)
    BY DEF CalcForneySyndromes
<1> QED BY <1>2, <1>4, <1>5, <1>6, <1>7

(* Where two words differ, and by how much; the points the code knows the
   symbols by. *)
Difference(w, c) == [j \in Nat |-> Add(Coefficient(w, j), Coefficient(c, j))]
Points == [j \in Nat |-> pow(2, j)]

(* The points of the symbols of a block are different. *)
LEMMA PointsFacts ==
    /\ Points \in Families /\ \A j \in Nat : Points[j] = pow(2, j)
    /\ \A i, j \in 0 .. enc_len - 1 : Points[i] = Points[j] => i = j
<1>1. Points \in Families /\ \A j \in Nat : Points[j] = pow(2, j)
    BY PowFacts DEF Points, Families
<1>2. \A i \in 0 .. enc_len - 1 : i \in Nat
    BY CodeFacts
<1> QED BY <1>1, <1>2, PowFacts

(* The errors, by coefficients. *)
LEMMA DifferenceFacts ==
    ASSUME NEW w \in Words, NEW c \in Words
    PROVE  /\ Difference(w, c) \in Families
           /\ \A j \in Nat : Difference(w, c)[j] = Add(Coefficient(w, j), Coefficient(c, j))
<1>1. \A j \in Nat : Add(Coefficient(w, j), Coefficient(c, j)) \in Symbols
    BY WordFacts, CoefficientFacts, AddLaws
<1> QED BY <1>1 DEF Difference, Families

(* The syndromes are power sums of the errors. *)
LEMMA SyndromeMoments ==
    ASSUME NEW w \in Words, NEW c \in Words, NEW i \in Nat, poly_eval(c, pow(2, i)) = 0
    PROVE  poly_eval(w, pow(2, i)) = Total(Moment(Difference(w, c), Points, i), enc_len)
<1> DEFINE x == pow(2, i)
           Y == Difference(w, c)
           M == Moment(Y, Points, i)
           r == poly_add(w, c)
<1>1. x \in Symbols /\ x = Power(2, i)
    BY PowFacts
<1>2. w \in Polys /\ c \in Polys /\ Len(w) = enc_len /\ Len(c) = enc_len /\ Len(w) >= 1
    BY WordFacts
<1>3. poly_eval(r, x) = Add(poly_eval(w, x), poly_eval(c, x))
    BY <1>1, <1>2, EvalAdd
<1>4. poly_eval(w, x) \in Symbols
    BY <1>1, <1>2, HornerDef
<1>5. poly_eval(r, x) = poly_eval(w, x)
    BY <1>3, <1>4, AddLaws
<1>6. /\ r \in Polys /\ Len(r) = enc_len
      /\ \A j \in Nat : Coefficient(r, j) = Add(Coefficient(w, j), Coefficient(c, j))
  <2>1. poly_max(enc_len, enc_len) = enc_len
      BY DEF poly_max
  <2> QED BY <1>2, <2>1, PolyAddFacts
<1>7. Y \in Families /\ \A j \in Nat : Y[j] = Add(Coefficient(w, j), Coefficient(c, j))
    BY DifferenceFacts
<1> HIDE DEF r, Y, x
<1>8. M \in Families /\ \A j \in Nat : M[j] = mul(Y[j], Power(Points[j], i))
    BY <1>7, PointsFacts, MomentFacts
<1> HIDE DEF M
<1>9. ASSUME NEW j \in Nat PROVE Terms(r, x)[j] = M[j]
  <2>1. Terms(r, x)[j] = mul(Y[j], Power(x, j))
      BY <1>1, <1>6, <1>7, TermsFacts
  <2>2. Power(x, j) = Power(2, i * j)
      BY <1>1, SymbolsFacts, PowerPower
  <2>3. Power(Points[j], i) = Power(2, j * i)
    <3>1. Points[j] = Power(2, j)
        BY PointsFacts, PowFacts
    <3> QED BY <3>1, SymbolsFacts, PowerPower
  <2>4. i * j = j * i
      OBVIOUS
  <2> QED BY <1>8, <2>1, <2>2, <2>3, <2>4
<1>10. Total(Terms(r, x), enc_len) = Total(M, enc_len)
  <2>1. Terms(r, x) \in Families
      BY <1>1, <1>6, TermsFacts
  <2>2. \A j \in 0 .. enc_len - 1 : j \in Nat
      BY CodeFacts
  <2> QED BY <1>8, <1>9, <2>1, <2>2, CodeFacts, SumEqual
<1>11. poly_eval(r, x) = Total(Terms(r, x), enc_len)
    BY <1>1, <1>6, CodeFacts, EvalSum
<1> QED BY <1>5, <1>10, <1>11 DEF x, M, Y

(* A polynomial reversed. *)
LEMMA ReverseFacts ==
    ASSUME NEW p \in Polys
    PROVE  /\ Reverse(p) \in Polys /\ Len(Reverse(p)) = Len(p)
           /\ \A i \in 1 .. Len(p) : Reverse(p)[i] = p[Len(p) - i + 1]
           /\ \A j \in 0 .. Len(p) - 1 : Coefficient(Reverse(p), j) = Coefficient(p, Len(p) - 1 - j)
<1> DEFINE L == Len(p)
           r == [i \in 1 .. L |-> p[(L - i) + 1]]
<1>1. L \in Nat /\ \A i \in 1 .. L : p[i] \in Symbols
    BY CoefficientFacts
<1>2. Reverse(p) = r
    BY DEF Reverse
<1>3. \A i \in 1 .. L : r[i] = p[L - i + 1] /\ L - i + 1 \in 1 .. L
    BY <1>1
<1>4. r \in Polys /\ Len(r) = L
  <2>1. r \in [1 .. L -> Symbols]
      BY <1>1, <1>3
  <2> HIDE DEF r
  <2> QED BY <1>1, <2>1, SeqOfFunction DEF Polys
<1> HIDE DEF r
<1>5. ASSUME NEW j \in 0 .. L - 1 PROVE Coefficient(r, j) = Coefficient(p, L - 1 - j)
  <2>1. /\ j < L /\ L - j \in 1 .. L /\ L - 1 - j < L /\ L - (L - j) + 1 = j + 1
        /\ L - (L - 1 - j) = j + 1
      BY <1>1
  <2>2. r[L - j] = p[j + 1]
      BY <1>3, <2>1
  <2> HIDE DEF L
  <2> QED BY <1>4, <2>1, <2>2 DEF Coefficient, L
<1> QED BY <1>2, <1>3, <1>4, <1>5

------------------------------------------------------------------------------
(* Berlekamp-Massey.                                                       *)

(* The syndromes behind a 1, which makes the first round like the others. *)
Series(fs) == [i \in Nat |-> IF i = 0 THEN 1 ELSE IF i <= Len(fs) THEN fs[i] ELSE 0]

(* The series, by symbols. *)
LEMMA SeriesFacts ==
    ASSUME NEW fs \in Polys
    PROVE  /\ Series(fs) \in Families /\ Series(fs)[0] = 1
           /\ \A i \in 1 .. Len(fs) : Series(fs)[i] = fs[i]
<1>1. Len(fs) \in Nat /\ \A i \in 1 .. Len(fs) : fs[i] \in Symbols
    BY CoefficientFacts
<1>2. \A i \in Nat : (IF i = 0 THEN 1 ELSE IF i <= Len(fs) THEN fs[i] ELSE 0) \in Symbols
  <2>1. \A i \in Nat : i # 0 /\ i <= Len(fs) => i \in 1 .. Len(fs)
      BY <1>1
  <2> QED BY <1>1, <2>1, SymbolsFacts
<1>3. \A i \in 1 .. Len(fs) : i \in Nat /\ i # 0 /\ i <= Len(fs)
    BY <1>1
<1> QED BY <1>2, <1>3 DEF Series, Families

(* A product by the variable. *)
LEMMA AppendFacts ==
    ASSUME NEW p \in Polys
    PROVE  /\ Append(p, 0) \in Polys /\ Len(Append(p, 0)) = Len(p) + 1
           /\ Coefficient(Append(p, 0), 0) = 0
           /\ \A j \in Nat : Coefficient(Append(p, 0), j + 1) = Coefficient(p, j)
<1> DEFINE q == Append(p, 0)
           L == Len(p)
<1>1. L \in Nat
    BY CoefficientFacts
<1>2. /\ q \in Polys /\ Len(q) = L + 1 /\ q[L + 1] = 0
      /\ \A i \in 1 .. L : q[i] = p[i]
    BY <1>1, SymbolsFacts DEF Polys
<1> HIDE DEF q
<1>3. Coefficient(q, 0) = 0
  <2>1. 0 < L + 1 /\ (L + 1) - 0 = L + 1
      BY <1>1
  <2> QED BY <1>2, <2>1 DEF Coefficient
<1>4. ASSUME NEW j \in Nat PROVE Coefficient(q, j + 1) = Coefficient(p, j)
  <2>1. CASE j < L
    <3>1. j + 1 < L + 1 /\ (L + 1) - (j + 1) = L - j /\ L - j \in 1 .. L
        BY <1>1, <2>1
    <3> QED BY <1>2, <2>1, <3>1 DEF Coefficient
  <2>2. CASE ~(j < L)
    <3>1. ~(j + 1 < L + 1)
        BY <1>1, <2>2
    <3> QED BY <1>2, <2>2, <3>1 DEF Coefficient
  <2> QED BY <2>1, <2>2
<1> QED BY <1>2, <1>3, <1>4 DEF q, L

(* The discrepancy is a coefficient of the product of locator and series. *)
LEMMA DeltaFacts ==
    ASSUME NEW loc \in Polys, NEW fs \in Polys, NEW K \in Nat, K < Len(fs),
           Len(loc) >= 1, Len(loc) <= K + 1, Coefficient(loc, 0) = 1
    PROVE  /\ Delta(loc, fs, K) \in Symbols
           /\ Delta(loc, fs, K) = Conv(Coefs(loc), Series(fs), K + 1)
<1> DEFINE L == Len(loc)
           f == [j \in 1 .. Len(loc) - 1 |-> [d \in Symbols |->
                    Add(d, mul(loc[Len(loc) - j], fs[K - j + 1]))]]
           t == Series(fs)
           F == Crossed(Coefs(loc), t, K + 1)
           S == {j \in Nat : j < L => Loop(f, fs[K + 1], j) = Total(F, j + 1)}
<1>1. L \in Nat /\ L >= 1 /\ L <= K + 1 /\ Len(fs) \in Nat /\ K + 1 \in Nat /\ K + 1 \in 1 .. Len(fs)
    BY CoefficientFacts
<1>2. /\ t \in Families /\ t[0] = 1 /\ \A i \in 1 .. Len(fs) : t[i] = fs[i] /\ fs[i] \in Symbols
    BY SeriesFacts, CoefficientFacts
<1>3. Coefs(loc) \in Families /\ \A j \in Nat : Coefs(loc)[j] = Coefficient(loc, j)
    BY CoefsFacts
<1> HIDE DEF t
<1>4. F \in Families /\ \A j \in Nat : F[j] = IF j <= K + 1 THEN mul(Coefs(loc)[j], t[(K + 1) - j]) ELSE 0
    BY <1>1, <1>2, <1>3, ConvFacts
<1>5. Delta(loc, fs, K) = Loop(f, fs[K + 1], L - 1)
    BY Zenon DEF Delta
<1>6. Loop(f, fs[K + 1], 0) = fs[K + 1] /\ \A j \in Nat : Loop(f, fs[K + 1], j + 1) = f[j + 1][Loop(f, fs[K + 1], j)]
  <2> HIDE DEF f
  <2> QED BY LoopDef, ZenonT(40)
<1>7. ASSUME NEW j \in Nat, j + 1 < L, NEW d \in Symbols
      PROVE  f[j + 1][d] = Add(d, F[j + 1])
  <2>1. /\ j + 1 \in 1 .. L - 1 /\ K - (j + 1) + 1 = K - j /\ (K + 1) - (j + 1) = K - j
        /\ K - j \in 1 .. Len(fs) /\ j + 1 <= K + 1 /\ j + 1 \in Nat /\ j + 1 < L
      BY <1>1, <1>7
  <2>2. f[j + 1][d] = Add(d, mul(loc[L - (j + 1)], fs[K - j]))
      BY <2>1
  <2>3. Coefs(loc)[j + 1] = loc[L - (j + 1)]
      BY <1>3, <2>1 DEF Coefficient
  <2>4. F[j + 1] = mul(Coefs(loc)[j + 1], t[K - j])
      BY <1>4, <2>1
  <2> HIDE DEF f
  <2> QED BY <1>2, <2>1, <2>2, <2>3, <2>4
<1> HIDE DEF f, F
<1>8. 0 \in S
  <2>1. (K + 1) - 0 = K + 1 /\ 0 <= K + 1 /\ 0 + 1 = 1
      BY <1>1
  <2>2. F[0] = mul(1, fs[K + 1]) /\ fs[K + 1] \in Symbols
    <3>1. F[0] = mul(Coefs(loc)[0], t[K + 1])
        BY <1>4, <2>1
    <3> QED BY <1>1, <1>2, <1>3, <3>1
  <2> QED BY <1>4, <1>6, <2>1, <2>2, SumOne, MulOne
<1>9. ASSUME NEW j \in Nat, j \in S PROVE j + 1 \in S
  <2> SUFFICES ASSUME j + 1 < L PROVE Loop(f, fs[K + 1], j + 1) = Total(F, (j + 1) + 1)
      OBVIOUS
  <2>1. Loop(f, fs[K + 1], j) = Total(F, j + 1)
      BY <1>1, <1>9
  <2>2. j + 1 \in Nat
      OBVIOUS
  <2>3. Total(F, j + 1) \in Symbols /\ Total(F, (j + 1) + 1) = Add(Total(F, j + 1), F[j + 1])
      BY <1>4, <2>2, SumDef
  <2> QED BY <1>6, <1>7, <2>1, <2>3
<1> HIDE DEF S
<1>10. Nat \subseteq S
    BY <1>8, <1>9, Induction
<1>11. Loop(f, fs[K + 1], L - 1) = Total(F, L)
  <2>1. L - 1 \in Nat /\ L - 1 < L /\ (L - 1) + 1 = L
      BY <1>1
  <2>2. L - 1 \in S
      BY <1>10, <2>1
  <2> HIDE DEF L
  <2> QED BY <2>1, <2>2 DEF S
<1>12. Total(F, (K + 1) + 1) = Total(F, L)
  <2>1. ASSUME NEW j \in Nat, j >= L PROVE F[j] = 0
    <3>1. Coefs(loc)[j] = 0
        BY <1>3, <2>1, CoefficientFacts
    <3> QED BY <1>4, <3>1, MulZero
  <2>2. (K + 1) + 1 \in Nat /\ (K + 1) + 1 >= L
      BY <1>1
  <2> QED BY <1>1, <1>4, <2>1, <2>2, SumTail
<1>13. Delta(loc, fs, K) = Conv(Coefs(loc), t, K + 1)
    BY <1>5, <1>11, <1>12 DEF Conv, F
<1>14. Conv(Coefs(loc), t, K + 1) \in Symbols
    BY <1>1, <1>2, <1>3, ConvFacts
<1> QED BY <1>13, <1>14 DEF t

(* What a round does to the polynomials that a discrepancy concerns. *)
LEMMA SteppedFacts ==
    ASSUME NEW C \in Polys, NEW X \in Polys, NEW d \in NonZero
    PROVE  /\ Stepped(C, X, d).err_loc \in Polys
           /\ Stepped(C, X, d) = [err_loc |-> Stepped(C, X, d).err_loc,
                                  old_loc |-> IF Len(X) > Len(C) THEN poly_scale(C, inverse(d)) ELSE X]
           /\ Len(Stepped(C, X, d).err_loc) = poly_max(Len(C), Len(X))
           /\ \A j \in Nat : Coefficient(Stepped(C, X, d).err_loc, j)
                                 = Add(Coefficient(C, j), mul(d, Coefficient(X, j)))
<1> DEFINE v == inverse(d)
           dX == poly_scale(X, d)
           vC == poly_scale(C, v)
           dvC == poly_scale(vC, d)
<1>1. d \in Symbols /\ d # 0 /\ v \in Symbols /\ mul(v, d) = 1
  <2>1. d \in Symbols /\ d # 0 /\ v \in Symbols /\ mul(d, v) = 1
      BY InverseFacts, SymbolsFacts
  <2> QED BY <2>1, MulComm
<1>2. Len(C) \in Nat /\ Len(X) \in Nat
    BY CoefficientFacts
<1> HIDE DEF v
<1>3. /\ dX \in Polys /\ Len(dX) = Len(X)
      /\ \A j \in Nat : Coefficient(dX, j) = mul(Coefficient(X, j), d)
    BY <1>1, ScaleFacts
<1>4. /\ vC \in Polys /\ Len(vC) = Len(C)
      /\ \A j \in Nat : Coefficient(vC, j) = mul(Coefficient(C, j), v)
    BY <1>1, ScaleFacts
<1> HIDE DEF vC
<1>5. /\ dvC \in Polys /\ Len(dvC) = Len(C)
      /\ \A j \in Nat : Coefficient(dvC, j) = mul(Coefficient(vC, j), d)
    BY <1>1, <1>4, ScaleFacts
<1> HIDE DEF dX, dvC
<1>6. ASSUME NEW j \in Nat
      PROVE  /\ Coefficient(dvC, j) = Coefficient(C, j) /\ Coefficient(C, j) \in Symbols
             /\ Coefficient(dX, j) = mul(d, Coefficient(X, j)) /\ Coefficient(dX, j) \in Symbols
  <2> DEFINE a == Coefficient(C, j)
             b == Coefficient(X, j)
  <2>1. a \in Symbols /\ b \in Symbols
      BY CoefficientFacts
  <2>2. Coefficient(dvC, j) = mul(mul(a, v), d) /\ Coefficient(dX, j) = mul(b, d)
      BY <1>3, <1>4, <1>5
  <2> HIDE DEF a, b
  <2>3. mul(mul(a, v), d) = mul(a, mul(v, d)) /\ mul(a, 1) = a /\ mul(b, d) = mul(d, b) /\ mul(b, d) \in Symbols
      BY <1>1, <2>1, MulAssoc, MulOne, MulComm, MulType
  <2> QED BY <1>1, <2>1, <2>2, <2>3 DEF a, b
<1>7. CASE Len(X) > Len(C)
  <2> DEFINE e == poly_add(dX, dvC)
  <2>1. Stepped(C, X, d) = [err_loc |-> e, old_loc |-> vC]
      BY <1>1, <1>7 DEF Stepped, Updated, Exchanged, dX, dvC, vC, v
  <2>2. /\ e \in Polys /\ Len(e) = poly_max(Len(X), Len(C))
        /\ \A j \in Nat : Coefficient(e, j) = Add(Coefficient(dX, j), Coefficient(dvC, j))
      BY <1>3, <1>5, PolyAddFacts
  <2> HIDE DEF e
  <2>3. \A j \in Nat : Coefficient(e, j) = Add(Coefficient(C, j), mul(d, Coefficient(X, j)))
      BY <1>6, <2>2, AddLaws
  <2>4. poly_max(Len(X), Len(C)) = poly_max(Len(C), Len(X))
      BY <1>2 DEF poly_max
  <2> QED BY <1>7, <2>1, <2>2, <2>3, <2>4 DEF vC, v
<1>8. CASE ~(Len(X) > Len(C))
  <2> DEFINE e == poly_add(C, dX)
  <2>1. Stepped(C, X, d) = [err_loc |-> e, old_loc |-> X]
      BY <1>1, <1>8 DEF Stepped, Updated, Exchanged, dX
  <2>2. /\ e \in Polys /\ Len(e) = poly_max(Len(C), Len(X))
        /\ \A j \in Nat : Coefficient(e, j) = Add(Coefficient(C, j), Coefficient(dX, j))
      BY <1>3, PolyAddFacts
  <2> HIDE DEF e
  <2>3. \A j \in Nat : Coefficient(e, j) = Add(Coefficient(C, j), mul(d, Coefficient(X, j)))
      BY <1>6, <2>2
  <2> QED BY <1>8, <2>1, <2>2, <2>3
<1> QED BY <1>7, <1>8

Locators == [err_loc : Polys, old_loc : Polys]

(* What holds after K rounds.  The locator C begins the product with the series
   by zeros as far as the syndromes seen reach, from its length on; the older
   one, O, up to a 1 in the last place.  Their lengths make up K. *)
Recurrence(C, O, fs, K) ==
    /\ Len(C) >= 1 /\ Len(O) >= 1 /\ Len(C) + Len(O) = K + 2
    /\ Coefficient(C, 0) = 1
    /\ \A i \in Len(C) .. K : Conv(Coefs(C), Series(fs), i) = 0
    /\ \A i \in Len(O) .. K - 1 : Conv(Coefs(O), Series(fs), i) = 0
    /\ Conv(Coefs(O), Series(fs), K) = 1

(* Before the first round. *)
LEMMA RecurrenceInit ==
    ASSUME NEW fs \in Polys
    PROVE  <<1>> \in Polys /\ Recurrence(<<1>>, <<1>>, fs, 0)
<1> DEFINE p == <<1>>
           t == Series(fs)
<1>1. p \in Polys /\ Len(p) = 1 /\ p[1] = 1
    BY SymbolsFacts DEF Polys
<1> HIDE DEF p
<1>2. Coefficient(p, 0) = 1
  <2>1. 0 < 1 /\ 1 - 0 = 1
      OBVIOUS
  <2> QED BY <1>1, <2>1 DEF Coefficient
<1>3. t \in Families /\ t[0] = 1 /\ Coefs(p) \in Families /\ Coefs(p)[0] = 1
    BY <1>1, <1>2, SeriesFacts, CoefsFacts
<1> HIDE DEF t
<1>4. Conv(Coefs(p), t, 0) = 1
  <2> DEFINE F == Crossed(Coefs(p), t, 0)
  <2>1. 0 \in Nat /\ 0 - 0 = 0 /\ 0 <= 0
      OBVIOUS
  <2>2. F \in Families /\ \A j \in Nat : F[j] = IF j <= 0 THEN mul(Coefs(p)[j], t[0 - j]) ELSE 0
      BY <1>3, <2>1, ConvFacts
  <2> HIDE DEF F
  <2>3. F[0] = mul(1, 1)
    <3>1. F[0] = mul(Coefs(p)[0], t[0 - 0])
        BY <2>1, <2>2
    <3> QED BY <1>3, <2>1, <3>1
  <2>4. Total(F, 0 + 1) = 1
      BY <2>2, <2>3, SumOne, MulOne, SymbolsFacts
  <2> QED BY <2>4 DEF Conv, F
<1> HIDE DEF Recurrence
<1>5. Recurrence(p, p, fs, 0)
  <2>1. Len(p) >= 1 /\ Len(p) + Len(p) = 0 + 2
      BY <1>1
  <2>2. Len(p) .. 0 = {} /\ Len(p) .. 0 - 1 = {}
      BY <1>1
  <2> QED BY <1>2, <1>4, <2>1, <2>2 DEF Recurrence, t
<1> QED BY <1>1, <1>5 DEF p

(* One more round. *)
LEMMA RecurrenceNext ==
    ASSUME NEW s \in Locators, NEW fs \in Polys, NEW K \in Nat, K < Len(fs),
           Recurrence(s.err_loc, s.old_loc, fs, K)
    PROVE  /\ Round(s, fs, K) \in Locators
           /\ Recurrence(Round(s, fs, K).err_loc, Round(s, fs, K).old_loc, fs, K + 1)
           /\ Delta(s.err_loc, fs, K) \in Symbols
           /\ Delta(s.err_loc, fs, K) = 0 => Len(Round(s, fs, K).err_loc) = Len(s.err_loc)
           /\ Delta(s.err_loc, fs, K) # 0 =>
                 Len(Round(s, fs, K).err_loc) = poly_max(Len(s.err_loc), Len(s.old_loc) + 1)
<1> DEFINE C == s.err_loc
           O == s.old_loc
           X == Append(s.old_loc, 0)
           d == Delta(s.err_loc, fs, K)
           t == Series(fs)
           V(p, i) == Conv(Coefs(p), t, i)
<1>1. C \in Polys /\ O \in Polys /\ Len(C) \in Nat /\ Len(O) \in Nat
    BY CoefficientFacts DEF Locators
<1>2. /\ Len(C) >= 1 /\ Len(O) >= 1 /\ Len(C) + Len(O) = K + 2 /\ Coefficient(C, 0) = 1
      /\ \A i \in Len(C) .. K : V(C, i) = 0
      /\ \A i \in Len(O) .. K - 1 : V(O, i) = 0
      /\ V(O, K) = 1
    BY DEF Recurrence
<1>12. Len(C) <= K + 1 /\ Len(O) <= K + 1 /\ Len(O) = K + 2 - Len(C) /\ Len(C) >= 1 /\ Len(O) >= 1
  <2>1. \A a, b \in Nat : a >= 1 /\ b >= 1 /\ a + b = K + 2 => a <= K + 1 /\ b <= K + 1 /\ b = K + 2 - a
      OBVIOUS
  <2>2. Len(C) >= 1 /\ Len(O) >= 1 /\ Len(C) + Len(O) = K + 2
      BY <1>2
  <2> QED BY <1>1, <2>1, <2>2
<1>3. Round(s, fs, K) = Stepped(C, X, d)
    BY DEF Round
<1>4. d \in Symbols /\ d = V(C, K + 1)
  <2> QED BY <1>1, <1>2, <1>12, DeltaFacts
<1>5. t \in Families
    BY SeriesFacts
<1>6. /\ X \in Polys /\ Len(X) = Len(O) + 1 /\ Coefficient(X, 0) = 0
      /\ \A j \in Nat : Coefficient(X, j + 1) = Coefficient(O, j)
    BY <1>1, AppendFacts
<1> HIDE DEF C, O, X, d, t
<1>13. Len(X) \in Nat /\ Len(X) >= 1 /\ Len(C) + Len(X) = (K + 1) + 2
  <2>1. Len(X) = Len(O) + 1
      BY <1>6
  <2> QED BY <1>1, <1>12, <2>1
<1>7. ASSUME NEW p \in Polys, NEW i \in Nat PROVE V(p, i) \in Symbols
    BY <1>5, CoefsFacts, ConvFacts
<1>8. ASSUME NEW i \in Nat PROVE V(X, i + 1) = V(O, i)
  <2>1. /\ Coefs(X) \in Families /\ Coefs(O) \in Families /\ Coefs(X)[0] = 0
        /\ \A j \in Nat : Coefs(X)[j + 1] = Coefs(O)[j]
    <3>1. /\ Coefs(X) \in Families /\ \A j \in Nat : Coefs(X)[j] = Coefficient(X, j)
          /\ Coefs(O) \in Families /\ \A j \in Nat : Coefs(O)[j] = Coefficient(O, j)
        BY <1>1, <1>6, CoefsFacts
    <3>2. \A j \in Nat : j + 1 \in Nat
        OBVIOUS
    <3> QED BY <1>6, <3>1, <3>2
  <2> QED BY <1>5, <2>1, ConvShift
<1>9. /\ \A i \in Len(X) .. K : V(X, i) = 0
      /\ V(X, K + 1) = 1
  <2>1. ASSUME NEW i \in Len(X) .. K PROVE V(X, i) = 0
    <3>1. i - 1 \in Nat /\ (i - 1) + 1 = i /\ i - 1 \in Len(O) .. K - 1
        BY <1>1, <1>6
    <3>2. V(X, (i - 1) + 1) = V(O, i - 1)
        BY <1>8, <3>1
    <3> HIDE DEF V
    <3> QED BY <1>2, <3>1, <3>2
  <2> QED BY <1>2, <1>8, <2>1
<1> HIDE DEF V
<1>10. CASE d = 0
  <2>1. Stepped(C, X, d) = [err_loc |-> C, old_loc |-> X]
      BY <1>10 DEF Stepped
  <2>3. \A i \in Len(C) .. K + 1 : V(C, i) = 0
    <3>1. \A i \in Len(C) .. K + 1 : i \in Len(C) .. K \/ i = K + 1
        BY <1>1
    <3> QED BY <1>2, <1>4, <1>10, <3>1
  <2>4. (K + 1) - 1 = K
      OBVIOUS
  <2>5. Recurrence(C, X, fs, K + 1)
      BY <1>2, <1>9, <1>13, <2>3, <2>4 DEF Recurrence, V, t
  <2> HIDE DEF Recurrence
  <2>6. Round(s, fs, K) = [err_loc |-> C, old_loc |-> X]
      BY <1>3, <2>1
  <2>7. Round(s, fs, K) \in Locators
      BY <1>1, <1>6, <2>6 DEF Locators
  <2>8. Round(s, fs, K).err_loc = C /\ Round(s, fs, K).old_loc = X
      BY <2>6
  <2> QED BY <1>4, <1>10, <2>5, <2>7, <2>8 DEF d, C
<1>11. CASE d # 0
  <2> DEFINE e == Stepped(C, X, d).err_loc
             v == inverse(d)
             o == IF Len(X) > Len(C) THEN poly_scale(C, v) ELSE X
  <2>1. d \in NonZero /\ v \in Symbols /\ mul(d, v) = 1 /\ mul(v, d) = 1
    <3>1. d \in NonZero
        BY <1>4, <1>11, SymbolsFacts
    <3>2. v \in NonZero /\ mul(d, v) = 1
        BY <3>1, InverseFacts
    <3>3. v \in Symbols
        BY <3>2, SymbolsFacts
    <3> QED BY <1>4, <3>1, <3>2, <3>3, MulComm
  <2>2. /\ e \in Polys /\ Stepped(C, X, d) = [err_loc |-> e, old_loc |-> o]
        /\ Len(e) = poly_max(Len(C), Len(X))
        /\ \A j \in Nat : Coefficient(e, j) = Add(Coefficient(C, j), mul(d, Coefficient(X, j)))
      BY <1>1, <1>6, <2>1, SteppedFacts, ZenonT(40)
  <2> HIDE DEF e, v
  <2>3. ASSUME NEW i \in Nat PROVE V(e, i) = Add(V(C, i), mul(d, V(X, i)))
    <3> DEFINE D == [j \in Nat |-> mul(d, Coefs(X)[j])]
    <3>1. /\ Coefs(X) \in Families /\ Coefs(C) \in Families /\ Coefs(e) \in Families
          /\ \A j \in Nat : /\ Coefs(X)[j] = Coefficient(X, j) /\ Coefs(C)[j] = Coefficient(C, j)
                            /\ Coefs(e)[j] = Coefficient(e, j)
        BY <1>1, <1>6, <2>2, CoefsFacts
    <3>2. D \in Families /\ \A j \in Nat : D[j] = mul(d, Coefs(X)[j])
        BY <1>4, <3>1, MulType DEF Families
    <3> HIDE DEF D
    <3>3. \A j \in Nat : Coefs(e)[j] = Add(Coefs(C)[j], D[j])
        BY <2>2, <3>1, <3>2
    <3>4. Conv(Coefs(e), t, i) = Add(Conv(Coefs(C), t, i), Conv(D, t, i))
        BY <1>5, <3>1, <3>2, <3>3, ConvAdd
    <3>5. Conv(D, t, i) = mul(d, Conv(Coefs(X), t, i))
        BY <1>4, <1>5, <3>1, <3>2, ConvScale
    <3> QED BY <3>4, <3>5 DEF V
  <2>4. Len(e) \in Nat /\ Len(e) >= Len(C) /\ Len(e) >= Len(X) /\ Len(X) \in Nat
        /\ (Len(X) > Len(C) => Len(e) = Len(X)) /\ (~(Len(X) > Len(C)) => Len(e) = Len(C))
    <3>1. Len(e) = poly_max(Len(C), Len(X))
        BY <2>2
    <3> QED BY <1>1, <1>13, <3>1 DEF poly_max
  <2>5. Coefficient(e, 0) = 1
    <3>1. Coefficient(e, 0) = Add(1, mul(d, 0))
        BY <1>2, <1>6, <2>2
    <3> QED BY <3>1, MulZero, AddLaws, SymbolsFacts
  <2>6. ASSUME NEW i \in Len(e) .. K + 1 PROVE V(e, i) = 0
    <3>1. i \in Nat
        BY <2>4
    <3>2. V(e, i) = Add(V(C, i), mul(d, V(X, i)))
        BY <2>3, <3>1
    <3>3. CASE i = K + 1
      <4>1. V(e, i) = Add(d, mul(d, 1))
          BY <1>4, <1>9, <3>2, <3>3
      <4> QED BY <1>4, <4>1, MulOne, AddLaws
    <3>4. CASE i # K + 1
      <4>1. i \in Len(C) .. K /\ i \in Len(X) .. K
          BY <1>1, <2>4, <3>4
      <4>2. V(C, i) = 0 /\ V(X, i) = 0
          BY <1>2, <1>9, <4>1
      <4> QED BY <3>2, <4>2, MulZero, AddLaws, SymbolsFacts
    <3> QED BY <3>3, <3>4
  <2>7. /\ o \in Polys /\ Len(o) >= 1 /\ Len(e) + Len(o) = (K + 1) + 2
        /\ \A i \in Len(o) .. K : V(o, i) = 0
        /\ V(o, K + 1) = 1
    <3>1. CASE Len(X) > Len(C)
      <4> DEFINE q == poly_scale(C, v)
      <4>1. o = q
          BY <3>1
      <4> HIDE DEF o
      <4>2. q \in Polys /\ Len(q) = Len(C) /\ \A j \in Nat : Coefficient(q, j) = mul(Coefficient(C, j), v)
          BY <1>1, <2>1, ScaleFacts
      <4> HIDE DEF q
      <4>3. ASSUME NEW i \in Nat PROVE V(q, i) = mul(v, V(C, i))
        <5>1. Coefs(C) \in Families /\ Coefs(q) \in Families
            BY <1>1, <4>2, CoefsFacts
        <5>2. ASSUME NEW j \in Nat PROVE Coefs(q)[j] = mul(v, Coefs(C)[j])
          <6>1. Coefs(q)[j] = mul(Coefficient(C, j), v) /\ Coefs(C)[j] = Coefficient(C, j)
              BY <1>1, <4>2, CoefsFacts
          <6>2. Coefficient(C, j) \in Symbols
              BY <1>1, CoefficientFacts
          <6> QED BY <2>1, <6>1, <6>2, MulComm
        <5> QED BY <1>5, <2>1, <5>1, <5>2, ConvScale DEF V
      <4>4. ASSUME NEW i \in Len(q) .. K PROVE V(q, i) = 0
        <5>1. i \in Nat /\ i \in Len(C) .. K
            BY <1>1, <4>2
        <5> QED BY <1>2, <4>3, <5>1, MulZero
      <4>5. V(q, K + 1) = 1
        <5>1. K + 1 \in Nat
            OBVIOUS
        <5> QED BY <1>4, <2>1, <4>3, <5>1
      <4>6. Len(q) >= 1 /\ Len(e) + Len(q) = (K + 1) + 2
        <5>1. Len(q) = Len(C) /\ Len(e) = Len(X)
            BY <2>4, <3>1, <4>2
        <5> QED BY <1>1, <1>12, <1>13, <5>1
      <4> QED BY <4>1, <4>2, <4>4, <4>5, <4>6
    <3>2. CASE ~(Len(X) > Len(C))
      <4>1. o = X
          BY <3>2
      <4> HIDE DEF o
      <4>2. Len(X) >= 1 /\ Len(e) + Len(X) = (K + 1) + 2
        <5>1. Len(e) = Len(C)
            BY <2>4, <3>2
        <5> QED BY <1>1, <1>12, <1>13, <5>1
      <4> QED BY <1>6, <1>9, <4>1, <4>2
    <3> QED BY <3>1, <3>2
  <2> HIDE DEF o
  <2>8. Recurrence(e, o, fs, K + 1)
    <3>1. Len(e) >= 1 /\ (K + 1) - 1 = K
        BY <1>1, <1>2, <2>4
    <3> QED BY <2>5, <2>6, <2>7, <3>1 DEF Recurrence, V, t
  <2> HIDE DEF Recurrence
  <2>9. Round(s, fs, K) = [err_loc |-> e, old_loc |-> o]
      BY <1>3, <2>2
  <2>10. Round(s, fs, K) \in Locators
      BY <2>2, <2>7, <2>9 DEF Locators
  <2>11. Round(s, fs, K).err_loc = e /\ Round(s, fs, K).old_loc = o
      BY <2>9
  <2>12. Len(e) = poly_max(Len(C), Len(O) + 1)
      BY <1>6, <2>2
  <2> QED BY <1>4, <1>11, <2>8, <2>10, <2>11, <2>12 DEF d, C, O
<1> QED BY <1>10, <1>11

------------------------------------------------------------------------------
(* The locator and the errors.                                              *)

(* Syndromes fs that are the power sums of errors Y. *)
Syndromes(fs, Y) ==
    /\ fs \in Polys /\ Len(fs) = ecc_length
    /\ Y \in Families
    /\ \A i \in 1 .. ecc_length : fs[i] = Total(Moment(Y, Points, i - 1), enc_len)

(* The errors, each weighted by the reversed locator's value where it is. *)
Weights(Y, loc) == [q \in Nat |-> mul(Y[q], poly_eval(Reverse(loc), Points[q]))]

(* The weights are symbols. *)
LEMMA WeightsFacts ==
    ASSUME NEW Y \in Families, NEW loc \in Polys, Len(loc) >= 1
    PROVE  /\ Weights(Y, loc) \in Families
           /\ \A q \in Nat : /\ Weights(Y, loc)[q] = mul(Y[q], poly_eval(Reverse(loc), Points[q]))
                             /\ poly_eval(Reverse(loc), Points[q]) \in Symbols
<1>1. Reverse(loc) \in Polys /\ Len(Reverse(loc)) >= 1
    BY ReverseFacts
<1>2. ASSUME NEW q \in Nat PROVE poly_eval(Reverse(loc), Points[q]) \in Symbols /\ Y[q] \in Symbols
  <2>1. Points[q] \in Symbols /\ Y[q] \in Symbols
      BY PointsFacts DEF Families
  <2> QED BY <1>1, <2>1, HornerDef
<1>3. \A q \in Nat : mul(Y[q], poly_eval(Reverse(loc), Points[q])) \in Symbols
    BY <1>2, MulType
<1> QED BY <1>2, <1>3 DEF Weights, Families

(* From a locator's length on its product with the syndromes is a sequence of
   power sums too. *)
LEMMA ConvMoment ==
    ASSUME NEW fs, NEW Y, Syndromes(fs, Y),
           NEW loc \in Polys, Len(loc) >= 1, NEW i \in Nat, Len(loc) <= i, i <= ecc_length
    PROVE  Conv(Coefs(loc), Series(fs), i)
               = Total(Moment(Weights(Y, loc), Points, i - Len(loc)), enc_len)
<1> DEFINE L == Len(loc)
           N == enc_len
           C == Coefs(loc)
           t == Series(fs)
           F == Crossed(C, t, i)
           Z == Weights(Y, loc)
           n == i - L
           G == Moment(Z, Points, n)
           r == Reverse(loc)
           a(j, q) == IF j < L THEN mul(C[j], mul(Y[q], Power(Points[q], i - 1 - j))) ELSE 0
<1>1. /\ L \in Nat /\ L >= 1 /\ L <= i /\ n \in Nat /\ i <= ecc_length /\ i + 1 \in Nat /\ i + 1 >= L
      /\ N \in Nat /\ N >= 1 /\ ecc_length \in Nat
    BY CodeFacts, CoefficientFacts
<1>2. fs \in Polys /\ Len(fs) = ecc_length /\ Y \in Families
    BY DEF Syndromes
<1>3. \A k \in 1 .. ecc_length : fs[k] = Total(Moment(Y, Points, k - 1), N)
    BY DEF Syndromes
<1>4. /\ t \in Families /\ \A k \in 1 .. ecc_length : t[k] = fs[k]
    BY <1>2, SeriesFacts
<1>5. C \in Families /\ \A j \in Nat : C[j] = Coefficient(loc, j) /\ C[j] \in Symbols
    BY CoefsFacts, CoefficientFacts
<1>6. Points \in Families /\ \A q \in Nat : Points[q] \in Symbols /\ Y[q] \in Symbols
    BY <1>2, PointsFacts DEF Families
<1>7. /\ Z \in Families
      /\ \A q \in Nat : Z[q] = mul(Y[q], poly_eval(r, Points[q])) /\ poly_eval(r, Points[q]) \in Symbols
    BY <1>1, <1>2, WeightsFacts
<1>8. /\ r \in Polys /\ Len(r) = L
      /\ \A j \in 0 .. L - 1 : Coefficient(r, j) = Coefficient(loc, L - 1 - j)
    BY ReverseFacts
<1> HIDE DEF t, C, Z, r
<1>9. F \in Families /\ \A j \in Nat : F[j] = IF j <= i THEN mul(C[j], t[i - j]) ELSE 0
    BY <1>4, <1>5, ConvFacts
<1>10. G \in Families /\ \A q \in Nat : G[q] = mul(Z[q], Power(Points[q], n))
    BY <1>1, <1>6, <1>7, MomentFacts, ZenonT(40)
<1> HIDE DEF F, G, n, L, N
<1>11. \A j, q \in Nat : a(j, q) \in Symbols
  <2> SUFFICES ASSUME NEW j \in Nat, NEW q \in Nat, j < L
               PROVE  mul(C[j], mul(Y[q], Power(Points[q], i - 1 - j))) \in Symbols
      BY SymbolsFacts
  <2>1. i - 1 - j \in Nat
      BY <1>1
  <2>2. Power(Points[q], i - 1 - j) \in Symbols
      BY <1>6, <2>1, PowerDef
  <2> QED BY <1>5, <1>6, <2>2, MulType
<1>20. PICK A \in Grids : \A j, q \in Nat : A[j][q] = a(j, q)
  <2>1. [j \in Nat |-> [q \in Nat |-> a(j, q)]] \in Grids
      BY <1>11 DEF Families, Grids
  <2> HIDE DEF a
  <2> QED BY <2>1
<1>21. PICK B \in Grids : \A j, q \in Nat : B[q][j] = a(j, q)
  <2>1. [q \in Nat |-> [j \in Nat |-> a(j, q)]] \in Grids
      BY <1>11 DEF Families, Grids
  <2> HIDE DEF a
  <2> QED BY <2>1
<1>12. /\ A \in Grids /\ B \in Grids
       /\ \A j, q \in Nat : A[j][q] = a(j, q) /\ B[q][j] = a(j, q)
    BY <1>20, <1>21
<1>13. \A j, q \in Nat : B[q][j] = A[j][q]
    BY <1>12
<1>14. \A j, q \in Nat : j < L => A[j][q] = mul(C[j], mul(Y[q], Power(Points[q], i - 1 - j)))
    BY <1>12
<1> HIDE DEF a
<1>15. ASSUME NEW j \in 0 .. L - 1 PROVE F[j] = Total(A[j], N)
  <2> DEFINE M == Moment(Y, Points, i - 1 - j)
  <2>1. j \in Nat /\ j < L /\ j <= i /\ i - j \in 1 .. ecc_length /\ (i - j) - 1 = i - 1 - j /\ i - 1 - j \in Nat
      BY <1>1
  <2>2. t[i - j] = Total(M, N)
    <3>1. fs[i - j] = Total(Moment(Y, Points, (i - j) - 1), N)
        BY <1>3, <2>1
    <3> QED BY <1>4, <2>1, <3>1
  <2>3. M \in Families /\ \A q \in Nat : M[q] = mul(Y[q], Power(Points[q], i - 1 - j))
      BY <1>2, <1>6, <2>1, MomentFacts
  <2> HIDE DEF M
  <2>4. A[j] \in Families /\ C[j] \in Symbols
      BY <1>5, <1>12, <2>1 DEF Grids
  <2>5. \A q \in 0 .. N - 1 : A[j][q] = mul(C[j], M[q])
    <3>1. \A q \in 0 .. N - 1 : q \in Nat
        BY <1>1
    <3> QED BY <1>14, <2>1, <2>3, <3>1
  <2>6. Total(A[j], N) = mul(C[j], Total(M, N))
      BY <1>1, <2>3, <2>4, <2>5, SumScale
  <2> QED BY <1>9, <2>1, <2>2, <2>6
<1>16. ASSUME NEW q \in 0 .. N - 1 PROVE G[q] = Total(B[q], L)
  <2> DEFINE x == Points[q]
             y == Y[q]
             w == Power(x, n)
             c == mul(y, w)
             T == Terms(r, x)
             R == [j \in Nat |-> IF j < L THEN mul(C[j], Power(x, L - 1 - j)) ELSE 0]
  <2>1. q \in Nat /\ x \in Symbols /\ y \in Symbols /\ w \in Symbols /\ c \in Symbols
    <3>1. q \in Nat
        BY <1>1
    <3>2. x \in Symbols /\ y \in Symbols
        BY <1>6, <3>1
    <3>3. w \in Symbols
        BY <1>1, <3>2, PowerDef
    <3> HIDE DEF w, y
    <3> QED BY <3>1, <3>2, <3>3, MulType
  <2>2. T \in Families /\ \A j \in Nat : T[j] = mul(Coefficient(r, j), Power(x, j))
      BY <1>8, <2>1, TermsFacts
  <2>3. poly_eval(r, x) = Total(T, L)
      BY <1>1, <1>8, <2>1, EvalSum
  <2>4. R \in Families /\ \A j \in Nat : j < L => R[j] = mul(C[j], Power(x, L - 1 - j))
    <3>1. ASSUME NEW j \in Nat, j < L PROVE mul(C[j], Power(x, L - 1 - j)) \in Symbols
      <4>1. L - 1 - j \in Nat
          BY <1>1, <3>1
      <4>2. Power(x, L - 1 - j) \in Symbols
          BY <2>1, <4>1, PowerDef
      <4> QED BY <1>5, <4>2, MulType
    <3> QED BY <3>1, SymbolsFacts DEF Families
  <2> HIDE DEF T, R, x, y, w, c
  <2>5. ASSUME NEW j \in 0 .. L - 1 PROVE T[j] = R[L - 1 - j]
    <3>1. j \in Nat /\ L - 1 - j \in Nat /\ L - 1 - j < L /\ L - 1 - (L - 1 - j) = j
        BY <1>1
    <3>2. R[L - 1 - j] = mul(C[L - 1 - j], Power(x, j))
        BY <2>4, <3>1
    <3>3. T[j] = mul(Coefficient(loc, L - 1 - j), Power(x, j))
        BY <1>8, <2>2, <3>1
    <3> QED BY <1>5, <3>1, <3>2, <3>3
  <2>6. Total(T, L) = Total(R, L)
      BY <1>1, <2>2, <2>4, <2>5, SumReverse
  <2>7. ASSUME NEW j \in 0 .. L - 1 PROVE B[q][j] = mul(c, R[j])
    <3> DEFINE u == C[j]
               p == Power(x, L - 1 - j)
    <3>1. j \in Nat /\ j < L /\ L - 1 - j \in Nat /\ n + (L - 1 - j) = i - 1 - j
        BY <1>1 DEF n
    <3>2. u \in Symbols /\ p \in Symbols
        BY <1>5, <2>1, <3>1, PowerDef
    <3>3. Power(x, i - 1 - j) = mul(w, p)
      <4>1. Power(x, n + (L - 1 - j)) = mul(w, p)
          BY <1>1, <2>1, <3>1, PowerAdd DEF w
      <4> QED BY <3>1, <4>1
    <3>4. B[q][j] = mul(u, mul(y, mul(w, p)))
        BY <1>13, <1>14, <2>1, <3>1, <3>3 DEF x, y
    <3>5. R[j] = mul(u, p)
        BY <2>4, <3>1
    <3> HIDE DEF u, p
    <3>6. mul(y, mul(w, p)) = mul(c, p)
        BY <2>1, <3>2, MulAssoc DEF c
    <3>7. mul(u, mul(c, p)) = mul(c, mul(u, p))
      <4>1. mul(u, mul(c, p)) = mul(mul(u, c), p) /\ mul(u, c) = mul(c, u) /\ mul(mul(c, u), p) = mul(c, mul(u, p))
          BY <2>1, <3>2, MulAssoc, MulComm
      <4> QED BY <4>1
    <3> QED BY <3>4, <3>5, <3>6, <3>7
  <2>8. Total(B[q], L) = mul(c, Total(R, L))
    <3>1. B[q] \in Families
        BY <1>12, <2>1 DEF Grids
    <3> QED BY <1>1, <2>1, <2>4, <2>7, <3>1, SumScale, ZenonT(40)
  <2>9. G[q] = mul(mul(y, Total(R, L)), w)
      BY <1>7, <1>10, <2>1, <2>3, <2>6 DEF x, y, w
  <2>10. mul(mul(y, Total(R, L)), w) = mul(c, Total(R, L))
    <3> DEFINE v == Total(R, L)
    <3>1. v \in Symbols
        BY <1>1, <2>4, SumDef
    <3> HIDE DEF v
    <3>2. mul(mul(y, v), w) = mul(y, mul(v, w)) /\ mul(v, w) = mul(w, v) /\ mul(mul(y, w), v) = mul(y, mul(w, v))
        BY <2>1, <3>1, MulAssoc, MulComm
    <3> QED BY <3>2 DEF v, c
  <2> QED BY <2>8, <2>9, <2>10
<1>17. Total(F, L) = Total(G, N)
  <2>1. \A j \in 0 .. L - 1 : F[j] = Total(A[j], N)
      BY <1>15
  <2>2. \A q \in 0 .. N - 1 : G[q] = Total(B[q], L)
      BY <1>16
  <2>3. L \in Nat /\ N \in Nat /\ F \in Families /\ G \in Families
        /\ A \in Grids /\ B \in Grids
      BY <1>1, <1>9, <1>10, <1>12
  <2>4. RowSums(F, A, L, N) /\ RowSums(G, B, N, L) /\ Transposed(A, B)
      BY <1>13, <2>1, <2>2 DEF RowSums, Transposed
  <2> QED BY <2>3, <2>4, SumExchange
<1>18. Total(F, i + 1) = Total(F, L)
  <2>1. ASSUME NEW j \in Nat, j >= L PROVE F[j] = 0
    <3>1. C[j] = 0
        BY <1>5, <2>1, CoefficientFacts DEF L
    <3> QED BY <1>9, <3>1, MulZero
  <2> QED BY <1>1, <1>9, <2>1, SumTail
<1> QED BY <1>17, <1>18 DEF Conv, F, G, C, t, Z, n, L, N

(* The weights are those of some of the errors. *)
LEMMA WeightsSupport ==
    ASSUME NEW Y \in Families, NEW loc \in Polys, Len(loc) >= 1, NEW n \in Nat
    PROVE  Cardinality(Support(Weights(Y, loc), n)) <= Cardinality(Support(Y, n))
<1>1. ASSUME NEW j \in Support(Weights(Y, loc), n) PROVE j \in Support(Y, n)
  <2>1. j \in 0 .. n - 1 /\ Weights(Y, loc)[j] # 0
      BY DEF Support
  <2>2. j \in Nat
      BY <2>1
  <2>3. Weights(Y, loc)[j] = mul(Y[j], poly_eval(Reverse(loc), Points[j]))
      BY <2>2, WeightsFacts
  <2>4. Y[j] # 0
      BY <2>1, <2>3, MulZero
  <2> QED BY <2>1, <2>4 DEF Support
<1>2. Support(Weights(Y, loc), n) \in SUBSET Support(Y, n)
    BY <1>1
<1> QED BY <1>2, SupportFacts, FS_Subset

(* If the products of the syndromes and a locator vanish for as many
   exponents as there are errors, the reversed locator vanishes at each. *)
LEMMA AnnihilatedErrors ==
    ASSUME NEW fs, NEW Y, Syndromes(fs, Y),
           NEW nu \in Nat, Cardinality(Support(Y, enc_len)) <= nu,
           NEW loc \in Polys, Len(loc) >= 1, Len(loc) + nu - 1 <= ecc_length,
           \A i \in Len(loc) .. Len(loc) + nu - 1 : Conv(Coefs(loc), Series(fs), i) = 0
    PROVE  \A q \in 0 .. enc_len - 1 : Weights(Y, loc)[q] = 0
<1> DEFINE Z == Weights(Y, loc)
           L == Len(loc)
<1>1. Y \in Families /\ enc_len \in Nat /\ L \in Nat /\ ecc_length \in Nat
    BY CodeFacts, CoefficientFacts DEF Syndromes
<1>2. Z \in Families
    BY <1>1, WeightsFacts
<1>3. Cardinality(Support(Z, enc_len)) <= nu
  <2>1. Cardinality(Support(Z, enc_len)) <= Cardinality(Support(Y, enc_len))
      BY <1>1, WeightsSupport
  <2>2. Cardinality(Support(Z, enc_len)) \in Nat /\ Cardinality(Support(Y, enc_len)) \in Nat
      BY <1>1, SupportFacts
  <2> HIDE DEF Z
  <2> QED BY <2>1, <2>2
<1>4. ASSUME NEW i \in 0 .. nu - 1 PROVE Total(Moment(Z, Points, i), enc_len) = 0
  <2>1. /\ i + L \in Nat /\ L <= i + L /\ i + L <= ecc_length /\ (i + L) - L = i
        /\ i + L \in L .. L + nu - 1
      BY <1>1
  <2>2. Conv(Coefs(loc), Series(fs), i + L) = Total(Moment(Z, Points, (i + L) - L), enc_len)
      BY <2>1, ConvMoment
  <2> QED BY <2>1, <2>2
<1> HIDE DEF Z
<1>5. \A q \in 0 .. enc_len - 1 : Z[q] = 0
  <2>1. PICK z \in Families : z = Z
      BY <1>2
  <2>2. \A i, j \in 0 .. enc_len - 1 : Points[i] = Points[j] => i = j
      BY PointsFacts
  <2>3. Points \in Families
      BY PointsFacts
  <2>4. /\ Cardinality(Support(z, enc_len)) <= nu
        /\ \A i \in 0 .. nu - 1 : Total(Moment(z, Points, i), enc_len) = 0
      BY <1>3, <1>4, <2>1
  <2>5. \A q \in 0 .. enc_len - 1 : z[q] = 0
      BY <1>1, <2>1, <2>2, <2>3, <2>4, Vandermonde, ZenonT(40)
  <2> QED BY <2>1, <2>5
<1> QED BY <1>5 DEF Z

(* Only a locator that is too short for the errors is found wanting. *)
THEOREM LengthBound ==
    ASSUME NEW fs, NEW Y, Syndromes(fs, Y),
           NEW nu \in Nat, Cardinality(Support(Y, enc_len)) <= nu,
           NEW C \in Polys, NEW O \in Polys, NEW K \in Nat, K < ecc_length,
           Recurrence(C, O, fs, K), Delta(C, fs, K) # 0
    PROVE  Len(O) <= nu
<1> SUFFICES ASSUME Len(O) >= nu + 1 PROVE FALSE
  <2>1. Len(O) \in Nat
      BY CoefficientFacts
  <2> QED BY <2>1
<1>1. /\ Len(C) \in Nat /\ Len(O) \in Nat /\ Len(C) >= 1 /\ Len(C) + Len(O) = K + 2
      /\ ecc_length \in Nat /\ enc_len \in Nat
    BY CoefficientFacts, CodeFacts DEF Recurrence
<1>2. /\ Coefficient(C, 0) = 1
      /\ \A i \in Len(C) .. K : Conv(Coefs(C), Series(fs), i) = 0
    BY DEF Recurrence
<1>3. fs \in Polys /\ Len(fs) = ecc_length /\ Y \in Families
    BY DEF Syndromes
<1>4. /\ Len(C) + nu - 1 <= K /\ Len(C) + nu - 1 <= ecc_length
      /\ Len(C) <= K + 1 /\ K + 1 \in Nat /\ K + 1 - Len(C) \in Nat /\ K + 1 <= ecc_length
    BY <1>1
<1>5. \A i \in Len(C) .. Len(C) + nu - 1 : Conv(Coefs(C), Series(fs), i) = 0
  <2>1. \A i \in Len(C) .. Len(C) + nu - 1 : i \in Len(C) .. K
      BY <1>1, <1>4
  <2> QED BY <1>2, <2>1
<1>6. \A q \in 0 .. enc_len - 1 : Weights(Y, C)[q] = 0
    BY <1>1, <1>4, <1>5, AnnihilatedErrors
<1>7. Conv(Coefs(C), Series(fs), K + 1) = Total(Moment(Weights(Y, C), Points, K + 1 - Len(C)), enc_len)
    BY <1>1, <1>4, ConvMoment
<1>8. Total(Moment(Weights(Y, C), Points, K + 1 - Len(C)), enc_len) = 0
  <2> DEFINE M == Moment(Weights(Y, C), Points, K + 1 - Len(C))
  <2>1. Weights(Y, C) \in Families /\ Points \in Families
      BY <1>1, <1>3, WeightsFacts, PointsFacts
  <2>2. M \in Families /\ \A q \in Nat : M[q] = mul(Weights(Y, C)[q], Power(Points[q], K + 1 - Len(C)))
      BY <1>4, <2>1, MomentFacts, ZenonT(40)
  <2> HIDE DEF M
  <2>3. \A q \in 0 .. enc_len - 1 : q \in Nat
      BY <1>1
  <2>4. \A q \in 0 .. enc_len - 1 : M[q] = 0
      BY <1>6, <2>2, <2>3, MulZero
  <2>5. Total(M, enc_len) = 0
      BY <1>1, <2>2, <2>4, SumZero
  <2> QED BY <2>5 DEF M
<1>9. Delta(C, fs, K) = Conv(Coefs(C), Series(fs), K + 1)
    BY <1>1, <1>2, <1>3, <1>4, DeltaFacts
<1> QED BY <1>7, <1>8, <1>9

(* The locators after k rounds. *)
Rounds(fs, k) ==
    Loop([i \in 1 .. ecc_length |-> [s \in Locators |-> Round(s, fs, i - 1)]],
         [err_loc |-> <<1>>, old_loc |-> <<1>>], k)

(* Every round keeps the recurrence. *)
LEMMA RoundsFacts ==
    ASSUME NEW fs \in Polys, Len(fs) = ecc_length, NEW k \in 0 .. ecc_length
    PROVE  /\ Rounds(fs, k) \in Locators
           /\ Recurrence(Rounds(fs, k).err_loc, Rounds(fs, k).old_loc, fs, k)
<1> DEFINE f == [i \in 1 .. ecc_length |-> [s \in Locators |-> Round(s, fs, i - 1)]]
           e == [err_loc |-> <<1>>, old_loc |-> <<1>>]
           T == [i \in Nat |-> {s \in Locators : Recurrence(s.err_loc, s.old_loc, fs, i)}]
<1>1. ecc_length \in Nat
    BY CodeFacts
<1>2. e \in T[0]
  <2>1. e \in Locators /\ e.err_loc = <<1>> /\ e.old_loc = <<1>>
      BY RecurrenceInit DEF Locators
  <2> HIDE DEF e
  <2> QED BY <2>1, RecurrenceInit
<1>3. ASSUME NEW i \in 0 .. ecc_length - 1, NEW s \in T[i] PROVE f[i + 1][s] \in T[i + 1]
  <2>1. i \in Nat /\ i < Len(fs) /\ i + 1 \in 1 .. ecc_length /\ (i + 1) - 1 = i /\ i + 1 \in Nat
      BY <1>1
  <2>2. s \in Locators /\ Recurrence(s.err_loc, s.old_loc, fs, i)
      BY <2>1
  <2>3. f[i + 1][s] = Round(s, fs, i)
      BY <2>1, <2>2
  <2>4. Round(s, fs, i) \in Locators /\ Recurrence(Round(s, fs, i).err_loc, Round(s, fs, i).old_loc, fs, i + 1)
      BY <2>1, <2>2, RecurrenceNext
  <2> QED BY <2>1, <2>3, <2>4
<1>4. Rounds(fs, k) = Loop(f, e, k)
    BY Zenon DEF Rounds
<1> HIDE DEF f, e, T
<1>5. Loop(f, e, k) \in T[k] /\ k \in Nat
  <2>1. \A i \in 0 .. ecc_length : Loop(f, e, i) \in T[i]
      BY <1>1, <1>2, <1>3, LoopInvariant
  <2> QED BY <1>1, <2>1
<1> QED BY <1>4, <1>5 DEF T

(* Berlekamp-Massey finds a locator of the recurrence that the syndromes
   satisfy. *)
LEMMA MasseyFacts ==
    ASSUME NEW fs \in Polys, Len(fs) = ecc_length
    PROVE  /\ BerlekampMassey(fs) \in Locators
           /\ Recurrence(BerlekampMassey(fs).err_loc, BerlekampMassey(fs).old_loc, fs, ecc_length)
<1>1. BerlekampMassey(fs) = Rounds(fs, ecc_length)
    BY Zenon DEF BerlekampMassey, Rounds, Locators
<1>2. ecc_length \in 0 .. ecc_length
    BY CodeFacts
<1> QED BY <1>1, <1>2, RoundsFacts

(* No round of Berlekamp-Massey reaches before the first syndrome, none
   appends to a polynomial that is full, and none makes one that is longer
   than its memory: what at() and Append() assert. *)
THEOREM RoundsInBounds ==
    ASSUME NEW fs \in Polys, Len(fs) = ecc_length, NEW K \in 0 .. ecc_length - 1,
           NEW s, s = Rounds(fs, K)
    PROVE  /\ Len(s.err_loc) \in 1 .. K + 1
           /\ Len(s.old_loc) + 1 < poly_len
           /\ Len(Round(s, fs, K).err_loc) <= poly_len
           /\ Len(Round(s, fs, K).old_loc) <= poly_len
<1>1. /\ K \in Nat /\ K < Len(fs) /\ K \in 0 .. ecc_length /\ K + 1 <= ecc_length
      /\ ecc_length \in Nat /\ ecc_length > 1 /\ poly_len = 2 * ecc_length
    BY CodeFacts, CodeAssumption
<1>2. s \in Locators /\ Recurrence(s.err_loc, s.old_loc, fs, K)
    BY <1>1, RoundsFacts
<1>3. /\ Round(s, fs, K) \in Locators
      /\ Recurrence(Round(s, fs, K).err_loc, Round(s, fs, K).old_loc, fs, K + 1)
    BY <1>1, <1>2, RecurrenceNext
<1>4. ASSUME NEW C \in Polys, NEW O \in Polys, NEW k \in Nat, Recurrence(C, O, fs, k)
      PROVE  /\ Len(C) \in Nat /\ Len(C) >= 1 /\ Len(C) <= k + 1
             /\ Len(O) \in Nat /\ Len(O) <= k + 1
  <2>1. Len(C) \in Nat /\ Len(O) \in Nat
      BY CoefficientFacts
  <2>2. Len(C) >= 1 /\ Len(O) >= 1 /\ Len(C) + Len(O) = k + 2
      BY <1>4 DEF Recurrence
  <2> QED BY <2>1, <2>2
<1>5. /\ Len(s.err_loc) \in Nat /\ Len(s.err_loc) >= 1 /\ Len(s.err_loc) <= K + 1
      /\ Len(s.old_loc) \in Nat /\ Len(s.old_loc) <= K + 1
  <2>1. s.err_loc \in Polys /\ s.old_loc \in Polys
      BY <1>2 DEF Locators
  <2> QED BY <1>1, <1>2, <1>4, <2>1
<1>6. /\ Len(Round(s, fs, K).err_loc) \in Nat /\ Len(Round(s, fs, K).err_loc) <= (K + 1) + 1
      /\ Len(Round(s, fs, K).old_loc) \in Nat /\ Len(Round(s, fs, K).old_loc) <= (K + 1) + 1
  <2>1. Round(s, fs, K).err_loc \in Polys /\ Round(s, fs, K).old_loc \in Polys /\ K + 1 \in Nat
      BY <1>1, <1>3 DEF Locators
  <2> QED BY <1>3, <1>4, <2>1
<1>7. (K + 1) + 1 <= poly_len /\ K + 2 < poly_len
    BY <1>1
<1>8. Len(s.old_loc) + 1 < poly_len
    BY <1>1, <1>5, <1>7
<1>9. Len(Round(s, fs, K).err_loc) <= poly_len /\ Len(Round(s, fs, K).old_loc) <= poly_len
    BY <1>1, <1>6, <1>7
<1> QED BY <1>1, <1>5, <1>8, <1>9

(* The locator found is no longer than the errors make necessary. *)
LEMMA MasseyBound ==
    ASSUME NEW fs, NEW Y, Syndromes(fs, Y),
           NEW nu \in Nat, Cardinality(Support(Y, enc_len)) <= nu
    PROVE  Len(BerlekampMassey(fs).err_loc) <= nu + 1
<1> DEFINE f == [i \in 1 .. ecc_length |-> [s \in Locators |-> Round(s, fs, i - 1)]]
           e == [err_loc |-> <<1>>, old_loc |-> <<1>>]
           T == [i \in Nat |-> {s \in Locators : /\ Recurrence(s.err_loc, s.old_loc, fs, i)
                                                 /\ Len(s.err_loc) <= nu + 1}]
<1>1. ecc_length \in Nat
    BY CodeFacts
<1>0. fs \in Polys /\ Len(fs) = ecc_length
    BY DEF Syndromes
<1>2. e \in T[0]
  <2>1. e \in Locators /\ e.err_loc = <<1>> /\ e.old_loc = <<1>>
      BY <1>0, RecurrenceInit DEF Locators
  <2>2. Len(e.err_loc) <= nu + 1
      OBVIOUS
  <2>3. Recurrence(<<1>>, <<1>>, fs, 0)
      BY <1>0, RecurrenceInit
  <2> HIDE DEF e
  <2> QED BY <2>1, <2>2, <2>3
<1>3. ASSUME NEW i \in 0 .. ecc_length - 1, NEW s \in T[i] PROVE f[i + 1][s] \in T[i + 1]
  <2>1. i \in Nat /\ i < Len(fs) /\ i + 1 \in 1 .. ecc_length /\ (i + 1) - 1 = i /\ i + 1 \in Nat /\ i < ecc_length
      BY <1>0, <1>1
  <2>2. s \in Locators /\ Recurrence(s.err_loc, s.old_loc, fs, i) /\ Len(s.err_loc) <= nu + 1
      BY <2>1
  <2> DEFINE r == Round(s, fs, i)
  <2>3. f[i + 1][s] = r
      BY <2>1, <2>2
  <2>4. /\ r \in Locators /\ Recurrence(r.err_loc, r.old_loc, fs, i + 1)
        /\ Delta(s.err_loc, fs, i) = 0 => Len(r.err_loc) = Len(s.err_loc)
        /\ Delta(s.err_loc, fs, i) # 0 => Len(r.err_loc) = poly_max(Len(s.err_loc), Len(s.old_loc) + 1)
      BY <1>0, <2>1, <2>2, RecurrenceNext
  <2> HIDE DEF f, r
  <2>5. Len(r.err_loc) <= nu + 1
    <3>1. s.err_loc \in Polys /\ s.old_loc \in Polys
        BY <2>2 DEF Locators
    <3>2. CASE Delta(s.err_loc, fs, i) # 0
      <4>1. Len(s.old_loc) <= nu
          BY <2>1, <2>2, <3>1, <3>2, LengthBound
      <4>2. Len(s.old_loc) \in Nat /\ Len(s.err_loc) \in Nat
          BY <3>1, CoefficientFacts
      <4> QED BY <2>2, <2>4, <3>2, <4>1, <4>2 DEF poly_max
    <3> QED BY <2>2, <2>4, <3>2
  <2> QED BY <2>1, <2>3, <2>4, <2>5
<1>4. BerlekampMassey(fs) = Loop(f, e, ecc_length)
    BY Zenon DEF BerlekampMassey, Locators
<1> HIDE DEF f, e, T
<1>5. Loop(f, e, ecc_length) \in T[ecc_length]
  <2>1. \A i \in 0 .. ecc_length : Loop(f, e, i) \in T[i]
      BY <1>1, <1>2, <1>3, LoopInvariant
  <2> QED BY <1>1, <2>1
<1> QED BY <1>1, <1>4, <1>5 DEF T

Images(X, S) == {X[j] : j \in S}

(* Different indices of distinct points count alike. *)
LEMMA ImageCardinality ==
    ASSUME NEW X, NEW n \in Nat, \A i, j \in 0 .. n - 1 : X[i] = X[j] => i = j,
           NEW S \in SUBSET (0 .. n - 1)
    PROVE  /\ IsFiniteSet(Images(X, S))
           /\ Cardinality(Images(X, S)) = Cardinality(S)
<1> DEFINE T == Images(X, S)
           f == [j \in S |-> X[j]]
<1>1. IsFiniteSet(S)
  <2>1. IsFiniteSet(0 .. n - 1)
      BY FS_Interval
  <2> QED BY <2>1, FS_Subset
<1>2. f \in Bijection(S, T)
  <2>1. f \in [S -> T] /\ \A j \in S : f[j] = X[j]
      BY DEF Images
  <2>2. \A i, j \in S : f[i] = f[j] => i = j
      BY <2>1
  <2>3. \A t \in T : \E j \in S : f[j] = t
      BY <2>1 DEF Images
  <2> HIDE DEF f, T
  <2> QED BY <2>1, <2>2, <2>3 DEF Bijection, Injection, IsInjective, Surjection
<1> HIDE DEF f
<1>3. ExistsBijection(S, T)
    BY <1>2 DEF ExistsBijection
<1> QED BY <1>1, <1>3, FS_Bijection

(* The value at zero. *)
LEMMA EvalAtZero ==
    ASSUME NEW p \in Polys, Len(p) >= 1
    PROVE  poly_eval(p, 0) = p[Len(p)]
<1>1. /\ Horner(p, 0, 0) = p[1]
      /\ \A k \in 0 .. Len(p) - 1 : Horner(p, 0, k) \in Symbols
      /\ \A k \in 0 .. Len(p) - 2 : Horner(p, 0, k + 1) = Add(mul(Horner(p, 0, k), 0), p[k + 2])
      /\ poly_eval(p, 0) = Horner(p, 0, Len(p) - 1)
    BY HornerDef, SymbolsFacts
<1>2. p[Len(p)] \in Symbols
    BY CoefficientFacts
<1>5. Len(p) \in Nat /\ Len(p) >= 1
    BY CoefficientFacts
<1>3. CASE Len(p) = 1
    BY <1>1, <1>3
<1>4. CASE Len(p) # 1
  <2> DEFINE n == Len(p)
  <2>3. n \in Nat /\ n >= 1 /\ n # 1
      BY <1>4, <1>5
  <2> HIDE DEF n
  <2>4. n - 2 \in 0 .. n - 2 /\ (n - 2) + 1 = n - 1 /\ (n - 2) + 2 = n
      BY <2>3
  <2>1. Len(p) - 2 \in 0 .. Len(p) - 2 /\ (Len(p) - 2) + 1 = Len(p) - 1 /\ (Len(p) - 2) + 2 = Len(p)
      BY <2>4 DEF n
  <2>2. Horner(p, 0, (Len(p) - 2) + 1) = Add(mul(Horner(p, 0, Len(p) - 2), 0), p[(Len(p) - 2) + 2])
      BY <1>1, <2>1
  <2> QED BY <1>1, <1>2, <2>1, <2>2, MulZero, AddLaws
<1> QED BY <1>3, <1>4

(* Of no more errors than half the redundancy Berlekamp-Massey finds the
   locator: its roots, taken backwards, are where the errors are. *)
THEOREM LocatorFound ==
    ASSUME NEW fs, NEW Y, Syndromes(fs, Y), 2 * Cardinality(Support(Y, enc_len)) <= ecc_length,
           NEW raw, raw = BerlekampMassey(fs).err_loc
    PROVE  /\ raw \in Polys /\ Len(raw) = Cardinality(Support(Y, enc_len)) + 1
           /\ Coefficient(raw, 0) = 1 /\ raw[1] # 0
           /\ \A q \in 0 .. enc_len - 1 : poly_eval(Reverse(raw), pow(2, q)) = 0 <=> Y[q] # 0
<1> DEFINE nu == Cardinality(Support(Y, enc_len))
           rev == Reverse(raw)
           U == Support(Y, enc_len)
           R == Images(Points, U)
           Z == Weights(Y, raw)
<1>1. /\ enc_len \in Nat /\ ecc_length \in Nat /\ nu \in Nat /\ IsFiniteSet(U)
      /\ fs \in Polys /\ Len(fs) = ecc_length /\ Y \in Families
    BY CodeFacts, SupportFacts DEF Syndromes
<1>2. /\ raw \in Polys /\ Len(raw) >= 1 /\ Coefficient(raw, 0) = 1 /\ Len(raw) \in Nat
      /\ \A i \in Len(raw) .. ecc_length : Conv(Coefs(raw), Series(fs), i) = 0
  <2>1. BerlekampMassey(fs) \in Locators /\ Recurrence(BerlekampMassey(fs).err_loc, BerlekampMassey(fs).old_loc, fs, ecc_length)
      BY <1>1, MasseyFacts
  <2>2. raw \in Polys
      BY <2>1 DEF Locators
  <2> QED BY <2>1, <2>2, CoefficientFacts DEF Recurrence
<1> HIDE DEF nu, R
<1>3. Len(raw) <= nu + 1
  <2>1. Cardinality(U) <= nu
      BY <1>1 DEF nu
  <2> QED BY <1>1, <2>1, MasseyBound
<1>4. \A q \in 0 .. enc_len - 1 : Z[q] = 0
  <2>1. 2 * nu <= ecc_length
      BY DEF nu
  <2>2. Len(raw) + nu - 1 <= ecc_length
      BY <1>1, <1>2, <1>3, <2>1
  <2>3. \A i \in Len(raw) .. Len(raw) + nu - 1 : i \in Len(raw) .. ecc_length
      BY <1>1, <1>2, <2>2
  <2>4. \A i \in Len(raw) .. Len(raw) + nu - 1 : Conv(Coefs(raw), Series(fs), i) = 0
      BY <1>2, <2>3
  <2>5. Cardinality(U) <= nu
      BY <1>1 DEF nu
  <2> QED BY <1>1, <1>2, <2>2, <2>4, <2>5, AnnihilatedErrors
<1>5. /\ rev \in Polys /\ Len(rev) = Len(raw) /\ rev[1] = 1
      /\ rev[Len(rev)] = raw[1]
  <2>1. /\ rev \in Polys /\ Len(rev) = Len(raw)
        /\ \A i \in 1 .. Len(raw) : rev[i] = raw[Len(raw) - i + 1]
      BY <1>2, ReverseFacts
  <2>2. 1 \in 1 .. Len(raw) /\ Len(raw) \in 1 .. Len(raw) /\ Len(raw) - 1 + 1 = Len(raw)
        /\ Len(raw) - Len(raw) + 1 = 1
      BY <1>2
  <2>3. raw[Len(raw)] = 1
      BY <1>2 DEF Coefficient
  <2> QED BY <2>1, <2>2, <2>3
<1>6. ASSUME NEW q \in 0 .. enc_len - 1, Y[q] # 0 PROVE poly_eval(rev, Points[q]) = 0
  <2>1. q \in Nat
      BY <1>1
  <2>2. Z[q] = mul(Y[q], poly_eval(rev, Points[q])) /\ poly_eval(rev, Points[q]) \in Symbols
      BY <1>1, <1>2, <2>1, WeightsFacts
  <2>3. Y[q] \in Symbols
      BY <1>1, <2>1 DEF Families
  <2> QED BY <1>4, <1>6, <2>2, <2>3, MulNonZero
<1>7. /\ \A q \in U : q \in 0 .. enc_len - 1 /\ Y[q] # 0 /\ q \in Nat
      /\ \A q \in 0 .. enc_len - 1 : Y[q] # 0 => q \in U
    BY <1>1 DEF Support
<1> HIDE DEF Z, rev, U
<1>8. /\ R \in SUBSET Symbols /\ \A x \in R : poly_eval(rev, x) = 0 /\ x # 0
      /\ \A q \in 0 .. enc_len - 1 : Points[q] \in R => Y[q] # 0
  <2>1. \A q \in Nat : Points[q] \in Symbols /\ Points[q] # 0
      BY PointsFacts, PowFacts, SymbolsFacts
  <2>2. \A q \in 0 .. enc_len - 1 : Points[q] \in R => Y[q] # 0
    <3> SUFFICES ASSUME NEW q \in 0 .. enc_len - 1, Points[q] \in R PROVE Y[q] # 0
        OBVIOUS
    <3>1. PICK r \in U : Points[q] = Points[r]
        BY DEF R, Images
    <3>2. q = r
        BY <1>7, <3>1, PointsFacts
    <3> QED BY <1>7, <3>1, <3>2
  <2> QED BY <1>6, <1>7, <2>1, <2>2 DEF R, Images
<1>9. IsFiniteSet(R) /\ Cardinality(R) = nu
  <2>1. U \in SUBSET (0 .. enc_len - 1)
      BY <1>7
  <2>2. \A i, j \in 0 .. enc_len - 1 : Points[i] = Points[j] => i = j
      BY PointsFacts
  <2>3. /\ IsFiniteSet(Images(Points, U))
        /\ Cardinality(Images(Points, U)) = Cardinality(U)
      BY <1>1, <2>1, <2>2, ImageCardinality
  <2> QED BY <2>3 DEF R, nu, U
<1>10. Len(raw) = nu + 1
  <2>1. Cardinality(R) <= Len(rev) - 1
    <3>1. Len(rev) >= 1 /\ rev[1] # 0
        BY <1>2, <1>5
    <3> QED BY <1>5, <1>8, <3>1, RootBound
  <2> QED BY <1>1, <1>2, <1>3, <1>5, <1>9, <2>1
<1>11. ASSUME NEW x \in Symbols, poly_eval(rev, x) = 0 PROVE x \in R
  <2> SUFFICES ASSUME x \notin R PROVE FALSE
      OBVIOUS
  <2>1. Cardinality(R \cup {x}) = nu + 1
      BY <1>9, FS_AddElement
  <2>2. Cardinality(R \cup {x}) <= Len(rev) - 1
    <3>1. Len(rev) >= 1 /\ rev[1] # 0
        BY <1>2, <1>5
    <3>2. R \cup {x} \in SUBSET Symbols
        BY <1>8
    <3>3. \A y \in R \cup {x} : poly_eval(rev, y) = 0
        BY <1>8, <1>11
    <3> QED BY <1>5, <3>1, <3>2, <3>3, RootBound
  <2> QED BY <1>1, <1>2, <1>5, <1>10, <2>1, <2>2
<1>12. raw[1] # 0
  <2> SUFFICES ASSUME raw[1] = 0 PROVE FALSE
      OBVIOUS
  <2>1. poly_eval(rev, 0) = 0
    <3>1. Len(rev) >= 1
        BY <1>2, <1>5
    <3> QED BY <1>5, <3>1, EvalAtZero
  <2>2. 0 \in R
      BY <1>11, <2>1, SymbolsFacts
  <2> QED BY <1>8, <2>2
<1>13. ASSUME NEW q \in 0 .. enc_len - 1 PROVE poly_eval(rev, pow(2, q)) = 0 <=> Y[q] # 0
  <2>1. q \in Nat
      BY <1>1
  <2>2. Points[q] = pow(2, q) /\ Points[q] \in Symbols
      BY <2>1, PointsFacts, PowFacts
  <2> QED BY <1>6, <1>8, <1>11, <2>2
<1> QED BY <1>2, <1>10, <1>12, <1>13 DEF nu, rev, U

(* The locator is what is left of raw, and it is short if it is accepted. *)
LEMMA ShortenedFacts ==
    ASSUME NEW raw \in Polys, Len(raw) >= 1, Coefficient(raw, 0) = 1
    PROVE  /\ Shortened(raw).loc \in Polys /\ Shortened(raw).raw = raw
           /\ Len(Shortened(raw).loc) \in 1 .. Len(raw)
           /\ Shortened(raw).ok <=> 2 * (Len(Shortened(raw).loc) - 1) <= ecc_length
           /\ raw[1] # 0 => Shortened(raw).loc = raw
<1> DEFINE First(k) == raw[k + 1] # 0 /\ \A i \in 1 .. k : raw[i] = 0
           shift == CHOOSE k \in 0 .. Len(raw) - 1 : First(k)
<1>1. Len(raw) \in Nat /\ raw[Len(raw)] = 1 /\ ecc_length \in Nat
    BY CoefficientFacts, CodeFacts DEF Coefficient
<1>2. \E k \in 0 .. Len(raw) - 1 : First(k)
  <2> DEFINE T == {k \in Nat : k <= Len(raw) - 1 /\ raw[k + 1] # 0}
  <2>1. T \subseteq Nat /\ T # {}
    <3>1. Len(raw) - 1 \in Nat /\ (Len(raw) - 1) + 1 = Len(raw) /\ raw[Len(raw)] # 0
        BY <1>1
    <3>2. Len(raw) - 1 \in T
        BY <3>1
    <3> QED BY <3>2
  <2>2. PICK k \in T : \A y \in T : <<y, k>> \notin Earlier
      BY <2>1, BelowWellFounded, WFMin, Zenon
  <2>3. ASSUME NEW i \in 1 .. k PROVE raw[i] = 0
    <3>1. k \in Nat /\ k <= Len(raw) - 1
        BY <2>2
    <3>2. i - 1 \in Nat /\ i - 1 < k /\ (i - 1) + 1 = i /\ i - 1 <= Len(raw) - 1
        BY <1>1, <3>1
    <3>3. i - 1 \notin T
        BY <2>2, <3>1, <3>2 DEF Earlier
    <3> QED BY <3>2, <3>3
  <2>4. k \in 0 .. Len(raw) - 1 /\ raw[k + 1] # 0
      BY <1>1, <2>2
  <2> QED BY <2>3, <2>4
<1>3. shift \in 0 .. Len(raw) - 1 /\ First(shift)
    BY <1>2
<1>4. Shortened(raw) = [raw |-> raw, loc |-> SubSeq(raw, shift + 1, Len(raw)),
                        ok |-> Correctable(Len(raw) - shift - 1)]
    BY Zenon DEF Shortened
<1> HIDE DEF shift
<1>5. /\ Shortened(raw).raw = raw
      /\ Shortened(raw).loc = SubSeq(raw, shift + 1, Len(raw))
      /\ Shortened(raw).ok = Correctable(Len(raw) - shift - 1)
  <2> DEFINE c == Correctable(Len(raw) - shift - 1)
             b == SubSeq(raw, shift + 1, Len(raw))
  <2>0. Shortened(raw) = [raw |-> raw, loc |-> b, ok |-> c]
      BY <1>4
  <2> HIDE DEF b, c
  <2>1. Shortened(raw).raw = raw /\ Shortened(raw).loc = b
      BY <2>0
  <2>2. Shortened(raw).ok = c
      BY <2>0
  <2>3. Shortened(raw).raw = raw /\ Shortened(raw).loc = b /\ Shortened(raw).ok = c
      BY <2>1, <2>2, Zenon
  <2> QED BY <2>3, Zenon DEF b, c
<1>6. /\ SubSeq(raw, shift + 1, Len(raw)) \in Polys
      /\ Len(SubSeq(raw, shift + 1, Len(raw))) = Len(raw) - shift
      /\ \A i \in 1 .. Len(raw) - shift : SubSeq(raw, shift + 1, Len(raw))[i] = raw[shift + i]
  <2>1. shift + 1 \in Nat /\ shift + 1 >= 1 /\ shift + 1 <= Len(raw) + 1 /\ Len(raw) <= Len(raw)
        /\ Len(raw) - (shift + 1) + 1 = Len(raw) - shift
      BY <1>1, <1>3
  <2>2. \A i \in 1 .. Len(raw) - shift : shift + 1 + i - 1 = shift + i
      BY <1>1, <1>3
  <2> QED BY <1>1, <2>1, <2>2, SubSeqFacts
<1>7. ASSUME raw[1] # 0 PROVE Shortened(raw).loc = raw
  <2>1. shift = 0
    <3> SUFFICES ASSUME shift # 0 PROVE FALSE
        OBVIOUS
    <3>1. 1 \in 1 .. shift
        BY <1>1, <1>3
    <3> QED BY <1>3, <1>7, <3>1
  <2> DEFINE u == SubSeq(raw, shift + 1, Len(raw))
  <2>2. u \in Polys /\ Len(u) = Len(raw) /\ \A i \in 1 .. Len(raw) : u[i] = raw[i]
      BY <1>1, <1>6, <2>1
  <2>3. \A j \in 0 .. Len(u) - 1 : Coefficient(u, j) = Coefficient(raw, j)
    <3>1. ASSUME NEW j \in 0 .. Len(raw) - 1 PROVE j < Len(raw) /\ Len(raw) - j \in 1 .. Len(raw)
        BY <1>1
    <3> HIDE DEF u
    <3> QED BY <2>2, <3>1 DEF Coefficient
  <2> HIDE DEF u
  <2>4. u = raw
      BY <2>2, <2>3, PolyEqual
  <2> QED BY <1>5, <2>4 DEF u
<1>8. Len(Shortened(raw).loc) \in 1 .. Len(raw)
    BY <1>1, <1>3, <1>5, <1>6
<1>9. Shortened(raw).ok <=> 2 * (Len(Shortened(raw).loc) - 1) <= ecc_length
  <2>1. Shortened(raw).ok <=> (Len(raw) - shift - 1) * 2 <= ecc_length
      BY <1>5 DEF Correctable
  <2>2. Len(Shortened(raw).loc) = Len(raw) - shift
      BY <1>5, <1>6
  <2> QED BY <1>1, <1>3, <2>1, <2>2
<1> QED BY <1>5, <1>6, <1>7, <1>8, <1>9

------------------------------------------------------------------------------
(* The search for the roots.                                                *)

(* What FindErrors() has after k powers: the exponents of the roots among
   them, in order. *)
Found(reloc, raw, k) ==
    {s \in Seq(Nat) :
        /\ \A a \in 1 .. Len(s) : s[a] < k /\ IsRoot(reloc, raw, s[a])
        /\ \A a, b \in 1 .. Len(s) : a < b => s[a] < s[b]
        /\ \A i \in Nat : i < k /\ IsRoot(reloc, raw, i) => \E a \in 1 .. Len(s) : s[a] = i}

(* What the whole search leaves. *)
LEMMA RootsFound ==
    ASSUME NEW reloc, NEW raw
    PROVE  Roots(reloc, raw) \in Found(reloc, raw, enc_len)
<1> DEFINE f == [i \in 1 .. enc_len |-> [err \in Seq(Nat) |->
                    IF IsRoot(reloc, raw, i - 1) THEN Append(err, i - 1) ELSE err]]
           T == [k \in Nat |-> Found(reloc, raw, k)]
<1>1. enc_len \in Nat
    BY CodeFacts
<1>2. <<>> \in T[0]
  <2>1. <<>> \in Found(reloc, raw, 0)
      BY DEF Found
  <2> QED BY <2>1
<1>3. ASSUME NEW k \in 0 .. enc_len - 1, NEW s \in T[k] PROVE f[k + 1][s] \in T[k + 1]
  <2>1. k \in Nat /\ k + 1 \in Nat /\ k + 1 \in 1 .. enc_len /\ (k + 1) - 1 = k
      BY <1>1
  <2>2. /\ s \in Seq(Nat) /\ Len(s) \in Nat
        /\ \A a \in 1 .. Len(s) : s[a] < k /\ IsRoot(reloc, raw, s[a])
        /\ \A a, b \in 1 .. Len(s) : a < b => s[a] < s[b]
        /\ \A i \in Nat : i < k /\ IsRoot(reloc, raw, i) => \E a \in 1 .. Len(s) : s[a] = i
    <3>1. s \in Found(reloc, raw, k)
        BY <2>1
    <3> QED BY <3>1 DEF Found
  <2>3. f[k + 1][s] = IF IsRoot(reloc, raw, k) THEN Append(s, k) ELSE s
      BY <2>1, <2>2
  <2>4. T[k + 1] = Found(reloc, raw, k + 1)
      BY <2>1
  <2> HIDE DEF f, T
  <2>5. CASE ~IsRoot(reloc, raw, k)
    <3>1. \A i \in Nat : i < k + 1 => i < k \/ i = k
        BY <2>1
    <3>2. \A a \in 1 .. Len(s) : s[a] \in Nat
        BY <2>2
    <3>3. \A a \in 1 .. Len(s) : s[a] < k + 1
        BY <2>1, <2>2, <3>2
    <3>4. s \in Found(reloc, raw, k + 1)
        BY <2>2, <2>5, <3>1, <3>3 DEF Found
    <3> QED BY <2>3, <2>4, <2>5, <3>4
  <2>6. CASE IsRoot(reloc, raw, k)
    <3> DEFINE r == Append(s, k)
               n == Len(s)
    <3>1. /\ r \in Seq(Nat) /\ Len(r) = n + 1 /\ r[n + 1] = k /\ n \in Nat
          /\ \A a \in 1 .. n : r[a] = s[a] /\ s[a] \in Nat
        BY <2>1, <2>2
    <3> HIDE DEF r, n
    <3>2. \A a \in 1 .. n + 1 : a \in 1 .. n \/ a = n + 1
        BY <3>1
    <3>3. \A a \in 1 .. Len(r) : r[a] < k + 1 /\ IsRoot(reloc, raw, r[a])
      <4> SUFFICES ASSUME NEW a \in 1 .. n + 1 PROVE r[a] < k + 1 /\ IsRoot(reloc, raw, r[a])
          BY <3>1
      <4>1. CASE a = n + 1
          BY <2>1, <2>6, <3>1, <4>1
      <4>2. CASE a \in 1 .. n
        <5>1. s[a] < k /\ IsRoot(reloc, raw, s[a]) /\ s[a] \in Nat /\ r[a] = s[a]
            BY <2>2, <3>1, <4>2 DEF n
        <5> QED BY <2>1, <5>1
      <4> QED BY <3>2, <4>1, <4>2
    <3>4. \A a, b \in 1 .. Len(r) : a < b => r[a] < r[b]
      <4> SUFFICES ASSUME NEW a \in 1 .. n + 1, NEW b \in 1 .. n + 1, a < b PROVE r[a] < r[b]
          BY <3>1
      <4>1. a \in 1 .. n
          BY <3>1
      <4>2. r[a] = s[a] /\ s[a] < k
          BY <2>2, <3>1, <4>1 DEF n
      <4>3. CASE b = n + 1
          BY <3>1, <4>2, <4>3
      <4>4. CASE b \in 1 .. n
          BY <2>2, <3>1, <4>1, <4>2, <4>4 DEF n
      <4> QED BY <3>2, <4>3, <4>4
    <3>5. ASSUME NEW i \in Nat, i < k + 1, IsRoot(reloc, raw, i) PROVE \E a \in 1 .. Len(r) : r[a] = i
      <4>1. CASE i = k
        <5>1. n + 1 \in 1 .. Len(r)
            BY <3>1
        <5> QED BY <3>1, <4>1, <5>1
      <4>2. CASE i # k
        <5>1. i < k
            BY <2>1, <3>5, <4>2
        <5>2. PICK a \in 1 .. n : s[a] = i
            BY <2>2, <3>5, <5>1 DEF n
        <5>3. a \in 1 .. Len(r)
            BY <3>1, <5>2
        <5> QED BY <3>1, <5>2, <5>3
      <4> QED BY <4>1, <4>2
    <3>6. r \in Found(reloc, raw, k + 1)
        BY <3>1, <3>3, <3>4, <3>5 DEF Found
    <3> QED BY <2>3, <2>4, <2>6, <3>6 DEF r
  <2> QED BY <2>5, <2>6
<1>4. Roots(reloc, raw) = Loop(f, <<>>, enc_len)
    BY Zenon DEF Roots
<1> HIDE DEF f, T
<1>5. Loop(f, <<>>, enc_len) \in T[enc_len]
  <2>1. \A k \in 0 .. enc_len : Loop(f, <<>>, k) \in T[k]
      BY <1>1, <1>2, <1>3, LoopInvariant
  <2> QED BY <1>1, <2>1
<1> QED BY <1>1, <1>4, <1>5 DEF T

(* The exponents of the roots that a block has room for. *)
RootSet(reloc, raw) == {i \in 0 .. enc_len - 1 : IsRoot(reloc, raw, i)}

(* The search finds every root of a block, once, and nothing else. *)
LEMMA RootsFacts ==
    ASSUME NEW reloc, NEW raw
    PROVE  /\ Roots(reloc, raw) \in Seq(Nat) /\ Len(Roots(reloc, raw)) \in Nat
           /\ \A a \in 1 .. Len(Roots(reloc, raw)) :
                 /\ Roots(reloc, raw)[a] \in 0 .. enc_len - 1
                 /\ IsRoot(reloc, raw, Roots(reloc, raw)[a])
           /\ \A a, b \in 1 .. Len(Roots(reloc, raw)) :
                 Roots(reloc, raw)[a] = Roots(reloc, raw)[b] => a = b
           /\ \A i \in 0 .. enc_len - 1 : IsRoot(reloc, raw, i) =>
                 \E a \in 1 .. Len(Roots(reloc, raw)) : Roots(reloc, raw)[a] = i
           /\ Len(Roots(reloc, raw)) = Cardinality(RootSet(reloc, raw))
<1> DEFINE s == Roots(reloc, raw)
           n == Len(s)
           S == {i \in 0 .. enc_len - 1 : IsRoot(reloc, raw, i)}
<1>1. /\ s \in Seq(Nat) /\ n \in Nat
      /\ \A a \in 1 .. n : s[a] \in Nat
      /\ \A a \in 1 .. n : s[a] < enc_len /\ IsRoot(reloc, raw, s[a])
      /\ \A a, b \in 1 .. n : a < b => s[a] < s[b]
      /\ \A i \in Nat : i < enc_len /\ IsRoot(reloc, raw, i) => \E a \in 1 .. n : s[a] = i
    BY RootsFound DEF Found
<1>2. enc_len \in Nat
    BY CodeFacts
<1> HIDE DEF s, n
<1>3. \A a \in 1 .. n : s[a] \in 0 .. enc_len - 1 /\ IsRoot(reloc, raw, s[a])
    BY <1>1, <1>2
<1>4. \A i \in 0 .. enc_len - 1 : IsRoot(reloc, raw, i) => \E a \in 1 .. n : s[a] = i
  <2>1. \A i \in 0 .. enc_len - 1 : i \in Nat /\ i < enc_len
      BY <1>2
  <2> QED BY <1>1, <2>1
<1>5. ASSUME NEW a \in 1 .. n, NEW b \in 1 .. n, s[a] = s[b] PROVE a = b
  <2>1. ~(a < b) /\ ~(b < a)
      BY <1>1, <1>5
  <2> QED BY <1>1, <2>1
<1>6. n = Cardinality(S)
  <2> DEFINE f == [a \in 1 .. n |-> s[a]]
  <2>1. f \in Bijection(1 .. n, S)
    <3>1. f \in [1 .. n -> S] /\ \A a \in 1 .. n : f[a] = s[a]
        BY <1>3
    <3>2. \A a, b \in 1 .. n : f[a] = f[b] => a = b
        BY <1>5, <3>1
    <3>3. \A t \in S : \E a \in 1 .. n : f[a] = t
        BY <1>4, <3>1
    <3> HIDE DEF f, S
    <3> QED BY <3>1, <3>2, <3>3 DEF Bijection, Injection, IsInjective, Surjection
  <2> HIDE DEF f, S
  <2>2. ExistsBijection(1 .. n, S)
      BY <2>1 DEF ExistsBijection
  <2>3. IsFiniteSet(1 .. n) /\ Cardinality(1 .. n) = n
      BY <1>1, FS_Interval
  <2> QED BY <2>2, <2>3, FS_Bijection
<1> QED BY <1>1, <1>3, <1>4, <1>5, <1>6 DEF s, n, S, RootSet

------------------------------------------------------------------------------
(* Forney.                                                                  *)

(* The powers of x, as a sequence. *)
Powers(x) == [j \in Nat |-> Power(x, j)]

(* The powers are symbols. *)
LEMMA PowersFacts ==
    ASSUME NEW x \in Symbols
    PROVE  Powers(x) \in Families /\ \A j \in Nat : Powers(x)[j] = Power(x, j)
<1>1. \A j \in Nat : Power(x, j) \in Symbols
    BY PowerDef
<1> QED BY <1>1 DEF Powers, Families

(* Multiplying by the powers of x is Horner's scheme. *)
LEMMA ConvPowers ==
    ASSUME NEW f \in Families, NEW x \in Symbols
    PROVE  /\ Conv(f, Powers(x), 0) = f[0]
           /\ \A m \in Nat : Conv(f, Powers(x), m + 1) = Add(mul(x, Conv(f, Powers(x), m)), f[m + 1])
<1> DEFINE P == Powers(x)
<1>1. P \in Families /\ \A j \in Nat : P[j] = Power(x, j)
    BY PowersFacts
<1>2. \A j \in Nat : f[j] \in Symbols /\ P[j] \in Symbols
    BY <1>1 DEF Families
<1>3. P[0] = 1
    BY <1>1, PowerDef
<1> HIDE DEF P
<1>4. ASSUME NEW m \in Nat
      PROVE  Crossed(f, P, m) \in Families
             /\ \A j \in Nat : Crossed(f, P, m)[j] = IF j <= m THEN mul(f[j], P[m - j]) ELSE 0
    BY <1>1, ConvFacts
<1>5. Conv(f, P, 0) = f[0]
  <2> DEFINE c == Crossed(f, P, 0)
  <2>1. 0 \in Nat /\ 0 <= 0 /\ 0 - 0 = 0
      OBVIOUS
  <2>2. c \in Families /\ c[0] = mul(f[0], P[0])
      BY <1>4, <2>1
  <2> HIDE DEF c
  <2>3. Total(c, 1) = c[0]
      BY <2>2, SumOne
  <2>4. c[0] = f[0]
      BY <1>2, <1>3, <2>1, <2>2, MulOne
  <2>5. 0 + 1 = 1
      OBVIOUS
  <2> QED BY <2>3, <2>4, <2>5 DEF Conv, c
<1>6. ASSUME NEW m \in Nat PROVE Conv(f, P, m + 1) = Add(mul(x, Conv(f, P, m)), f[m + 1])
  <2> DEFINE c == Crossed(f, P, m + 1)
             d == Crossed(f, P, m)
  <2>1. m + 1 \in Nat /\ (m + 1) - (m + 1) = 0 /\ m + 1 <= m + 1 /\ (m + 1) - 1 = m
      OBVIOUS
  <2>2. c \in Families /\ \A j \in Nat : c[j] = IF j <= m + 1 THEN mul(f[j], P[(m + 1) - j]) ELSE 0
      BY <1>4, <2>1
  <2>3. d \in Families /\ \A j \in Nat : d[j] = IF j <= m THEN mul(f[j], P[m - j]) ELSE 0
      BY <1>4
  <2> HIDE DEF c, d
  <2>4. ASSUME NEW j \in 0 .. m PROVE c[j] = mul(x, d[j])
    <3>1. j \in Nat /\ j <= m /\ j <= m + 1 /\ m - j \in Nat /\ (m + 1) - j = (m - j) + 1
        OBVIOUS
    <3>2. P[(m - j) + 1] = mul(P[m - j], x)
      <4>1. (m - j) + 1 \in Nat
          BY <3>1
      <4>2. P[(m - j) + 1] = Power(x, (m - j) + 1) /\ P[m - j] = Power(x, m - j)
          BY <1>1, <3>1, <4>1
      <4>3. Power(x, (m - j) + 1) = mul(Power(x, m - j), x)
          BY <3>1, PowerDef
      <4> QED BY <4>2, <4>3
    <3>3. c[j] = mul(f[j], mul(P[m - j], x)) /\ d[j] = mul(f[j], P[m - j])
        BY <2>2, <2>3, <3>1, <3>2
    <3>4. f[j] \in Symbols /\ P[m - j] \in Symbols
        BY <1>2, <3>1
    <3> DEFINE a == f[j]
               b == P[m - j]
    <3> HIDE DEF a, b
    <3>5. a \in Symbols /\ b \in Symbols
        BY <3>4 DEF a, b
    <3>6. mul(a, mul(b, x)) = mul(mul(a, b), x) /\ mul(a, b) \in Symbols
        BY <3>5, MulAssoc, MulType
    <3>7. mul(mul(a, b), x) = mul(x, mul(a, b))
        BY <3>6, MulComm
    <3> QED BY <3>3, <3>6, <3>7 DEF a, b
  <2>5. \A j \in 0 .. (m + 1) - 1 : c[j] = mul(x, d[j])
      BY <2>1, <2>4
  <2>6. Total(c, m + 1) = mul(x, Total(d, m + 1))
      BY <2>1, <2>2, <2>3, <2>5, SumScale
  <2>7. c[m + 1] = f[m + 1]
    <3>1. c[m + 1] = mul(f[m + 1], P[0])
        BY <2>1, <2>2
    <3> QED BY <1>2, <1>3, <2>1, <3>1, MulOne
  <2>8. Total(c, (m + 1) + 1) = Add(Total(c, m + 1), c[m + 1])
      BY <2>1, <2>2, SumDef
  <2> QED BY <2>6, <2>7, <2>8 DEF Conv, c, d
<1> QED BY <1>5, <1>6 DEF P

(* It divides by 1 + x times the variable. *)
LEMMA ConvGeometric ==
    ASSUME NEW f \in Families, NEW g \in Families, NEW x \in Symbols,
           f[0] = g[0], \A m \in Nat : f[m + 1] = Add(g[m + 1], mul(x, g[m]))
    PROVE  \A m \in Nat : Conv(f, Powers(x), m) = g[m]
<1> DEFINE S == {m \in Nat : Conv(f, Powers(x), m) = g[m]}
<1>1. 0 \in S
    BY ConvPowers
<1>2. ASSUME NEW m \in Nat, m \in S PROVE m + 1 \in S
  <2>1. Conv(f, Powers(x), m) = g[m]
      BY <1>2
  <2>2. g[m] \in Symbols /\ g[m + 1] \in Symbols
      BY DEF Families
  <2>3. mul(x, g[m]) \in Symbols
      BY <2>2, MulType
  <2>4. Conv(f, Powers(x), m + 1) = Add(mul(x, g[m]), f[m + 1])
      BY <2>1, ConvPowers
  <2> DEFINE a == mul(x, g[m])
             b == g[m + 1]
  <2> HIDE DEF a, b
  <2>5. Add(a, Add(b, a)) = b
    <3>1. a \in Symbols /\ b \in Symbols
        BY <2>2, <2>3 DEF a, b
    <3>2. Add(a, Add(b, a)) = Add(Add(b, a), a) /\ Add(b, a) \in Symbols
        BY <3>1, AddLaws
    <3> QED BY <3>1, <3>2, AddCancel
  <2> QED BY <2>4, <2>5 DEF a, b
<1> HIDE DEF S
<1>3. Nat \subseteq S
    BY <1>1, <1>2, Induction
<1> QED BY <1>3 DEF S

(* Division by a power of the variable leaves the low coefficients. *)
LEMMA DivisionByPower ==
    ASSUME NEW p \in Polys, NEW k \in Nat, k <= Len(p)
    PROVE  /\ poly_div(p, <<1>> \o Zeros(k)) \in Polys
           /\ Len(poly_div(p, <<1>> \o Zeros(k))) = k
           /\ \A j \in 0 .. k - 1 : Coefficient(poly_div(p, <<1>> \o Zeros(k)), j) = Coefficient(p, j)
<1> DEFINE q == <<1>> \o Zeros(k)
           L == Len(p)
           sep == L - (Len(q) - 1)
           f == [i \in 1 .. sep |-> [r \in Polys |->
                    poly_add(r, poly_scale(Tail(q), r[i]) \o Zeros(L - Len(q) + 1 - i))]]
           T == [i \in Nat |-> {p}]
<1>1. L \in Nat /\ L >= k
    BY CoefficientFacts
<1>2. /\ <<1>> \in Polys /\ Len(<<1>>) = 1
      /\ \A j \in Nat : j >= 1 => Coefficient(<<1>>, j) = 0
    BY SymbolsFacts DEF Coefficient, Polys
<1>3. q \in Polys /\ Len(q) = k + 1 /\ \A j \in 0 .. k - 1 : Coefficient(q, j) = 0
  <2>1. /\ q \in Polys /\ Len(q) = 1 + k
        /\ \A j \in Nat : Coefficient(q, j) = IF j < k THEN 0 ELSE Coefficient(<<1>>, j - k)
      BY <1>2, ShiftFacts
  <2> HIDE DEF q
  <2>2. \A j \in 0 .. k - 1 : j \in Nat /\ j < k
      OBVIOUS
  <2> QED BY <2>1, <2>2
<1> HIDE DEF q
<1>4. Tail(q) \in Polys /\ Len(Tail(q)) = k /\ \A j \in Nat : Coefficient(Tail(q), j) = 0
  <2>1. /\ Tail(q) \in Polys /\ Len(Tail(q)) = k
        /\ \A j \in 0 .. k - 1 : Coefficient(Tail(q), j) = Coefficient(q, j)
    <3>1. Len(q) >= 1 /\ Len(q) - 1 = k /\ Len(q) - 2 = k - 1
        BY <1>3
    <3> QED BY <1>3, <3>1, TailFacts
  <2>2. \A j \in Nat : j >= k \/ j \in 0 .. k - 1
      OBVIOUS
  <2> QED BY <1>3, <2>1, <2>2, CoefficientFacts
<1>5. sep = L - k /\ sep \in Nat
    BY <1>1, <1>3
<1> HIDE DEF sep
<1>6. ASSUME NEW i \in 0 .. sep - 1 PROVE f[i + 1][p] = p
  <2> DEFINE z == L - Len(q) + 1 - (i + 1)
             t == poly_scale(Tail(q), p[i + 1])
             u == t \o Zeros(z)
  <2>1. /\ i + 1 \in 1 .. sep /\ i + 1 \in 1 .. L /\ z \in Nat /\ k + z <= L
      BY <1>1, <1>3, <1>5
  <2>2. f[i + 1][p] = poly_add(p, u)
      BY <2>1
  <2>3. p[i + 1] \in Symbols
      BY <2>1, CoefficientFacts
  <2>4. /\ t \in Polys /\ Len(t) = k
        /\ \A j \in Nat : Coefficient(t, j) = mul(Coefficient(Tail(q), j), p[i + 1])
      BY <1>4, <2>3, ScaleFacts
  <2> HIDE DEF t, z, f
  <2>5. \A j \in Nat : Coefficient(t, j) = 0
      BY <1>4, <2>4, MulZero
  <2>6. /\ u \in Polys /\ Len(u) = Len(t) + z
        /\ \A j \in Nat : Coefficient(u, j) = IF j < z THEN 0 ELSE Coefficient(t, j - z)
      BY <2>1, <2>4, ShiftFacts
  <2> HIDE DEF u
  <2>7. \A j \in Nat : Coefficient(u, j) = 0
    <3>1. \A j \in Nat : j < z \/ j - z \in Nat
        BY <2>1
    <3> QED BY <2>5, <2>6, <3>1
  <2>8. Len(u) <= L
      BY <2>1, <2>4, <2>6
  <2>9. /\ poly_add(p, u) \in Polys /\ Len(poly_add(p, u)) = poly_max(Len(p), Len(u))
        /\ \A j \in Nat : Coefficient(poly_add(p, u), j) = Add(Coefficient(p, j), Coefficient(u, j))
      BY <2>6, PolyAddFacts
  <2> DEFINE v == poly_add(p, u)
  <2> HIDE DEF v
  <2>10. v \in Polys /\ Len(v) = Len(p)
    <3>1. Len(u) \in Nat
        BY <2>6, CoefficientFacts
    <3>2. poly_max(Len(p), Len(u)) = Len(p)
        BY <1>1, <2>8, <3>1 DEF poly_max
    <3> QED BY <2>9, <3>2 DEF v
  <2>11. \A j \in Nat : Coefficient(v, j) = Coefficient(p, j)
    <3>1. \A j \in Nat : Coefficient(p, j) \in Symbols
        BY CoefficientFacts
    <3> QED BY <2>7, <2>9, <3>1, AddLaws DEF v
  <2>12. \A j \in 0 .. Len(v) - 1 : Coefficient(v, j) = Coefficient(p, j)
    <3>1. \A j \in 0 .. Len(v) - 1 : j \in Nat
        BY <1>1, <2>10
    <3> QED BY <2>11, <3>1
  <2>13. v = p
      BY <2>10, <2>12, PolyEqual
  <2> QED BY <2>2, <2>13 DEF v
<1>7. Reduced(p, q, sep) = Loop(f, p, sep)
    BY Zenon DEF Reduced
<1>8. poly_div(p, q) = SubSeq(Reduced(p, q, sep), sep + 1, Len(p))
    BY Zenon DEF poly_div, sep
<1> HIDE DEF f
<1>9. Loop(f, p, sep) = p
  <2>1. p \in T[0] /\ \A i \in 0 .. sep - 1 : \A a \in T[i] : f[i + 1][a] \in T[i + 1]
      BY <1>5, <1>6
  <2> HIDE DEF T
  <2>2. \A i \in 0 .. sep : Loop(f, p, i) \in T[i]
      BY <1>5, <2>1, LoopInvariant
  <2> QED BY <1>5, <2>2 DEF T
<1> DEFINE w == SubSeq(p, sep + 1, Len(p))
<1>10. w \in Polys /\ Len(w) = k /\ \A i \in 1 .. k : w[i] = p[sep + i]
  <2>1. sep + 1 \in Nat /\ sep + 1 >= 1 /\ sep + 1 <= L + 1 /\ L <= L /\ L - (sep + 1) + 1 = k
        /\ \A i \in 1 .. k : (sep + 1) + i - 1 = sep + i
      BY <1>1, <1>5
  <2> QED BY <1>1, <2>1, SubSeqFacts
<1>11. \A j \in 0 .. k - 1 : Coefficient(w, j) = Coefficient(p, j)
  <2>1. ASSUME NEW j \in 0 .. k - 1 PROVE j < k /\ j < L /\ k - j \in 1 .. k /\ sep + (k - j) = L - j
      BY <1>1, <1>5
  <2> HIDE DEF w
  <2> QED BY <1>10, <2>1 DEF Coefficient
<1> QED BY <1>7, <1>8, <1>9, <1>10, <1>11 DEF q

(* P is O times 1 + y times the variable. *)
Multiple(P, O, y) ==
    /\ Coefficient(P, 0) = Coefficient(O, 0)
    /\ \A m \in Nat : Coefficient(P, m + 1) = Add(Coefficient(O, m + 1), mul(y, Coefficient(O, m)))

(* A common factor keeps it. *)
LEMMA MultipleStep ==
    ASSUME NEW P \in Polys, NEW O \in Polys, Len(P) >= 1, Len(O) >= 1,
           NEW x \in Symbols, NEW y \in Symbols, Multiple(P, O, y)
    PROVE  Multiple(poly_mul(P, <<x, 1>>), poly_mul(O, <<x, 1>>), y)
<1> DEFINE p(m) == Coefficient(P, m)
           o(m) == Coefficient(O, m)
           Q == poly_mul(P, <<x, 1>>)
           R == poly_mul(O, <<x, 1>>)
<1>1. /\ \A m \in Nat : p(m) \in Symbols /\ o(m) \in Symbols
      /\ 1 \in Symbols /\ 0 \in Nat
    BY CoefficientFacts, SymbolsFacts
<1>2. p(0) = o(0) /\ \A m \in Nat : p(m + 1) = Add(o(m + 1), mul(y, o(m)))
    BY DEF Multiple
<1>3. /\ Coefficient(Q, 0) = mul(1, p(0))
      /\ \A j \in Nat : Coefficient(Q, j + 1) = Add(mul(1, p(j + 1)), mul(x, p(j)))
    BY <1>1, MulLinear
<1>4. /\ Coefficient(R, 0) = mul(1, o(0))
      /\ \A j \in Nat : Coefficient(R, j + 1) = Add(mul(1, o(j + 1)), mul(x, o(j)))
    BY <1>1, MulLinear
<1> HIDE DEF Q, R, p, o
<1>5. /\ Coefficient(Q, 0) = p(0) /\ Coefficient(R, 0) = o(0)
      /\ \A j \in Nat : Coefficient(Q, j + 1) = Add(p(j + 1), mul(x, p(j)))
      /\ \A j \in Nat : Coefficient(R, j + 1) = Add(o(j + 1), mul(x, o(j)))
  <2>1. \A j \in Nat : j + 1 \in Nat
      OBVIOUS
  <2> QED BY <1>1, <1>3, <1>4, <2>1, MulOne
<1>6. ASSUME NEW m \in Nat
      PROVE  Coefficient(Q, m + 1) = Add(Coefficient(R, m + 1), mul(y, Coefficient(R, m)))
  <2> DEFINE a == o(m + 1)
             b == mul(y, o(m))
             c == mul(x, o(m))
  <2>1. m + 1 \in Nat
      OBVIOUS
  <2>2. o(m) \in Symbols /\ a \in Symbols
      BY <1>1, <2>1
  <2>3. b \in Symbols /\ c \in Symbols
      BY <2>2, MulType
  <2>4. Coefficient(Q, m + 1) = Add(Add(a, b), mul(x, p(m)))
      BY <1>2, <1>5
  <2>5. Coefficient(R, m + 1) = Add(a, c)
      BY <1>5
  <2> HIDE DEF a, b, c
  <2>6. CASE m = 0
    <3>1. mul(x, p(m)) = c /\ mul(y, Coefficient(R, m)) = b
        BY <1>2, <1>5, <2>6 DEF b, c
    <3>2. Add(Add(a, b), c) = Add(a, Add(b, c)) /\ Add(b, c) = Add(c, b) /\ Add(a, Add(c, b)) = Add(Add(a, c), b)
        BY <2>2, <2>3, AddLaws
    <3> QED BY <2>4, <2>5, <3>1, <3>2
  <2>7. CASE m # 0
    <3> DEFINE n == m - 1
               d == mul(x, mul(y, o(n)))
    <3>1. n \in Nat /\ n + 1 = m
        BY <2>7
    <3> HIDE DEF n
    <3>2. o(n) \in Symbols /\ mul(y, o(n)) \in Symbols /\ mul(x, o(n)) \in Symbols /\ d \in Symbols
      <4>1. o(n) \in Symbols
          BY <1>1, <3>1
      <4>2. mul(y, o(n)) \in Symbols /\ mul(x, o(n)) \in Symbols
          BY <4>1, MulType
      <4> QED BY <4>1, <4>2, MulType
    <3>3. mul(x, p(m)) = Add(c, d)
      <4>1. p(m) = Add(o(m), mul(y, o(n)))
          BY <1>2, <3>1
      <4>2. mul(x, Add(o(m), mul(y, o(n)))) = Add(mul(x, o(m)), mul(x, mul(y, o(n))))
          BY <2>2, <3>2, MulDistributes
      <4> QED BY <4>1, <4>2 DEF c
    <3>4. mul(y, Coefficient(R, m)) = Add(b, d)
      <4>1. Coefficient(R, m) = Add(o(m), mul(x, o(n)))
          BY <1>5, <3>1
      <4>2. mul(y, Add(o(m), mul(x, o(n)))) = Add(mul(y, o(m)), mul(y, mul(x, o(n))))
          BY <2>2, <3>2, MulDistributes
      <4>3. mul(y, mul(x, o(n))) = d
        <5> DEFINE u == o(n)
        <5>1. u \in Symbols
            BY <3>2
        <5> HIDE DEF u
        <5>2. mul(y, mul(x, u)) = mul(mul(y, x), u) /\ mul(y, x) = mul(x, y) /\ mul(mul(x, y), u) = mul(x, mul(y, u))
            BY <5>1, MulAssoc, MulComm
        <5> QED BY <5>2 DEF u
      <4> QED BY <4>1, <4>2, <4>3 DEF b
    <3> HIDE DEF d
    <3>5. Add(Add(a, b), Add(c, d)) = Add(Add(a, c), Add(b, d))
        BY <2>2, <2>3, <3>2, AddCross
    <3> QED BY <2>4, <2>5, <3>3, <3>4, <3>5
  <2> QED BY <2>6, <2>7
<1> QED BY <1>2, <1>5, <1>6 DEF Multiple, Q, R

(* A product by 1 + x times the variable. *)
LEMMA MultipleFirst ==
    ASSUME NEW P \in Polys, Len(P) >= 1, NEW x \in Symbols
    PROVE  Multiple(poly_mul(P, <<x, 1>>), P, x)
<1>1. \A m \in Nat : Coefficient(P, m) \in Symbols /\ m + 1 \in Nat
    BY CoefficientFacts
<1>2. /\ Coefficient(poly_mul(P, <<x, 1>>), 0) = mul(1, Coefficient(P, 0))
      /\ \A j \in Nat : Coefficient(poly_mul(P, <<x, 1>>), j + 1)
                           = Add(mul(1, Coefficient(P, j + 1)), mul(x, Coefficient(P, j)))
    BY MulLinear, SymbolsFacts
<1>3. 0 \in Nat
    OBVIOUS
<1> QED BY <1>1, <1>2, <1>3, MulOne DEF Multiple

------------------------------------------------------------------------------
(* Positions of errors, each by its exponent. *)
Positions(c) ==
    /\ c \in Seq(Nat)
    /\ \A a \in 1 .. Len(c) : c[a] \in 0 .. enc_len - 1
    /\ \A a, b \in 1 .. Len(c) : c[a] = c[b] => a = b

(* What a position stands for. *)
LEMMA PositionsFacts ==
    ASSUME NEW c, Positions(c), NEW a \in 1 .. Len(c)
    PROVE  /\ Len(c) \in Nat /\ c[a] \in Nat /\ c[a] \in 0 .. enc_len - 1
           /\ Locate(c[a]) = pow(2, c[a])
           /\ pow(2, c[a]) \in NonZero /\ pow(2, c[a]) \in Symbols /\ pow(2, c[a]) = Points[c[a]]
           /\ \A b \in 1 .. Len(c) : pow(2, c[a]) = pow(2, c[b]) => a = b
<1>1. Len(c) \in Nat /\ c[a] \in 0 .. enc_len - 1
    BY DEF Positions
<1>2. c[a] \in Nat /\ c[a] \in 0 .. Order - 1
    BY <1>1, CodeFacts
<1>3. Locate(c[a]) = pow(2, c[a])
    BY <1>2, PowLessOrder DEF Locate
<1>4. \A b \in 1 .. Len(c) : pow(2, c[a]) = pow(2, c[b]) => a = b
    BY PowFacts DEF Positions
<1> QED BY <1>1, <1>2, <1>3, <1>4, PowFacts, PointsFacts

(* The loops of FindErrataLocator() and of Forney's denominator after k
   rounds, and the locator of all the errors but the i-th. *)
PartLocator(c, k) ==
    Loop([j \in 1 .. Len(c) |-> [loc \in Polys |-> poly_mul(loc, <<pow(2, c[j]), 1>>)]], <<1>>, k)
Omitted(c, i, k) ==
    Loop([j \in 1 .. Len(c) |-> [loc \in Polys |->
             IF j = i THEN loc ELSE poly_mul(loc, <<pow(2, c[j]), 1>>)]], <<1>>, k)

(* FindErrataLocator(), round by round. *)
LEMMA PartLocatorFacts ==
    ASSUME NEW c, Positions(c)
    PROVE  /\ FindErrataLocator(c) = PartLocator(c, Len(c))
           /\ PartLocator(c, 0) = <<1>>
           /\ \A k \in 0 .. Len(c) - 1 :
                 PartLocator(c, k + 1) = poly_mul(PartLocator(c, k), <<pow(2, c[k + 1]), 1>>)
           /\ \A k \in 0 .. Len(c) : PartLocator(c, k) \in Polys /\ Len(PartLocator(c, k)) = k + 1
<1> DEFINE n == Len(c)
           f == [j \in 1 .. n |-> [loc \in Polys |-> poly_mul(loc, <<pow(2, c[j]), 1>>)]]
           T == [k \in Nat |-> {r \in Polys : Len(r) = k + 1}]
<1>1. n \in Nat
    BY DEF Positions
<1>2. \A j \in 1 .. n : pow(2, c[j]) \in Symbols
    BY PositionsFacts
<1>3. 1 \in Symbols /\ <<1>> \in Polys /\ Len(<<1>>) = 1
    BY SymbolsFacts DEF Polys
<1>4. ASSUME NEW k \in 0 .. n - 1, NEW r \in Polys, Len(r) = k + 1
      PROVE  f[k + 1][r] = poly_mul(r, <<pow(2, c[k + 1]), 1>>) /\ f[k + 1][r] \in T[k + 1]
  <2>1. k \in Nat /\ k + 1 \in Nat /\ k + 1 \in 1 .. n /\ Len(r) >= 1
      BY <1>1, <1>4
  <2>2. f[k + 1][r] = poly_mul(r, <<pow(2, c[k + 1]), 1>>)
      BY <2>1
  <2> DEFINE v == poly_mul(r, <<pow(2, c[k + 1]), 1>>)
  <2>3. v \in Polys /\ Len(v) = Len(r) + 1
      BY <1>2, <1>3, <2>1, MulLinear
  <2> HIDE DEF v, f
  <2>4. v \in T[k + 1]
      BY <1>4, <2>1, <2>3
  <2> QED BY <2>2, <2>4 DEF v
<1>5. FindErrataLocator(c) = Loop(f, <<1>>, n) /\ \A k : PartLocator(c, k) = Loop(f, <<1>>, k)
    BY Zenon DEF FindErrataLocator, PartLocator
<1> HIDE DEF f
<1>6. \A k \in 0 .. n : Loop(f, <<1>>, k) \in T[k]
  <2>1. <<1>> \in T[0]
      BY <1>3
  <2>2. \A k \in 0 .. n - 1 : \A r \in T[k] : f[k + 1][r] \in T[k + 1]
    <3> SUFFICES ASSUME NEW k \in 0 .. n - 1, NEW r \in T[k] PROVE f[k + 1][r] \in T[k + 1]
        OBVIOUS
    <3>1. r \in Polys /\ Len(r) = k + 1
        BY <1>1
    <3> HIDE DEF T
    <3> QED BY <1>4, <3>1
  <2> HIDE DEF T, n
  <2> QED BY <1>1, <2>1, <2>2, LoopInvariant
<1>7. \A k \in 0 .. n : PartLocator(c, k) \in Polys /\ Len(PartLocator(c, k)) = k + 1
  <2>1. \A k \in 0 .. n : k \in Nat
      BY <1>1
  <2> QED BY <1>5, <1>6, <2>1
<1>8. \A k \in 0 .. n - 1 : PartLocator(c, k + 1) = poly_mul(PartLocator(c, k), <<pow(2, c[k + 1]), 1>>)
  <2> SUFFICES ASSUME NEW k \in 0 .. n - 1
               PROVE  PartLocator(c, k + 1) = poly_mul(PartLocator(c, k), <<pow(2, c[k + 1]), 1>>)
      OBVIOUS
  <2>1. k \in Nat /\ k \in 0 .. n
      BY <1>1
  <2>2. PartLocator(c, k) \in Polys /\ Len(PartLocator(c, k)) = k + 1
      BY <1>7, <2>1
  <2>3. PartLocator(c, k + 1) = f[k + 1][PartLocator(c, k)]
    <3>1. PartLocator(c, k + 1) = Loop(f, <<1>>, k + 1) /\ PartLocator(c, k) = Loop(f, <<1>>, k)
        BY <1>5, Zenon
    <3>2. \A m \in Nat : Loop(f, <<1>>, m + 1) = f[m + 1][Loop(f, <<1>>, m)]
        BY LoopDef, Zenon
    <3>3. Loop(f, <<1>>, k + 1) = f[k + 1][Loop(f, <<1>>, k)]
        BY <2>1, <3>2
    <3> QED BY <3>1, <3>3, Zenon
  <2> QED BY <1>4, <2>2, <2>3
<1>9. PartLocator(c, 0) = <<1>>
    BY <1>5, LoopDef
<1> QED BY <1>5, <1>7, <1>8, <1>9 DEF n

(* The same with one error left out. *)
LEMMA OmittedFacts ==
    ASSUME NEW c, Positions(c), NEW i \in 1 .. Len(c)
    PROVE  /\ Omitted(c, i, 0) = <<1>>
           /\ \A k \in 0 .. Len(c) - 1 :
                 Omitted(c, i, k + 1) = IF k + 1 = i THEN Omitted(c, i, k)
                                        ELSE poly_mul(Omitted(c, i, k), <<pow(2, c[k + 1]), 1>>)
           /\ \A k \in 0 .. Len(c) : /\ Omitted(c, i, k) \in Polys
                                     /\ Len(Omitted(c, i, k)) = IF k < i THEN k + 1 ELSE k
<1> DEFINE n == Len(c)
           l(k) == IF k < i THEN k + 1 ELSE k
           f == [j \in 1 .. n |-> [loc \in Polys |->
                    IF j = i THEN loc ELSE poly_mul(loc, <<pow(2, c[j]), 1>>)]]
           T == [k \in Nat |-> {r \in Polys : Len(r) = l(k)}]
           g(k, r) == IF k + 1 = i THEN r ELSE poly_mul(r, <<pow(2, c[k + 1]), 1>>)
<1>1. n \in Nat /\ i \in Nat /\ i >= 1 /\ i <= n
    BY DEF Positions
<1>2. \A j \in 1 .. n : pow(2, c[j]) \in Symbols
    BY PositionsFacts
<1>3. 1 \in Symbols /\ <<1>> \in Polys /\ Len(<<1>>) = 1
    BY SymbolsFacts DEF Polys
<1>4. ASSUME NEW k \in 0 .. n - 1, NEW r \in Polys, Len(r) = l(k)
      PROVE  f[k + 1][r] = g(k, r) /\ g(k, r) \in T[k + 1]
  <2>1. k \in Nat /\ k + 1 \in Nat /\ k + 1 \in 1 .. n /\ Len(r) >= 1
      BY <1>1, <1>4
  <2>2. f[k + 1][r] = g(k, r)
      BY <2>1
  <2>3. CASE k + 1 = i
    <3>1. Len(r) = l(k + 1)
        BY <1>1, <1>4, <2>1, <2>3
    <3> QED BY <2>1, <2>2, <2>3, <3>1
  <2>4. CASE k + 1 # i
    <3> DEFINE v == poly_mul(r, <<pow(2, c[k + 1]), 1>>)
    <3>1. v \in Polys /\ Len(v) = Len(r) + 1
        BY <1>2, <1>3, <2>1, MulLinear
    <3>2. g(k, r) = v
        BY <2>4
    <3> HIDE DEF v, f, g
    <3>3. Len(v) = l(k + 1)
        BY <1>1, <1>4, <2>1, <2>4, <3>1
    <3> QED BY <2>1, <2>2, <3>1, <3>2, <3>3
  <2> QED BY <2>3, <2>4
<1>5. \A k : Omitted(c, i, k) = Loop(f, <<1>>, k)
    BY Zenon DEF Omitted
<1> HIDE DEF f, g
<1>6. \A k \in 0 .. n : Loop(f, <<1>>, k) \in T[k]
  <2>1. <<1>> \in T[0]
      BY <1>1, <1>3
  <2>2. \A k \in 0 .. n - 1 : \A r \in T[k] : f[k + 1][r] \in T[k + 1]
    <3> SUFFICES ASSUME NEW k \in 0 .. n - 1, NEW r \in T[k] PROVE f[k + 1][r] \in T[k + 1]
        OBVIOUS
    <3>0. k \in Nat
        BY <1>1
    <3>1. r \in Polys /\ Len(r) = l(k)
        BY <3>0
    <3> HIDE DEF T, l
    <3> QED BY <1>4, <3>1
  <2> HIDE DEF T, n
  <2> QED BY <1>1, <2>1, <2>2, LoopInvariant
<1>7. \A k \in 0 .. n : Omitted(c, i, k) \in Polys /\ Len(Omitted(c, i, k)) = l(k)
  <2> SUFFICES ASSUME NEW k \in 0 .. n PROVE Omitted(c, i, k) \in Polys /\ Len(Omitted(c, i, k)) = l(k)
      OBVIOUS
  <2>1. k \in Nat
      BY <1>1
  <2>2. Omitted(c, i, k) \in T[k]
      BY <1>5, <1>6
  <2> HIDE DEF l
  <2> QED BY <2>1, <2>2
<1>8. \A k \in 0 .. n - 1 : Omitted(c, i, k + 1) = g(k, Omitted(c, i, k))
  <2> SUFFICES ASSUME NEW k \in 0 .. n - 1 PROVE Omitted(c, i, k + 1) = g(k, Omitted(c, i, k))
      OBVIOUS
  <2>1. k \in Nat /\ k \in 0 .. n
      BY <1>1
  <2>2. Omitted(c, i, k) \in Polys /\ Len(Omitted(c, i, k)) = l(k)
      BY <1>7, <2>1
  <2>3. Omitted(c, i, k + 1) = f[k + 1][Omitted(c, i, k)]
    <3>1. Omitted(c, i, k + 1) = Loop(f, <<1>>, k + 1) /\ Omitted(c, i, k) = Loop(f, <<1>>, k)
        BY <1>5, Zenon
    <3>2. \A m \in Nat : Loop(f, <<1>>, m + 1) = f[m + 1][Loop(f, <<1>>, m)]
        BY LoopDef, Zenon
    <3>3. Loop(f, <<1>>, k + 1) = f[k + 1][Loop(f, <<1>>, k)]
        BY <2>1, <3>2
    <3> QED BY <3>1, <3>3, Zenon
  <2> QED BY <1>4, <2>2, <2>3
<1>9. Omitted(c, i, 0) = <<1>>
    BY <1>5, LoopDef
<1> QED BY <1>7, <1>8, <1>9 DEF n, g

(* All the errors, and all but one. *)
LEMMA OmittedMultiple ==
    ASSUME NEW c, Positions(c), NEW i \in 1 .. Len(c)
    PROVE  Multiple(FindErrataLocator(c), Omitted(c, i, Len(c)), pow(2, c[i]))
<1> DEFINE n == Len(c)
           x(k) == pow(2, c[k])
           P(k) == PartLocator(c, k)
           O(k) == Omitted(c, i, k)
           S == {k \in Nat : k <= n => IF k < i THEN O(k) = P(k) ELSE Multiple(P(k), O(k), x(i))}
<1>1. n \in Nat /\ i \in Nat /\ i >= 1 /\ i <= n
    BY DEF Positions
<1>2. \A j \in 1 .. n : x(j) \in Symbols
    BY PositionsFacts
<1>3. /\ \A k \in 0 .. n - 1 : P(k + 1) = poly_mul(P(k), <<x(k + 1), 1>>)
      /\ \A k \in 0 .. n : P(k) \in Polys /\ Len(P(k)) = k + 1
      /\ P(0) = <<1>> /\ FindErrataLocator(c) = P(n)
    BY PartLocatorFacts
<1>4. /\ \A k \in 0 .. n - 1 : O(k + 1) = IF k + 1 = i THEN O(k) ELSE poly_mul(O(k), <<x(k + 1), 1>>)
      /\ \A k \in 0 .. n : O(k) \in Polys /\ Len(O(k)) = IF k < i THEN k + 1 ELSE k
      /\ O(0) = <<1>>
    BY OmittedFacts
<1> HIDE DEF P, O, x, n
<1>5. 0 \in S
    BY <1>1, <1>3, <1>4
<1>6. ASSUME NEW k \in Nat, k \in S PROVE k + 1 \in S
  <2> SUFFICES ASSUME k + 1 <= n
               PROVE  IF k + 1 < i THEN O(k + 1) = P(k + 1) ELSE Multiple(P(k + 1), O(k + 1), x(i))
      OBVIOUS
  <2>1. k \in 0 .. n - 1 /\ k \in 0 .. n /\ k + 1 \in 1 .. n
      BY <1>1
  <2>2. IF k < i THEN O(k) = P(k) ELSE Multiple(P(k), O(k), x(i))
      BY <1>1, <1>6, <2>1
  <2>3. P(k) \in Polys /\ Len(P(k)) >= 1 /\ P(k + 1) = poly_mul(P(k), <<x(k + 1), 1>>)
      BY <1>3, <2>1
  <2>4. /\ O(k) \in Polys /\ Len(O(k)) = IF k < i THEN k + 1 ELSE k
        /\ O(k + 1) = IF k + 1 = i THEN O(k) ELSE poly_mul(O(k), <<x(k + 1), 1>>)
      BY <1>4, <2>1
  <2>5. CASE k + 1 < i
    <3>1. k < i /\ k + 1 # i
        BY <1>1, <2>5
    <3> QED BY <2>2, <2>3, <2>4, <2>5, <3>1
  <2>6. CASE k + 1 = i
    <3>1. k < i /\ ~(k + 1 < i)
        BY <1>1, <2>6
    <3>2. O(k + 1) = P(k)
        BY <2>2, <2>4, <2>6, <3>1
    <3>3. Multiple(P(k + 1), P(k), x(i))
        BY <1>2, <2>1, <2>3, <2>6, MultipleFirst
    <3> QED BY <3>1, <3>2, <3>3
  <2>7. CASE k + 1 > i
    <3>1. ~(k < i) /\ k + 1 # i /\ ~(k + 1 < i) /\ k >= 1
        BY <1>1, <2>7
    <3>2. O(k + 1) = poly_mul(O(k), <<x(k + 1), 1>>) /\ Len(O(k)) >= 1
        BY <2>4, <3>1
    <3>3. Multiple(P(k), O(k), x(i))
        BY <2>2, <3>1
    <3>4. x(k + 1) \in Symbols /\ x(i) \in Symbols
        BY <1>1, <1>2, <2>1
    <3>5. Multiple(poly_mul(P(k), <<x(k + 1), 1>>), poly_mul(O(k), <<x(k + 1), 1>>), x(i))
        BY <2>3, <2>4, <3>2, <3>3, <3>4, MultipleStep
    <3> QED BY <2>3, <3>1, <3>2, <3>5
  <2> QED BY <1>1, <2>5, <2>6, <2>7
<1> HIDE DEF S
<1>7. Nat \subseteq S
    BY <1>5, <1>6, Induction
<1>8. n \in S /\ ~(n < i)
    BY <1>1, <1>7
<1> QED BY <1>1, <1>3, <1>8 DEF S, P, O, x, n

(* At the inverse of an error's point the other errors' locators vanish, and
   its own has the value that Prime() computes. *)
LEMMA PrimeFacts ==
    ASSUME NEW c, Positions(c), NEW i \in 1 .. Len(c), NEW a \in 1 .. Len(c),
           NEW z \in Symbols, mul(z, pow(2, c[a])) = 1
    PROVE  /\ Prime(c, i, z) \in Symbols
           /\ poly_eval(Omitted(c, i, Len(c)), z) = Prime(c, i, z)
           /\ i = a => Prime(c, i, z) # 0
           /\ i # a => Prime(c, i, z) = 0
<1> DEFINE n == Len(c)
           x(k) == pow(2, c[k])
           O(k) == Omitted(c, i, k)
           f == [j \in 1 .. n |-> [y \in Symbols |->
                    IF j = i THEN y ELSE mul(y, Add(1, mul(z, Locate(c[j]))))]]
           Q(k) == Loop(f, 1, k)
           S == {k \in Nat : k <= n => /\ Q(k) \in Symbols /\ poly_eval(O(k), z) = Q(k)
                                       /\ i = a => Q(k) # 0
                                       /\ i # a /\ k >= a => Q(k) = 0}
<1>1. n \in Nat /\ i \in Nat /\ i >= 1 /\ i <= n /\ a \in Nat /\ a >= 1 /\ a <= n
    BY DEF Positions
<1>2. \A j \in 1 .. n : x(j) \in Symbols /\ x(j) \in NonZero /\ Locate(c[j]) = x(j)
    BY PositionsFacts
<1>3. \A j \in 1 .. n : x(a) = x(j) => a = j
    BY PositionsFacts
<1>4. /\ \A k \in 0 .. n - 1 : O(k + 1) = IF k + 1 = i THEN O(k) ELSE poly_mul(O(k), <<x(k + 1), 1>>)
      /\ \A k \in 0 .. n : O(k) \in Polys /\ Len(O(k)) = IF k < i THEN k + 1 ELSE k
      /\ O(0) = <<1>>
    BY OmittedFacts
<1>5. Prime(c, i, z) = Q(n)
    BY Zenon DEF Prime
<1>6. Q(0) = 1 /\ \A k \in Nat : Q(k + 1) = f[k + 1][Q(k)]
    BY LoopDef, Zenon
<1>7. \A k \in 0 .. n - 1 : \A y \in Symbols :
          f[k + 1][y] = IF k + 1 = i THEN y ELSE mul(y, Add(1, mul(z, x(k + 1))))
  <2> SUFFICES ASSUME NEW k \in 0 .. n - 1, NEW y \in Symbols
               PROVE  f[k + 1][y] = IF k + 1 = i THEN y ELSE mul(y, Add(1, mul(z, x(k + 1))))
      OBVIOUS
  <2>1. k + 1 \in 1 .. n
      BY <1>1
  <2> QED BY <1>2, <2>1
<1>8. mul(z, x(a)) = 1
    OBVIOUS
<1> HIDE DEF f, Q, O, x, n
<1>9. 0 \in S
  <2>1. poly_eval(<<1>>, z) = 1
    <3>1. <<1>> \in Polys /\ Len(<<1>>) = 1 /\ <<1>>[1] = 1
        BY SymbolsFacts DEF Polys
    <3> DEFINE p == <<1>>
    <3>2. p \in Polys /\ Len(p) >= 1 /\ Len(p) - 1 = 0 /\ p[1] = 1
        BY <3>1
    <3> HIDE DEF p
    <3>3. poly_eval(p, z) = 1
        BY <3>2, HornerDef
    <3> QED BY <3>3 DEF p
  <2>2. ~(0 >= a) /\ 1 # 0
      BY <1>1
  <2> QED BY <1>4, <1>6, <2>1, <2>2, SymbolsFacts
<1>10. ASSUME NEW k \in Nat, k \in S PROVE k + 1 \in S
  <2> SUFFICES ASSUME k + 1 <= n
               PROVE  /\ Q(k + 1) \in Symbols /\ poly_eval(O(k + 1), z) = Q(k + 1)
                      /\ i = a => Q(k + 1) # 0
                      /\ i # a /\ k + 1 >= a => Q(k + 1) = 0
      OBVIOUS
  <2>1. k \in 0 .. n - 1 /\ k \in 0 .. n /\ k + 1 \in 1 .. n
      BY <1>1
  <2>2. /\ Q(k) \in Symbols /\ poly_eval(O(k), z) = Q(k)
        /\ i = a => Q(k) # 0
        /\ i # a /\ k >= a => Q(k) = 0
      BY <1>1, <1>10, <2>1
  <2>3. O(k) \in Polys /\ O(k + 1) = IF k + 1 = i THEN O(k) ELSE poly_mul(O(k), <<x(k + 1), 1>>)
      BY <1>4, <2>1
  <2>4. Q(k + 1) = IF k + 1 = i THEN Q(k) ELSE mul(Q(k), Add(1, mul(z, x(k + 1))))
      BY <1>6, <1>7, <2>1, <2>2
  <2>5. CASE k + 1 = i
    <3>1. i # a /\ k + 1 >= a => k >= a
        BY <1>1, <2>5
    <3> QED BY <2>2, <2>3, <2>4, <2>5, <3>1
  <2>6. CASE k + 1 # i
    <3> DEFINE y == x(k + 1)
               w == Add(1, mul(z, y))
    <3>1. y \in Symbols /\ 1 \in Symbols
        BY <1>2, <2>1, SymbolsFacts
    <3>2. mul(z, y) \in Symbols /\ w \in Symbols
      <4>1. mul(z, y) \in Symbols
          BY <3>1, MulType
      <4> QED BY <3>1, <4>1, AddLaws
    <3>3. Len(O(k)) >= 1
        BY <1>1, <1>4, <2>1, <2>6
    <3>4. poly_eval(poly_mul(O(k), <<y, 1>>), z) = mul(poly_eval(O(k), z), Add(mul(y, z), 1))
        BY <2>3, <3>1, <3>3, EvalLinear
    <3>5. Add(mul(y, z), 1) = w
        BY <3>1, <3>2, MulComm, AddLaws
    <3>6. Q(k + 1) = mul(Q(k), w)
        BY <2>4, <2>6
    <3>7. O(k + 1) = poly_mul(O(k), <<y, 1>>)
        BY <2>3, <2>6
    <3>8. i = a => w # 0
      <4> SUFFICES ASSUME i = a, w = 0 PROVE FALSE
          OBVIOUS
      <4>0. Add(1, mul(z, y)) = 0
          OBVIOUS
      <4>1. mul(z, y) = 1
          BY <3>1, <3>2, <4>0, AddCancel
      <4>2. x(a) \in Symbols
          BY <1>1, <1>2
      <4> DEFINE v == x(a)
      <4>3. v \in Symbols /\ mul(z, v) = 1
          BY <1>8, <4>2
      <4> HIDE DEF v, y
      <4>4. mul(mul(v, z), y) = mul(v, mul(z, y)) /\ mul(v, z) = mul(z, v)
          BY <3>1, <4>3, MulAssoc, MulComm
      <4>5. y = v
          BY <3>1, <4>1, <4>3, <4>4, MulOne
      <4>6. a = k + 1
          BY <1>3, <2>1, <4>5 DEF v, y
      <4> QED BY <2>6, <4>6
    <3>9. k + 1 = a => w = 0
      <4>1. k + 1 = a => w = Add(1, 1)
          BY <1>8
      <4> QED BY <4>1, AddLaws, SymbolsFacts
    <3> HIDE DEF w, y
    <3>10. Q(k + 1) \in Symbols
        BY <2>2, <3>2, <3>6, MulType
    <3>11. poly_eval(O(k + 1), z) = Q(k + 1)
        BY <2>2, <3>4, <3>5, <3>6, <3>7
    <3>12. i = a => Q(k + 1) # 0
        BY <2>2, <3>2, <3>6, <3>8, MulNonZero
    <3>13. i # a /\ k + 1 >= a => Q(k + 1) = 0
      <4>1. k + 1 >= a => k + 1 = a \/ k >= a
          BY <1>1
      <4> QED BY <2>2, <3>6, <3>9, <4>1, MulZero
    <3> QED BY <3>10, <3>11, <3>12, <3>13
  <2> QED BY <2>5, <2>6
<1> HIDE DEF S
<1>11. Nat \subseteq S
    BY <1>9, <1>10, Induction
<1>12. n \in S /\ n >= a /\ n <= n
    BY <1>1, <1>11
<1>13. /\ Q(n) \in Symbols /\ poly_eval(O(n), z) = Q(n)
       /\ i = a => Q(n) # 0
       /\ i # a => Q(n) = 0
    BY <1>12 DEF S
<1> QED BY <1>5, <1>13 DEF O, n

------------------------------------------------------------------------------
(* The power sums of errors Y, and what a factor f makes of each error. *)
Moments(Y) == [j \in Nat |-> Total(Moment(Y, Points, j), enc_len)]
Parts(Y, f, m) == [q \in Nat |-> mul(Y[q], Conv(f, Powers(Points[q]), m))]

(* The parts are symbols. *)
LEMMA PartsFacts ==
    ASSUME NEW Y \in Families, NEW f \in Families, NEW m \in Nat
    PROVE  /\ Parts(Y, f, m) \in Families
           /\ \A q \in Nat : /\ Parts(Y, f, m)[q] = mul(Y[q], Conv(f, Powers(Points[q]), m))
                             /\ Conv(f, Powers(Points[q]), m) \in Symbols
<1>1. ASSUME NEW q \in Nat PROVE Conv(f, Powers(Points[q]), m) \in Symbols /\ Y[q] \in Symbols
  <2>1. Points[q] \in Symbols /\ Y[q] \in Symbols
      BY PointsFacts DEF Families
  <2>2. Powers(Points[q]) \in Families
      BY <2>1, PowersFacts
  <2> QED BY <2>1, <2>2, ConvFacts
<1>2. \A q \in Nat : mul(Y[q], Conv(f, Powers(Points[q]), m)) \in Symbols
    BY <1>1, MulType
<1> QED BY <1>1, <1>2 DEF Parts, Families

(* The power sums are symbols. *)
LEMMA MomentsFacts ==
    ASSUME NEW Y \in Families
    PROVE  Moments(Y) \in Families
           /\ \A j \in Nat : Moments(Y)[j] = Total(Moment(Y, Points, j), enc_len)
<1>1. \A j \in Nat : Total(Moment(Y, Points, j), enc_len) \in Symbols
    BY MomentFacts, PointsFacts, SumDef, CodeFacts
<1> QED BY <1>1 DEF Moments, Families

(* A product with the power sums is made of the errors' parts. *)
LEMMA ConvOfMoments ==
    ASSUME NEW Y \in Families, NEW f \in Families, NEW m \in Nat
    PROVE  Conv(f, Moments(Y), m) = Total(Parts(Y, f, m), enc_len)
<1> DEFINE N == enc_len
           t == Moments(Y)
           F == Crossed(f, t, m)
           G == Parts(Y, f, m)
           a(j, q) == IF j <= m THEN mul(f[j], mul(Y[q], Power(Points[q], m - j))) ELSE 0
<1>1. N \in Nat /\ m + 1 \in Nat
    BY CodeFacts
<1>2. t \in Families /\ \A j \in Nat : t[j] = Total(Moment(Y, Points, j), N)
    BY MomentsFacts
<1>3. /\ G \in Families
      /\ \A q \in Nat : /\ G[q] = mul(Y[q], Conv(f, Powers(Points[q]), m))
                        /\ Conv(f, Powers(Points[q]), m) \in Symbols
    BY PartsFacts
<1>4. \A q \in Nat : Points[q] \in Symbols /\ Y[q] \in Symbols /\ f[q] \in Symbols
    BY PointsFacts DEF Families
<1> HIDE DEF t, N, G
<1>5. F \in Families /\ \A j \in Nat : F[j] = IF j <= m THEN mul(f[j], t[m - j]) ELSE 0
    BY <1>2, ConvFacts
<1> HIDE DEF F
<1>6. \A j, q \in Nat : a(j, q) \in Symbols
  <2> SUFFICES ASSUME NEW j \in Nat, NEW q \in Nat, j <= m
               PROVE  mul(f[j], mul(Y[q], Power(Points[q], m - j))) \in Symbols
      BY SymbolsFacts
  <2>1. m - j \in Nat
      OBVIOUS
  <2>2. Power(Points[q], m - j) \in Symbols
      BY <1>4, <2>1, PowerDef
  <2> QED BY <1>4, <2>2, MulType
<1>7. PICK A \in Grids : \A j, q \in Nat : A[j][q] = a(j, q)
  <2>1. [j \in Nat |-> [q \in Nat |-> a(j, q)]] \in Grids
      BY <1>6 DEF Families, Grids
  <2> HIDE DEF a
  <2> QED BY <2>1
<1>8. PICK B \in Grids : \A j, q \in Nat : B[q][j] = a(j, q)
  <2>1. [q \in Nat |-> [j \in Nat |-> a(j, q)]] \in Grids
      BY <1>6 DEF Families, Grids
  <2> HIDE DEF a
  <2> QED BY <2>1
<1>9. \A j, q \in Nat : B[q][j] = A[j][q]
    BY <1>7, <1>8
<1>10. /\ \A j, q \in Nat : j <= m => A[j][q] = mul(f[j], mul(Y[q], Power(Points[q], m - j)))
       /\ \A j \in Nat : A[j] \in Families /\ B[j] \in Families
  <2>1. \A j \in Nat : A[j] \in Families /\ B[j] \in Families
      BY <1>7, <1>8 DEF Grids
  <2> QED BY <1>7, <2>1
<1> HIDE DEF a
<1>11. ASSUME NEW j \in 0 .. (m + 1) - 1 PROVE F[j] = Total(A[j], N)
  <2> DEFINE M == Moment(Y, Points, m - j)
  <2>1. j \in Nat /\ j <= m /\ m - j \in Nat
      BY <1>1
  <2>2. M \in Families /\ \A q \in Nat : M[q] = mul(Y[q], Power(Points[q], m - j))
      BY <2>1, MomentFacts, PointsFacts
  <2>3. t[m - j] = Total(M, N)
      BY <1>2, <2>1
  <2> HIDE DEF M
  <2>4. \A q \in 0 .. N - 1 : A[j][q] = mul(f[j], M[q])
    <3>1. \A q \in 0 .. N - 1 : q \in Nat
        BY <1>1
    <3> QED BY <1>10, <2>1, <2>2, <3>1
  <2>5. Total(A[j], N) = mul(f[j], Total(M, N))
    <3>1. A[j] \in Families /\ f[j] \in Symbols
        BY <1>4, <1>10, <2>1
    <3> QED BY <1>1, <2>2, <2>4, <3>1, SumScale
  <2> QED BY <1>5, <2>1, <2>3, <2>5
<1>12. ASSUME NEW q \in 0 .. N - 1 PROVE G[q] = Total(B[q], m + 1)
  <2> DEFINE x == Points[q]
             y == Y[q]
             P == Powers(x)
             X == Crossed(f, P, m)
  <2>1. q \in Nat /\ x \in Symbols /\ y \in Symbols
    <3>1. q \in Nat
        BY <1>1
    <3> QED BY <1>4, <3>1
  <2>2. P \in Families /\ \A j \in Nat : P[j] = Power(x, j)
      BY <2>1, PowersFacts
  <2> HIDE DEF P
  <2>3. X \in Families /\ \A j \in Nat : X[j] = IF j <= m THEN mul(f[j], P[m - j]) ELSE 0
      BY <2>2, ConvFacts
  <2> HIDE DEF X
  <2>4. ASSUME NEW j \in 0 .. (m + 1) - 1 PROVE B[q][j] = mul(y, X[j])
    <3> DEFINE u == f[j]
               p == Power(x, m - j)
    <3>1. j \in Nat /\ j <= m /\ m - j \in Nat
        BY <1>1
    <3>2. u \in Symbols /\ p \in Symbols
      <4>1. u \in Symbols
          BY <1>4, <3>1
      <4>2. p \in Symbols
          BY <2>1, <3>1, PowerDef
      <4> QED BY <4>1, <4>2
    <3>3. X[j] = mul(u, p)
        BY <2>2, <2>3, <3>1
    <3>4. B[q][j] = mul(u, mul(y, p))
        BY <1>9, <1>10, <2>1, <3>1
    <3> HIDE DEF u, p, x, y
    <3>5. mul(u, mul(y, p)) = mul(mul(u, y), p) /\ mul(u, y) = mul(y, u) /\ mul(mul(y, u), p) = mul(y, mul(u, p))
        BY <2>1, <3>2, MulAssoc, MulComm
    <3> QED BY <3>3, <3>4, <3>5
  <2>5. B[q] \in Families
      BY <1>10, <2>1
  <2> HIDE DEF y
  <2>6. Total(B[q], m + 1) = mul(y, Total(X, m + 1))
      BY <1>1, <2>1, <2>3, <2>4, <2>5, SumScale, ZenonT(40)
  <2>7. G[q] = mul(y, Conv(f, P, m))
      BY <1>3, <2>1 DEF y, P
  <2> QED BY <2>6, <2>7 DEF Conv, X
<1>13. Total(F, m + 1) = Total(G, N)
  <2>1. RowSums(F, A, m + 1, N) /\ RowSums(G, B, N, m + 1) /\ Transposed(A, B)
      BY <1>9, <1>11, <1>12 DEF RowSums, Transposed
  <2>2. A \in Grids /\ B \in Grids /\ F \in Families /\ G \in Families /\ m + 1 \in Nat /\ N \in Nat
      BY <1>1, <1>3, <1>5, <1>7, <1>8
  <2> QED BY <2>1, <2>2, SumExchange
<1> QED BY <1>13 DEF Conv, F, G, N, t

(* A second factor that begins one later makes a product that does. *)
LEMMA ConvDelay ==
    ASSUME NEW f \in Families, NEW r \in Families, NEW t \in Families, NEW m \in Nat,
           r[0] = 0, \A j \in 0 .. m : r[j + 1] = t[j]
    PROVE  Conv(f, r, 0) = 0 /\ Conv(f, r, m + 1) = Conv(f, t, m)
<1>1. Conv(f, r, 0) = 0
  <2> DEFINE c == Crossed(f, r, 0)
  <2>1. 0 \in Nat /\ 0 <= 0 /\ 0 - 0 = 0 /\ 0 + 1 = 1
      OBVIOUS
  <2>2. c \in Families /\ c[0] = mul(f[0], r[0])
      BY <2>1, ConvFacts
  <2> HIDE DEF c
  <2>3. Total(c, 1) = c[0]
      BY <2>2, SumOne
  <2>4. Total(c, 0 + 1) = 0
      BY <2>1, <2>2, <2>3, MulZero
  <2> QED BY <2>4 DEF Conv, c
<1>2. Conv(f, r, m + 1) = Conv(f, t, m)
  <2> DEFINE c == Crossed(f, r, m + 1)
             d == Crossed(f, t, m)
  <2>1. m + 1 \in Nat /\ (m + 1) - (m + 1) = 0 /\ m + 1 <= m + 1 /\ (m + 1) - 1 = m
      OBVIOUS
  <2>2. c \in Families /\ \A j \in Nat : c[j] = IF j <= m + 1 THEN mul(f[j], r[(m + 1) - j]) ELSE 0
      BY <2>1, ConvFacts
  <2>3. d \in Families /\ \A j \in Nat : d[j] = IF j <= m THEN mul(f[j], t[m - j]) ELSE 0
      BY ConvFacts
  <2> HIDE DEF c, d
  <2>4. ASSUME NEW j \in 0 .. (m + 1) - 1 PROVE c[j] = d[j]
    <3>1. j \in Nat /\ j <= m /\ j <= m + 1 /\ m - j \in 0 .. m /\ (m + 1) - j = (m - j) + 1
        OBVIOUS
    <3>2. r[(m + 1) - j] = t[m - j]
        BY <3>1
    <3> QED BY <2>2, <2>3, <3>1, <3>2
  <2>5. c[m + 1] = 0
    <3>1. c[m + 1] = mul(f[m + 1], r[0])
        BY <2>1, <2>2
    <3> QED BY <3>1, MulZero
  <2>6. Total(c, m + 1) = Total(d, m + 1)
      BY <2>1, <2>2, <2>3, <2>4, SumEqual
  <2>7. Total(c, (m + 1) + 1) = Add(Total(c, m + 1), c[m + 1]) /\ Total(c, m + 1) \in Symbols
      BY <2>1, <2>2, SumDef
  <2>8. Total(c, (m + 1) + 1) = Total(d, m + 1)
      BY <2>5, <2>6, <2>7, AddLaws
  <2> QED BY <2>8 DEF Conv, c, d
<1> QED BY <1>1, <1>2

(* The syndromes with their leading zero, as CalcSyndromes() returns them. *)
PowerSums(synd, Y) ==
    /\ synd \in Polys /\ Len(synd) = ecc_length + 1 /\ synd[1] = 0
    /\ Y \in Families
    /\ \A i \in 1 .. ecc_length : synd[i + 1] = Moments(Y)[i - 1]

(* The evaluator is the product of syndromes and locator, cut off. *)
LEMMA EvaluatorFacts ==
    ASSUME NEW synd, NEW Y, PowerSums(synd, Y), NEW c, Positions(c), Len(c) <= ecc_length
    PROVE  /\ Evaluator(synd, c) \in Polys /\ Len(Evaluator(synd, c)) = Len(c) + 1
           /\ Len(c) >= 1 => Coefficient(Evaluator(synd, c), 0) = 0
           /\ \A m \in 0 .. Len(c) - 1 :
                 Coefficient(Evaluator(synd, c), m + 1)
                     = Total(Parts(Y, Coefs(FindErrataLocator(c)), m), enc_len)
<1> DEFINE n == Len(c)
           N == ecc_length
           L == FindErrataLocator(c)
           r == Reverse(synd)
           W == poly_mul(r, L)
           E == poly_div(W, <<1>> \o Zeros(n + 1))
<1>1. n \in Nat /\ N \in Nat /\ n <= N /\ 0 \in 0 .. n
    BY CodeFacts DEF Positions
<1>2. /\ synd \in Polys /\ Len(synd) = N + 1 /\ synd[1] = 0 /\ Y \in Families
      /\ \A i \in 1 .. N : synd[i + 1] = Moments(Y)[i - 1]
    BY DEF PowerSums
<1>3. L \in Polys /\ Len(L) = n + 1
  <2>1. n \in 0 .. n
      BY <1>1
  <2> QED BY <2>1, PartLocatorFacts
<1>4. /\ r \in Polys /\ Len(r) = N + 1
      /\ \A j \in 0 .. (N + 1) - 1 : Coefficient(r, j) = Coefficient(synd, (N + 1) - 1 - j)
    BY <1>2, ReverseFacts
<1> HIDE DEF L, r, N, n
<1>5. /\ W \in Polys /\ Len(W) = Len(r) + Len(L) - 1
      /\ \A m \in Nat : Coefficient(W, m) = Conv(Coefs(L), Coefs(r), m)
  <2>1. Len(r) >= 1 /\ Len(L) >= 1
      BY <1>1, <1>3, <1>4
  <2> QED BY <1>3, <1>4, <2>1, PolyMulFacts
<1> HIDE DEF W
<1>6. Evaluator(synd, c) = E
  <2>1. Evaluator(synd, c) = poly_div(W, <<1>> \o Zeros((Len(L) - 1) + 1))
      BY Zenon DEF Evaluator, FindErrorEvaluator, W, r, L
  <2>2. (Len(L) - 1) + 1 = n + 1
      BY <1>1, <1>3
  <2> QED BY <2>1, <2>2, Zenon
<1>7. /\ E \in Polys /\ Len(E) = n + 1
      /\ \A j \in 0 .. (n + 1) - 1 : Coefficient(E, j) = Coefficient(W, j)
  <2>1. n + 1 \in Nat /\ n + 1 <= Len(W)
      BY <1>1, <1>3, <1>4, <1>5
  <2> QED BY <1>5, <2>1, DivisionByPower
<1> HIDE DEF E
<1> DEFINE f == Coefs(L)
           g == Coefs(r)
           t == Moments(Y)
<1>8. f \in Families /\ t \in Families /\ g \in Families /\ \A j \in Nat : g[j] = Coefficient(r, j)
    BY <1>2, <1>3, <1>4, CoefsFacts, MomentsFacts
<1> HIDE DEF f, g, t
<1>9. ASSUME NEW j \in 0 .. N PROVE g[j] = synd[j + 1]
  <2>1. j \in Nat /\ j \in 0 .. (N + 1) - 1 /\ (N + 1) - 1 - j < N + 1 /\ (N + 1) - ((N + 1) - 1 - j) = j + 1
      BY <1>1
  <2>2. Coefficient(synd, (N + 1) - 1 - j) = synd[j + 1]
      BY <1>2, <2>1 DEF Coefficient
  <2> QED BY <1>4, <1>8, <2>1, <2>2
<1>10. g[0] = 0
  <2>1. 0 \in 0 .. N /\ 0 + 1 = 1
      BY <1>1
  <2> QED BY <1>2, <1>9, <2>1
<1>11. ASSUME NEW m \in 0 .. n - 1
       PROVE  Conv(f, g, 0) = 0 /\ Conv(f, g, m + 1) = Conv(f, t, m)
  <2>1. m \in Nat /\ m + 1 <= N
      BY <1>1
  <2>2. ASSUME NEW j \in 0 .. m PROVE g[j + 1] = t[j]
    <3>1. j + 1 \in 0 .. N /\ j + 1 \in 1 .. N /\ (j + 1) - 1 = j
        BY <1>1, <2>1
    <3>2. g[j + 1] = synd[(j + 1) + 1]
        BY <1>9, <3>1
    <3>3. synd[(j + 1) + 1] = t[(j + 1) - 1]
        BY <1>2, <3>1 DEF t
    <3> QED BY <3>1, <3>2, <3>3
  <2> QED BY <1>8, <1>10, <2>1, <2>2, ConvDelay
<1>12. ASSUME NEW m \in 0 .. n - 1
       PROVE  Coefficient(E, 0) = 0 /\ Coefficient(E, m + 1) = Total(Parts(Y, f, m), enc_len)
  <2>1. m \in Nat /\ m + 1 \in Nat /\ 0 \in Nat /\ m + 1 \in 0 .. (n + 1) - 1 /\ 0 \in 0 .. (n + 1) - 1
      BY <1>1
  <2>2. Coefficient(E, 0) = Conv(f, g, 0) /\ Coefficient(E, m + 1) = Conv(f, g, m + 1)
      BY <1>5, <1>7, <2>1 DEF f, g
  <2>3. Conv(f, t, m) = Total(Parts(Y, f, m), enc_len)
      BY <1>2, <1>8, <2>1, ConvOfMoments DEF t
  <2> QED BY <1>11, <2>2, <2>3
<1>13. n >= 1 => Coefficient(E, 0) = 0
  <2>1. n >= 1 => 0 \in 0 .. n - 1
      BY <1>1
  <2> QED BY <1>12, <2>1
<1> QED BY <1>6, <1>7, <1>12, <1>13 DEF n, f, L

------------------------------------------------------------------------------
(* What an error's part of the evaluator comes to at z. *)
PartTerms(f, q, z, n) ==
    [m \in Nat |-> IF m < n THEN mul(Conv(f, Powers(Points[q]), m), Power(z, m)) ELSE 0]
Values(Y, f, z, n) == [q \in Nat |-> mul(Y[q], Total(PartTerms(f, q, z, n), n))]

(* The values are symbols. *)
LEMMA ValuesFacts ==
    ASSUME NEW Y \in Families, NEW f \in Families, NEW z \in Symbols, NEW n \in Nat
    PROVE  /\ Values(Y, f, z, n) \in Families
           /\ \A q \in Nat :
                 /\ Values(Y, f, z, n)[q] = mul(Y[q], Total(PartTerms(f, q, z, n), n))
                 /\ PartTerms(f, q, z, n) \in Families
                 /\ \A m \in Nat : m < n =>
                       PartTerms(f, q, z, n)[m] = mul(Conv(f, Powers(Points[q]), m), Power(z, m))
<1>1. ASSUME NEW q \in Nat
      PROVE  /\ PartTerms(f, q, z, n) \in Families
             /\ \A m \in Nat : m < n =>
                   PartTerms(f, q, z, n)[m] = mul(Conv(f, Powers(Points[q]), m), Power(z, m))
  <2>1. ASSUME NEW m \in Nat PROVE mul(Conv(f, Powers(Points[q]), m), Power(z, m)) \in Symbols
    <3>1. Conv(f, Powers(Points[q]), m) \in Symbols
        BY PartsFacts
    <3>2. Power(z, m) \in Symbols
        BY PowerDef
    <3> QED BY <3>1, <3>2, MulType
  <2> QED BY <2>1, SymbolsFacts DEF PartTerms, Families
<1>2. \A q \in Nat : Total(PartTerms(f, q, z, n), n) \in Symbols /\ Y[q] \in Symbols
    BY <1>1, SumDef DEF Families
<1>3. \A q \in Nat : mul(Y[q], Total(PartTerms(f, q, z, n), n)) \in Symbols
    BY <1>2, MulType
<1> QED BY <1>1, <1>3 DEF Values, Families

(* What the evaluator comes to at z. *)
LEMMA EvaluatorValue ==
    ASSUME NEW synd, NEW Y, PowerSums(synd, Y), NEW c, Positions(c),
           Len(c) <= ecc_length, Len(c) >= 1, NEW z \in Symbols
    PROVE  poly_eval(Evaluator(synd, c), z)
               = mul(z, Total(Values(Y, Coefs(FindErrataLocator(c)), z, Len(c)), enc_len))
<1> DEFINE n == Len(c)
           N == enc_len
           E == Evaluator(synd, c)
           f == Coefs(FindErrataLocator(c))
           T == Terms(E, z)
           G == Values(Y, f, z, n)
           a(m, q) == IF m < n THEN mul(Power(z, m), mul(Y[q], Conv(f, Powers(Points[q]), m))) ELSE 0
           h(m) == IF m < n THEN mul(Coefficient(E, m + 1), Power(z, m)) ELSE 0
<1>1. n \in Nat /\ n >= 1 /\ N \in Nat /\ n + 1 \in Nat /\ Y \in Families
    BY CodeFacts DEF Positions, PowerSums
<1>2. f \in Families
  <2>1. n \in 0 .. n
      BY <1>1
  <2>2. FindErrataLocator(c) \in Polys
      BY <2>1, PartLocatorFacts
  <2> QED BY <2>2, CoefsFacts
<1>3. /\ E \in Polys /\ Len(E) = n + 1 /\ Coefficient(E, 0) = 0
      /\ \A m \in 0 .. n - 1 : Coefficient(E, m + 1) = Total(Parts(Y, f, m), N)
    BY EvaluatorFacts
<1> HIDE DEF E, f, N, n
<1>4. T \in Families /\ \A j \in Nat : T[j] = mul(Coefficient(E, j), Power(z, j))
    BY <1>3, TermsFacts
<1>5. poly_eval(E, z) = Total(T, n + 1)
  <2>1. Len(E) >= 1 /\ n + 1 >= Len(E)
      BY <1>1, <1>3
  <2> QED BY <1>1, <1>3, <2>1, EvalSum
<1>6. /\ G \in Families
      /\ \A q \in Nat : /\ G[q] = mul(Y[q], Total(PartTerms(f, q, z, n), n))
                        /\ PartTerms(f, q, z, n) \in Families
                        /\ \A m \in Nat : m < n =>
                              PartTerms(f, q, z, n)[m] = mul(Conv(f, Powers(Points[q]), m), Power(z, m))
  <2>1. G \in Families
      BY <1>1, <1>2, ValuesFacts
  <2>2. ASSUME NEW q \in Nat
        PROVE  G[q] = mul(Y[q], Total(PartTerms(f, q, z, n), n)) /\ PartTerms(f, q, z, n) \in Families
    <3>1. G[q] = mul(Y[q], Total(PartTerms(f, q, z, n), n))
        BY DEF Values
    <3>2. PartTerms(f, q, z, n) \in Families
        BY <1>1, <1>2, ValuesFacts
    <3> QED BY <3>1, <3>2
  <2>3. ASSUME NEW q \in Nat, NEW m \in Nat, m < n
        PROVE  PartTerms(f, q, z, n)[m] = mul(Conv(f, Powers(Points[q]), m), Power(z, m))
      BY <1>1, <1>2, <2>3, ValuesFacts
  <2> HIDE DEF G
  <2> QED BY <2>1, <2>2, <2>3
<1> HIDE DEF T, G
<1>7. ASSUME NEW m \in Nat
      PROVE  /\ Parts(Y, f, m) \in Families /\ Power(z, m) \in Symbols
             /\ \A q \in Nat : /\ Parts(Y, f, m)[q] = mul(Y[q], Conv(f, Powers(Points[q]), m))
                               /\ Conv(f, Powers(Points[q]), m) \in Symbols
    BY <1>1, <1>2, PartsFacts, PowerDef
<1>8. \A m, q \in Nat : a(m, q) \in Symbols
  <2> SUFFICES ASSUME NEW m \in Nat, NEW q \in Nat, m < n
               PROVE  mul(Power(z, m), mul(Y[q], Conv(f, Powers(Points[q]), m))) \in Symbols
      BY SymbolsFacts
  <2>1. Y[q] \in Symbols
      BY <1>1 DEF Families
  <2> QED BY <1>7, <2>1, MulType
<1>9. PICK A \in Grids : \A m, q \in Nat : A[m][q] = a(m, q)
  <2>1. [m \in Nat |-> [q \in Nat |-> a(m, q)]] \in Grids
      BY <1>8 DEF Families, Grids
  <2> HIDE DEF a
  <2> QED BY <2>1
<1>10. PICK B \in Grids : \A m, q \in Nat : B[q][m] = a(m, q)
  <2>1. [q \in Nat |-> [m \in Nat |-> a(m, q)]] \in Grids
      BY <1>8 DEF Families, Grids
  <2> HIDE DEF a
  <2> QED BY <2>1
<1>11. PICK H \in Families : \A m \in Nat : H[m] = h(m)
  <2>1. ASSUME NEW m \in Nat PROVE h(m) \in Symbols
    <3>1. Coefficient(E, m + 1) \in Symbols
      <4>1. m + 1 \in Nat
          OBVIOUS
      <4> QED BY <1>3, <4>1, CoefficientFacts
    <3> QED BY <1>7, <3>1, MulType, SymbolsFacts
  <2>2. [m \in Nat |-> h(m)] \in Families
      BY <2>1 DEF Families
  <2> HIDE DEF h
  <2> QED BY <2>2
<1>12. \A m, q \in Nat : B[q][m] = A[m][q]
    BY <1>9, <1>10
<1>13. /\ \A m, q \in Nat : m < n => A[m][q] = mul(Power(z, m), mul(Y[q], Conv(f, Powers(Points[q]), m)))
       /\ \A m \in Nat : A[m] \in Families /\ B[m] \in Families
       /\ \A m \in Nat : m < n => H[m] = mul(Coefficient(E, m + 1), Power(z, m))
  <2>1. \A j \in Nat : A[j] \in Families /\ B[j] \in Families
      BY <1>9, <1>10 DEF Grids
  <2> QED BY <1>9, <1>11, <2>1
<1> HIDE DEF a, h
<1>14. ASSUME NEW m \in 0 .. n - 1 PROVE H[m] = Total(A[m], N)
  <2> DEFINE P == Parts(Y, f, m)
             w == Power(z, m)
  <2>1. m \in Nat /\ m < n
      BY <1>1
  <2>2. /\ P \in Families /\ w \in Symbols
        /\ \A q \in Nat : P[q] = mul(Y[q], Conv(f, Powers(Points[q]), m))
      BY <1>7, <2>1
  <2>3. H[m] = mul(Total(P, N), w)
      BY <1>3, <1>13, <2>1
  <2> HIDE DEF P
  <2>4. \A q \in 0 .. N - 1 : A[m][q] = mul(w, P[q])
    <3>1. \A q \in 0 .. N - 1 : q \in Nat
        BY <1>1
    <3> QED BY <1>13, <2>1, <2>2, <3>1
  <2>5. A[m] \in Families
      BY <1>13, <2>1
  <2> HIDE DEF w
  <2>6. Total(A[m], N) = mul(w, Total(P, N))
      BY <1>1, <2>2, <2>4, <2>5, SumScale, ZenonT(40)
  <2>7. Total(P, N) \in Symbols
      BY <1>1, <2>2, SumDef
  <2> QED BY <2>2, <2>3, <2>6, <2>7, MulComm
<1>15. ASSUME NEW q \in 0 .. N - 1 PROVE G[q] = Total(B[q], n)
  <2> DEFINE X == PartTerms(f, q, z, n)
             y == Y[q]
  <2>1. q \in Nat
      BY <1>1
  <2>2. y \in Symbols /\ B[q] \in Families
      BY <1>1, <1>13, <2>1 DEF Families
  <2>3. /\ G[q] = mul(y, Total(X, n)) /\ X \in Families
        /\ \A m \in Nat : m < n => X[m] = mul(Conv(f, Powers(Points[q]), m), Power(z, m))
      BY <1>6, <2>1
  <2> HIDE DEF X
  <2>4. ASSUME NEW m \in 0 .. n - 1 PROVE B[q][m] = mul(y, X[m])
    <3> DEFINE v == Conv(f, Powers(Points[q]), m)
               w == Power(z, m)
    <3>1. m \in Nat /\ m < n
        BY <1>1
    <3>2. v \in Symbols /\ w \in Symbols
        BY <1>7, <2>1, <3>1
    <3>3. B[q][m] = mul(w, mul(y, v)) /\ X[m] = mul(v, w)
        BY <1>12, <1>13, <2>1, <2>3, <3>1
    <3> HIDE DEF v, w, y
    <3>4. mul(w, mul(y, v)) = mul(mul(y, v), w)
      <4>1. mul(y, v) \in Symbols
          BY <2>2, <3>2, MulType
      <4> QED BY <3>2, <4>1, MulComm
    <3>5. mul(y, mul(v, w)) = mul(mul(y, v), w)
        BY <2>2, <3>2, MulAssoc
    <3> QED BY <3>3, <3>4, <3>5
  <2> HIDE DEF y
  <2>5. Total(B[q], n) = mul(y, Total(X, n))
      BY <1>1, <2>2, <2>3, <2>4, SumScale, ZenonT(40)
  <2> QED BY <2>3, <2>5
<1>16. Total(H, n) = Total(G, N)
  <2>1. RowSums(H, A, n, N) /\ RowSums(G, B, N, n) /\ Transposed(A, B)
      BY <1>12, <1>14, <1>15 DEF RowSums, Transposed
  <2>2. A \in Grids /\ B \in Grids /\ G \in Families /\ H \in Families /\ n \in Nat /\ N \in Nat
      BY <1>1, <1>6, <1>9, <1>10, <1>11
  <2> QED BY <2>1, <2>2, SumExchange
<1>17. PICK U \in Families : \A m \in Nat : U[m] = T[m + 1]
  <2>1. \A m \in Nat : T[m + 1] \in Symbols
      BY <1>4 DEF Families
  <2>2. [m \in Nat |-> T[m + 1]] \in Families
      BY <2>1 DEF Families
  <2> QED BY <2>2
<1>18. ASSUME NEW m \in 0 .. n - 1 PROVE U[m] = mul(z, H[m])
  <2> DEFINE e == Coefficient(E, m + 1)
             w == Power(z, m)
  <2>1. m \in Nat /\ m < n /\ m + 1 \in Nat
      BY <1>1
  <2>2. e \in Symbols /\ w \in Symbols
      BY <1>3, <1>7, <2>1, CoefficientFacts
  <2>3. Power(z, m + 1) = mul(w, z)
      BY <2>1, PowerDef
  <2>4. U[m] = mul(e, mul(w, z)) /\ H[m] = mul(e, w)
      BY <1>4, <1>13, <1>17, <2>1, <2>3
  <2> HIDE DEF e, w
  <2>5. mul(e, mul(w, z)) = mul(mul(e, w), z) /\ mul(e, w) \in Symbols
      BY <2>2, MulAssoc, MulType
  <2>6. mul(mul(e, w), z) = mul(z, mul(e, w))
      BY <2>5, MulComm
  <2> QED BY <2>4, <2>5, <2>6
<1>19. Total(U, n) = mul(z, Total(H, n))
    BY <1>1, <1>11, <1>17, <1>18, SumScale
<1>20. Total(T, n + 1) = Add(T[0], Total(U, n))
  <2>1. \A m \in 0 .. n - 1 : U[m] = T[m + 1]
    <3>1. \A m \in 0 .. n - 1 : m \in Nat
        BY <1>1
    <3> QED BY <1>17, <3>1
  <2> QED BY <1>1, <1>4, <1>17, <2>1, SumFirst
<1>21. T[0] = 0
  <2>1. T[0] = mul(0, Power(z, 0))
    <3>1. 0 \in Nat
        OBVIOUS
    <3> QED BY <1>3, <1>4, <3>1
  <2> QED BY <2>1, MulZero
<1>22. Total(T, n + 1) = Total(U, n)
  <2>1. Total(U, n) \in Symbols
      BY <1>1, <1>17, SumDef
  <2> QED BY <1>20, <1>21, <2>1, AddLaws
<1> QED BY <1>5, <1>16, <1>19, <1>22 DEF E, G, N, f, n

(* Forney: once every error is among the positions, the magnitude at each of
   them is what the air added there. *)
THEOREM MagnitudeFacts ==
    ASSUME NEW synd, NEW Y, PowerSums(synd, Y), NEW c, Positions(c), Len(c) <= ecc_length,
           \A q \in 0 .. enc_len - 1 : Y[q] # 0 => \E b \in 1 .. Len(c) : c[b] = q,
           NEW a \in 1 .. Len(c)
    PROVE  Magnitude(c, Evaluator(synd, c), a) = Y[c[a]]
<1> DEFINE n == Len(c)
           N == enc_len
           x == pow(2, c[a])
           z == inverse(x)
           E == Evaluator(synd, c)
           f == Coefs(FindErrataLocator(c))
           V(q) == Total(PartTerms(f, q, z, n), n)
           G == Values(Y, f, z, n)
           p == Prime(c, a, z)
           y == Y[c[a]]
<1>1. n \in Nat /\ n >= 1 /\ N \in Nat /\ n \in 0 .. n
    BY CodeFacts DEF Positions
<1>2. Y \in Families
    BY DEF PowerSums
<1>3. /\ x \in NonZero /\ x \in Symbols /\ Locate(c[a]) = x
      /\ c[a] \in Nat /\ c[a] \in 0 .. N - 1
    BY PositionsFacts
<1>4. z \in NonZero /\ z \in Symbols /\ mul(x, z) = 1 /\ mul(z, x) = 1
  <2>1. z \in NonZero /\ mul(x, z) = 1
      BY <1>3, InverseFacts
  <2>2. z \in Symbols
      BY <2>1, SymbolsFacts
  <2> QED BY <1>3, <2>1, <2>2, MulComm
<1>5. FindErrataLocator(c) \in Polys
    BY <1>1, PartLocatorFacts
<1>6. f \in Families /\ \A j \in Nat : f[j] = Coefficient(FindErrataLocator(c), j)
    BY <1>5, CoefsFacts
<1>7. Magnitude(c, E, a) = div(mul(x, poly_eval(E, z)), p)
    BY <1>3, Zenon DEF Magnitude
<1> HIDE DEF z
<1>8. poly_eval(E, z) = mul(z, Total(G, N))
    BY <1>1, <1>4, EvaluatorValue
<1> HIDE DEF f
<1>9. G \in Families /\ \A q \in Nat : G[q] = mul(Y[q], V(q))
  <2>1. G \in Families
      BY <1>1, <1>2, <1>4, <1>6, ValuesFacts
  <2>2. \A q \in Nat : G[q] = mul(Y[q], V(q))
      BY DEF Values
  <2> QED BY <2>1, <2>2
<1> HIDE DEF E, G, V, n, N
<1>10. ASSUME NEW b \in 1 .. n PROVE V(c[b]) = Prime(c, b, z)
  <2> DEFINE O == Omitted(c, b, n)
             t == PartTerms(f, c[b], z, n)
             g == Coefs(O)
             u == pow(2, c[b])
             T == Terms(O, z)
  <2>1. u \in Symbols /\ c[b] \in Nat /\ Points[c[b]] = u
      BY PositionsFacts DEF n
  <2>2. O \in Polys /\ Len(O) = n
    <3>1. ~(n < b) /\ b \in 1 .. Len(c) /\ n \in 0 .. Len(c)
        BY <1>1 DEF n
    <3> QED BY <3>1, OmittedFacts
  <2>3. Multiple(FindErrataLocator(c), O, u)
      BY OmittedMultiple DEF n
  <2>4. poly_eval(O, z) = Prime(c, b, z)
      BY <1>4, PrimeFacts DEF n, x
  <2> HIDE DEF O, u
  <2>5. g \in Families /\ \A j \in Nat : g[j] = Coefficient(O, j)
      BY <2>2, CoefsFacts
  <2> HIDE DEF g
  <2>6. f[0] = g[0] /\ \A m \in Nat : f[m + 1] = Add(g[m + 1], mul(u, g[m]))
    <3>1. 0 \in Nat /\ \A m \in Nat : m + 1 \in Nat
        OBVIOUS
    <3> QED BY <1>6, <2>3, <2>5, <3>1 DEF Multiple
  <2>7. \A m \in Nat : Conv(f, Powers(u), m) = g[m]
      BY <1>6, <2>1, <2>5, <2>6, ConvGeometric
  <2>8. t \in Families
      BY <1>1, <1>2, <1>4, <1>6, <2>1, ValuesFacts
  <2>9. T \in Families /\ \A j \in Nat : T[j] = mul(Coefficient(O, j), Power(z, j))
      BY <1>4, <2>2, TermsFacts
  <2>10. ASSUME NEW m \in 0 .. n - 1 PROVE t[m] = T[m]
    <3>1. m \in Nat /\ m < n
        BY <1>1
    <3>2. t[m] = mul(Conv(f, Powers(Points[c[b]]), m), Power(z, m))
        BY <3>1 DEF PartTerms
    <3> HIDE DEF t, T
    <3> QED BY <2>1, <2>5, <2>7, <2>9, <3>1, <3>2
  <2> HIDE DEF t, T
  <2>11. Total(t, n) = Total(T, n)
      BY <1>1, <2>8, <2>9, <2>10, SumEqual
  <2>12. poly_eval(O, z) = Total(T, n)
    <3>1. Len(O) >= 1 /\ n >= Len(O)
        BY <1>1, <2>2
    <3> QED BY <1>1, <1>4, <2>2, <3>1, EvalSum DEF T
  <2> QED BY <2>4, <2>11, <2>12 DEF V, t
<1>11. ASSUME NEW q \in 0 .. N - 1, q # c[a] PROVE G[q] = 0
  <2>1. q \in Nat
      BY <1>1
  <2>2. CASE Y[q] = 0
      BY <1>9, <2>1, <2>2, MulZero
  <2>3. CASE Y[q] # 0
    <3>1. PICK b \in 1 .. n : c[b] = q
        BY <2>3 DEF n, N
    <3>2. b # a
        BY <1>11, <3>1
    <3>3. Prime(c, b, z) = 0
        BY <1>4, <3>1, <3>2, PrimeFacts DEF n, x
    <3>4. V(q) = 0
        BY <1>10, <3>1, <3>3
    <3> QED BY <1>9, <2>1, <3>4, MulZero
  <2> QED BY <2>2, <2>3
<1>12. Total(G, N) = G[c[a]]
    BY <1>1, <1>3, <1>9, <1>11, SumSingle
<1>13. p \in Symbols /\ p # 0
    BY <1>4, PrimeFacts DEF x
<1>14. G[c[a]] = mul(y, p)
  <2>1. V(c[a]) = p
      BY <1>10 DEF n
  <2> QED BY <1>3, <1>9, <2>1
<1>15. y \in Symbols
    BY <1>2, <1>3 DEF Families
<1> HIDE DEF p, y, x
<1>16. mul(x, mul(z, mul(y, p))) = mul(y, p) /\ mul(y, p) \in Symbols
  <2>1. mul(y, p) \in Symbols
      BY <1>13, <1>15, MulType
  <2>2. mul(x, mul(z, mul(y, p))) = mul(mul(x, z), mul(y, p))
      BY <1>3, <1>4, <2>1, MulAssoc
  <2> QED BY <1>4, <2>1, <2>2, MulOne
<1>17. div(mul(y, p), p) = y
  <2>1. p \in NonZero
      BY <1>13, SymbolsFacts
  <2>2. inverse(p) \in Symbols /\ mul(p, inverse(p)) = 1
      BY <2>1, InverseFacts, SymbolsFacts
  <2>3. div(mul(y, p), p) = mul(mul(y, p), inverse(p))
      BY <1>16, <2>1, DivFacts
  <2>4. mul(mul(y, p), inverse(p)) = mul(y, mul(p, inverse(p)))
      BY <1>13, <1>15, <2>2, MulAssoc
  <2> QED BY <1>15, <2>2, <2>3, <2>4, MulOne
<1>18. poly_eval(E, z) = mul(z, mul(y, p))
    BY <1>8, <1>12, <1>14
<1>19. div(mul(x, poly_eval(E, z)), p) = y
    BY <1>16, <1>17, <1>18
<1> QED BY <1>7, <1>19 DEF E, y

(* Functions that agree everywhere are one. *)
LEMMA SameFunction ==
    ASSUME NEW S, NEW T, NEW f \in [S -> T], NEW g \in [S -> T], \A x \in S : f[x] = g[x]
    PROVE  f = g
OBVIOUS

(* Where a symbol of a block is in its polynomial. *)
LEMMA WordCoefficients ==
    ASSUME NEW w \in Words
    PROVE  /\ \A p \in 1 .. enc_len : /\ enc_len - p \in 0 .. enc_len - 1 /\ enc_len - p \in Nat
                                      /\ w[p] = Coefficient(w, enc_len - p) /\ w[p] \in Symbols
           /\ \A v \in Words : (\A p \in 1 .. enc_len : v[p] = w[p]) => v = w
<1>1. enc_len \in Nat
    BY CodeFacts
<1>2. w \in Polys /\ Len(w) = enc_len
    BY WordFacts
<1>3. ASSUME NEW p \in 1 .. enc_len
      PROVE  /\ enc_len - p \in 0 .. enc_len - 1 /\ enc_len - p \in Nat
             /\ w[p] = Coefficient(w, enc_len - p) /\ w[p] \in Symbols
  <2>1. enc_len - p \in 0 .. enc_len - 1 /\ enc_len - p \in Nat /\ enc_len - p < enc_len
        /\ enc_len - (enc_len - p) = p
      BY <1>1
  <2>2. w[p] \in Symbols
      BY DEF Words
  <2> QED BY <1>2, <2>1, <2>2 DEF Coefficient
<1>4. \A v \in Words : (\A p \in 1 .. enc_len : v[p] = w[p]) => v = w
  <2> SUFFICES ASSUME NEW v \in Words, \A p \in 1 .. enc_len : v[p] = w[p] PROVE v = w
      OBVIOUS
  <2> DEFINE D == 1 .. enc_len
  <2>1. v \in [D -> Symbols] /\ w \in [D -> Symbols] /\ \A p \in D : v[p] = w[p]
      BY DEF Words
  <2> HIDE DEF D
  <2> QED BY <2>1, SameFunction
<1> QED BY <1>3, <1>4

(* The block that CorrectErrata() leaves is the codeword. *)
LEMMA RepairedFacts ==
    ASSUME NEW w \in Words, NEW code \in Words, NEW synd, NEW Y, PowerSums(synd, Y),
           Y = Difference(w, code),
           NEW c, Positions(c), Len(c) <= ecc_length,
           \A q \in 0 .. enc_len - 1 : Y[q] # 0 => \E b \in 1 .. Len(c) : c[b] = q
    PROVE  CorrectErrata(synd, c, w) = code
<1> DEFINE E == Evaluator(synd, c)
           Hit(p, i) == p = enc_len - c[i]
           r == [p \in 1 .. enc_len |->
                    IF \E i \in DOMAIN c : Hit(p, i)
                    THEN Add(w[p], Magnitude(c, E, CHOOSE i \in DOMAIN c : Hit(p, i)))
                    ELSE w[p]]
<1>1. enc_len \in Nat /\ DOMAIN c = 1 .. Len(c)
    BY CodeFacts DEF Positions
<1>2. ASSUME NEW p \in 1 .. enc_len PROVE r[p] = code[p]
  <2> DEFINE q == enc_len - p
  <2>1. /\ q \in 0 .. enc_len - 1 /\ q \in Nat /\ enc_len - q = p
        /\ w[p] = Coefficient(w, q) /\ code[p] = Coefficient(code, q)
        /\ w[p] \in Symbols /\ code[p] \in Symbols
    <3>1. enc_len - (enc_len - p) = p
        BY <1>1
    <3> QED BY <3>1, WordCoefficients
  <2> HIDE DEF q, E
  <2>2. Y[q] = Add(w[p], code[p])
      BY <2>1, DifferenceFacts
  <2>3. CASE \E i \in DOMAIN c : Hit(p, i)
    <3> DEFINE k == CHOOSE i \in DOMAIN c : Hit(p, i)
    <3>1. k \in DOMAIN c /\ Hit(p, k)
        BY <2>3
    <3>2. r[p] = Add(w[p], Magnitude(c, E, k))
        BY <2>3
    <3> HIDE DEF k, r
    <3>3. k \in 1 .. Len(c) /\ c[k] = q
      <4>1. k \in 1 .. Len(c)
          BY <1>1, <3>1
      <4>2. c[k] \in Nat
          BY <4>1, PositionsFacts
      <4> QED BY <1>1, <3>1, <4>1, <4>2 DEF q
    <3>4. Magnitude(c, E, k) = Y[q]
        BY <3>3, MagnitudeFacts DEF E
    <3>5. Add(w[p], Add(w[p], code[p])) = code[p]
      <4>1. Add(w[p], Add(w[p], code[p])) = Add(Add(w[p], w[p]), code[p])
          BY <2>1, AddLaws
      <4> QED BY <2>1, <4>1, AddLaws
    <3> QED BY <2>2, <3>2, <3>4, <3>5
  <2>4. CASE ~ \E i \in DOMAIN c : Hit(p, i)
    <3>1. r[p] = w[p]
        BY <2>4
    <3>2. Y[q] = 0
      <4> SUFFICES ASSUME Y[q] # 0 PROVE FALSE
          OBVIOUS
      <4>1. PICK b \in 1 .. Len(c) : c[b] = q
          BY <2>1
      <4>2. Hit(p, b)
          BY <2>1, <4>1
      <4> QED BY <1>1, <2>4, <4>1, <4>2
    <3> HIDE DEF r
    <3> QED BY <2>1, <2>2, <3>1, <3>2, AddCancel
  <2> QED BY <2>3, <2>4
<1>3. CorrectErrata(synd, c, w) = Tabulated(r)
    BY Zenon DEF CorrectErrata, Repaired
<1>4. r \in [1 .. enc_len -> Symbols] /\ code \in [1 .. enc_len -> Symbols]
  <2>1. code \in [1 .. enc_len -> Symbols]
      BY DEF Words
  <2>2. \A p \in 1 .. enc_len : r[p] \in Symbols
      BY <1>2, <2>1
  <2>3. DOMAIN r = 1 .. enc_len
      OBVIOUS
  <2>4. r = [p \in 1 .. enc_len |-> r[p]]
      OBVIOUS
  <2> HIDE DEF r
  <2> QED BY <2>1, <2>2, <2>4
<1> HIDE DEF r
<1>5. r = code
  <2> DEFINE D == 1 .. enc_len
  <2>1. r \in [D -> Symbols] /\ code \in [D -> Symbols] /\ \A p \in D : r[p] = code[p]
      BY <1>2, <1>4
  <2> HIDE DEF D
  <2> QED BY <2>1, SameFunction
<1>6. Tabulated(code) = code
  <2>1. code \in Seq(Symbols)
      BY WordFacts DEF Polys
  <2> QED BY <2>1 DEF Tabulated
<1> QED BY <1>3, <1>5, <1>6

------------------------------------------------------------------------------
(* A block decoded.                                                         *)

(* The symbols in which two blocks differ are the coefficients in which their
   polynomials do. *)
LEMMA DistanceFacts ==
    ASSUME NEW w \in Words, NEW c \in Words
    PROVE  Distance(w, c) = Cardinality(Support(Difference(w, c), enc_len))
<1> DEFINE N == enc_len
           Y == Difference(w, c)
           S == Support(Y, N)
           D == {p \in DOMAIN w : w[p] # c[p]}
           f == [q \in S |-> N - q]
<1>1. N \in Nat /\ DOMAIN w = 1 .. N
    BY CodeFacts DEF Words
<1>2. IsFiniteSet(S)
    BY <1>1, SupportFacts
<1>3. ASSUME NEW p \in 1 .. N PROVE N - p \in 0 .. N - 1 /\ (Y[N - p] # 0 <=> w[p] # c[p])
  <2>1. /\ N - p \in 0 .. N - 1 /\ N - p \in Nat
        /\ w[p] = Coefficient(w, N - p) /\ w[p] \in Symbols
        /\ c[p] = Coefficient(c, N - p) /\ c[p] \in Symbols
      BY WordCoefficients
  <2>2. Y[N - p] = Add(w[p], c[p])
      BY <2>1, DifferenceFacts
  <2>3. w[p] = c[p] => Add(w[p], c[p]) = 0
      BY <2>1, AddLaws
  <2> HIDE DEF Y, N
  <2> QED BY <2>1, <2>2, <2>3, AddCancel
<1>4. ASSUME NEW q \in 0 .. N - 1 PROVE N - q \in 1 .. N /\ N - (N - q) = q
    BY <1>1
<1>5. \A q : q \in S <=> q \in 0 .. N - 1 /\ Y[q] # 0
    BY DEF Support
<1>6. \A p : p \in D <=> p \in 1 .. N /\ w[p] # c[p]
    BY <1>1
<1> HIDE DEF S, D, Y, N
<1>7. f \in Bijection(S, D)
  <2>1. ASSUME NEW q \in S PROVE N - q \in D
    <3>1. q \in 0 .. N - 1 /\ Y[q] # 0
        BY <1>5
    <3>2. N - q \in 1 .. N /\ N - (N - q) = q
        BY <1>4, <3>1
    <3>3. w[N - q] # c[N - q]
        BY <1>3, <3>1, <3>2
    <3> QED BY <1>6, <3>2, <3>3
  <2>2. f \in [S -> D] /\ \A q \in S : f[q] = N - q
      BY <2>1
  <2>3. \A q, r \in S : f[q] = f[r] => q = r
    <3> SUFFICES ASSUME NEW q \in S, NEW r \in S, N - q = N - r PROVE q = r
        BY <2>2
    <3>1. q \in 0 .. N - 1 /\ r \in 0 .. N - 1
        BY <1>5
    <3> QED BY <1>1, <3>1
  <2>4. \A p \in D : \E q \in S : f[q] = p
    <3> SUFFICES ASSUME NEW p \in D PROVE \E q \in S : f[q] = p
        OBVIOUS
    <3>1. p \in 1 .. N /\ w[p] # c[p]
        BY <1>6
    <3>2. N - p \in 0 .. N - 1 /\ Y[N - p] # 0
        BY <1>3, <3>1
    <3>3. N - p \in S
        BY <1>5, <3>2
    <3>4. f[N - p] = p
      <4>1. N - (N - p) = p
          BY <1>1, <3>1
      <4> QED BY <2>2, <3>3, <4>1
    <3> QED BY <3>3, <3>4
  <2> HIDE DEF f
  <2> QED BY <2>2, <2>3, <2>4 DEF Bijection, Injection, IsInjective, Surjection
<1> HIDE DEF f
<1>8. ExistsBijection(S, D)
    BY <1>7 DEF ExistsBijection
<1>9. Cardinality(D) = Cardinality(S)
    BY <1>2, <1>8, FS_Bijection
<1> QED BY <1>9 DEF Distance, D, S, Y, N

(* Blocks that differ nowhere are one. *)
LEMMA NoDifference ==
    ASSUME NEW w \in Words, NEW c \in Words, \A q \in 0 .. enc_len - 1 : Difference(w, c)[q] = 0
    PROVE  w = c
<1>1. ASSUME NEW p \in 1 .. enc_len PROVE w[p] = c[p]
  <2>1. /\ enc_len - p \in 0 .. enc_len - 1 /\ enc_len - p \in Nat
        /\ w[p] = Coefficient(w, enc_len - p) /\ w[p] \in Symbols
        /\ c[p] = Coefficient(c, enc_len - p) /\ c[p] \in Symbols
      BY WordCoefficients
  <2>2. Add(w[p], c[p]) = 0
      BY <2>1, DifferenceFacts
  <2> QED BY <2>1, <2>2, AddCancel
<1> QED BY <1>1, WordCoefficients

(* The syndromes of a block are the power sums of its errors. *)
LEMMA SyndromesOfErrors ==
    ASSUME NEW w \in Words, NEW c \in Words,
           \A i \in 0 .. ecc_length - 1 : poly_eval(c, pow(2, i)) = 0
    PROVE  /\ PowerSums(CalcSyndromes(w), Difference(w, c))
           /\ Syndromes(CalcForneySyndromes(CalcSyndromes(w)), Difference(w, c))
<1> DEFINE Y == Difference(w, c)
           synd == CalcSyndromes(w)
           fs == CalcForneySyndromes(synd)
<1>1. Y \in Families
    BY DifferenceFacts
<1>2. /\ synd \in Polys /\ Len(synd) = ecc_length + 1 /\ synd[1] = 0
      /\ \A i \in 1 .. ecc_length : synd[i + 1] = poly_eval(w, pow(2, i - 1))
      /\ fs \in Polys /\ Len(fs) = ecc_length
      /\ \A i \in 1 .. ecc_length : fs[i] = poly_eval(w, pow(2, i - 1))
    BY SyndromeFacts
<1> HIDE DEF synd, fs
<1>3. ASSUME NEW i \in 1 .. ecc_length
      PROVE  poly_eval(w, pow(2, i - 1)) = Total(Moment(Y, Points, i - 1), enc_len)
             /\ Moments(Y)[i - 1] = Total(Moment(Y, Points, i - 1), enc_len)
  <2>1. i - 1 \in Nat /\ i - 1 \in 0 .. ecc_length - 1
      BY CodeFacts
  <2>2. poly_eval(w, pow(2, i - 1)) = Total(Moment(Y, Points, i - 1), enc_len)
      BY <2>1, SyndromeMoments
  <2> HIDE DEF Y
  <2>3. Moments(Y)[i - 1] = Total(Moment(Y, Points, i - 1), enc_len)
      BY <1>1, <2>1, MomentsFacts
  <2> QED BY <2>2, <2>3
<1> HIDE DEF Y
<1>4. PowerSums(synd, Y)
    BY <1>1, <1>2, <1>3 DEF PowerSums
<1>5. Syndromes(fs, Y)
    BY <1>1, <1>2, <1>3 DEF Syndromes
<1> QED BY <1>4, <1>5 DEF synd, fs, Y

(* Without syndromes there are no errors, if there are no more than can be
   seen. *)
LEMMA CleanFacts ==
    ASSUME NEW w \in Words, NEW c \in Words,
           \A i \in 0 .. ecc_length - 1 : poly_eval(c, pow(2, i)) = 0,
           Cardinality(Support(Difference(w, c), enc_len)) <= ecc_length
    PROVE  HasErrors(CalcSyndromes(w)) <=> w # c
<1> DEFINE Y == Difference(w, c)
           synd == CalcSyndromes(w)
<1>1. PowerSums(synd, Y)
    BY SyndromesOfErrors
<1>2. /\ ecc_length \in Nat /\ enc_len \in Nat /\ Y \in Families
      /\ synd \in Polys /\ Len(synd) = ecc_length + 1 /\ synd[1] = 0
      /\ \A i \in 1 .. ecc_length : synd[i + 1] = Moments(Y)[i - 1]
    BY <1>1, CodeFacts DEF PowerSums
<1>3. DOMAIN synd = 1 .. ecc_length + 1
    BY <1>2 DEF Polys
<1>4. ASSUME ~HasErrors(synd) PROVE w = c
  <2> HIDE DEF Y, synd
  <2>1. ASSUME NEW i \in 0 .. ecc_length - 1 PROVE Total(Moment(Y, Points, i), enc_len) = 0
    <3>1. i \in Nat /\ i + 1 \in 1 .. ecc_length /\ (i + 1) - 1 = i /\ (i + 1) + 1 \in 1 .. ecc_length + 1
        BY <1>2
    <3>2. synd[(i + 1) + 1] = 0
        BY <1>3, <1>4, <3>1 DEF HasErrors
    <3>3. Moments(Y)[i] = 0
        BY <1>2, <3>1, <3>2
    <3> QED BY <1>2, <3>1, <3>3, MomentsFacts
  <2>2. \A i, j \in 0 .. enc_len - 1 : Points[i] = Points[j] => i = j
      BY PointsFacts
  <2>3. Points \in Families
      BY PointsFacts
  <2>4. Cardinality(Support(Y, enc_len)) <= ecc_length
      BY DEF Y
  <2>5. PICK z \in Families : z = Y
      BY <1>2
  <2>6. /\ Cardinality(Support(z, enc_len)) <= ecc_length
        /\ \A i \in 0 .. ecc_length - 1 : Total(Moment(z, Points, i), enc_len) = 0
      BY <2>1, <2>4, <2>5
  <2>7. \A q \in 0 .. enc_len - 1 : z[q] = 0
      BY <1>2, <2>2, <2>3, <2>5, <2>6, Vandermonde
  <2> QED BY <2>5, <2>7, NoDifference DEF Y
<1>5. ASSUME w = c PROVE ~HasErrors(synd)
  <2>1. \A i \in 1 .. ecc_length : synd[i + 1] = poly_eval(w, pow(2, i - 1))
      BY SyndromeFacts
  <2> HIDE DEF synd
  <2>2. ASSUME NEW k \in 1 .. ecc_length + 1 PROVE synd[k] = 0
    <3>1. CASE k = 1
        BY <1>2, <3>1
    <3>2. CASE k # 1
      <4>1. k - 1 \in 1 .. ecc_length /\ (k - 1) + 1 = k /\ (k - 1) - 1 \in 0 .. ecc_length - 1
          BY <1>2, <3>2
      <4>2. synd[(k - 1) + 1] = poly_eval(c, pow(2, (k - 1) - 1))
          BY <1>5, <2>1, <4>1
      <4> QED BY <4>1, <4>2
    <3> QED BY <3>1, <3>2
  <2> QED BY <1>3, <2>2 DEF HasErrors
<1> QED BY <1>4, <1>5 DEF synd

(* Errs() undoes nothing but the one that the locator has more. *)
LEMMA ErrsFacts ==
    ASSUME NEW loc, Len(loc) \in 1 .. Order + 1
    PROVE  Errs(loc) = Len(loc) - 1
<1>1. Order + 1 \in Nat /\ Order + 1 > 1 /\ Len(loc) - 1 \in 0 .. (Order + 1) - 1 /\ 1 \in Int
      /\ (Order + 1) * 1 + (Len(loc) - 1) = Len(loc) + Order
    BY CodeFacts
<1>2. ((Order + 1) * 1 + (Len(loc) - 1)) % (Order + 1) = Len(loc) - 1
    BY <1>1, ModUnique
<1> QED BY <1>1, <1>2 DEF Errs

(* A block with no more errors than half the redundancy is decoded, whatever
   locator was held before. *)
THEOREM ErrorsCorrected ==
    ASSUME NEW w \in Words, NEW c \in Words,
           \A i \in 0 .. ecc_length - 1 : poly_eval(c, pow(2, i)) = 0,
           2 * Cardinality(Support(Difference(w, c), enc_len)) <= ecc_length,
           HasErrors(CalcSyndromes(w)),
           NEW loc \in Usable(FindErrorLocator(CalcForneySyndromes(CalcSyndromes(w)))),
           NEW search,
           search = Search(loc, FindErrorLocator(CalcForneySyndromes(CalcSyndromes(w))).raw)
    PROVE  /\ Outcome(search.loc, search.c_pos) = "success"
           /\ CorrectErrata(CalcSyndromes(w), search.c_pos, w) = c
<1> DEFINE Y == Difference(w, c)
           synd == CalcSyndromes(w)
           fs == CalcForneySyndromes(synd)
           nu == Cardinality(Support(Y, enc_len))
           raw == BerlekampMassey(fs).err_loc
           rev == Reverse(raw)
           s == Roots(rev, raw)
           found == FindErrorLocator(fs)
<1>1. PowerSums(synd, Y) /\ Syndromes(fs, Y)
    BY SyndromesOfErrors
<1>2. /\ ecc_length \in Nat /\ enc_len \in Nat /\ nu \in Nat /\ 2 * nu <= ecc_length /\ nu <= ecc_length
      /\ Y \in Families /\ IsFiniteSet(Support(Y, enc_len))
  <2>1. ecc_length \in Nat /\ enc_len \in Nat /\ nu \in Nat /\ IsFiniteSet(Support(Y, enc_len))
      BY CodeFacts, SupportFacts
  <2>2. 2 * nu <= ecc_length
      OBVIOUS
  <2>3. Y \in Families
      BY DifferenceFacts
  <2> HIDE DEF nu
  <2> QED BY <2>1, <2>2, <2>3
<1>3. w # c
    BY <1>2, CleanFacts
<1>4. nu >= 1
  <2> SUFFICES ASSUME nu = 0 PROVE FALSE
      BY <1>2
  <2>1. Support(Y, enc_len) = {}
      BY <1>2, FS_EmptySet
  <2>2. \A q \in 0 .. enc_len - 1 : Y[q] = 0
      BY <2>1 DEF Support
  <2> QED BY <1>3, <2>2, NoDifference
<1> HIDE DEF fs, nu, Y, synd
<1>5. /\ raw \in Polys /\ Len(raw) = nu + 1 /\ Coefficient(raw, 0) = 1 /\ raw[1] # 0
      /\ \A q \in 0 .. enc_len - 1 : poly_eval(rev, pow(2, q)) = 0 <=> Y[q] # 0
    BY <1>1, <1>2, LocatorFound DEF nu
<1>6. found = Shortened(raw)
    BY DEF FindErrorLocator
<1> HIDE DEF raw, found
<1>7. found.raw = raw /\ found.loc = raw /\ found.ok
  <2>1. Len(raw) >= 1 /\ 2 * (Len(raw) - 1) <= ecc_length
      BY <1>2, <1>5
  <2>2. Shortened(raw).raw = raw /\ Shortened(raw).loc = raw
      BY <1>5, <2>1, ShortenedFacts
  <2>3. Shortened(raw).ok <=> 2 * (Len(Shortened(raw).loc) - 1) <= ecc_length
      BY <1>5, <2>1, ShortenedFacts
  <2>4. Shortened(raw).ok
      BY <2>1, <2>2, <2>3
  <2> QED BY <1>6, <2>2, <2>4
<1>8. search = [loc |-> raw, c_pos |-> s]
  <2>1. search = Search(loc, found.raw) /\ loc \in Usable(found)
      BY DEF found, fs, synd
  <2>2. loc = raw
      BY <1>7, <2>1 DEF Usable
  <2> QED BY <1>7, <2>1, <2>2, Zenon DEF Search
<1>9. search.loc = raw /\ search.c_pos = s
  <2> HIDE DEF s
  <2> QED BY <1>8
<1>10. rev \in Polys /\ Len(rev) = nu + 1
    BY <1>5, ReverseFacts
<1> HIDE DEF rev
<1>11. \A q \in 0 .. enc_len - 1 : IsRoot(rev, raw, q) <=> Y[q] # 0
  <2>1. rev # <<>>
      BY <1>2, <1>10
  <2> QED BY <1>5, <2>1 DEF IsRoot
<1>12. /\ s \in Seq(Nat) /\ Len(s) \in Nat
       /\ \A a \in 1 .. Len(s) : s[a] \in 0 .. enc_len - 1
       /\ \A a, b \in 1 .. Len(s) : s[a] = s[b] => a = b
       /\ \A i \in 0 .. enc_len - 1 : IsRoot(rev, raw, i) => \E a \in 1 .. Len(s) : s[a] = i
       /\ Len(s) = Cardinality(RootSet(rev, raw))
    BY RootsFacts
<1> HIDE DEF s
<1>13. Positions(s)
    BY <1>12 DEF Positions
<1>14. Len(s) = nu
  <2>1. RootSet(rev, raw) = Support(Y, enc_len)
      BY <1>11 DEF Support, RootSet
  <2> QED BY <1>12, <2>1 DEF nu
<1>15. Outcome(raw, s) = "success"
  <2>1. Errs(raw) = nu
    <3>1. Len(raw) \in 1 .. Order + 1 /\ Len(raw) - 1 = nu
        BY <1>2, <1>5, CodeFacts
    <3> QED BY <3>1, ErrsFacts
  <2>2. ~(Len(s) >= poly_len) /\ s # <<>>
      BY <1>2, <1>4, <1>14, CodeFacts
  <2> QED BY <1>14, <2>1, <2>2 DEF Outcome
<1>16. CorrectErrata(synd, s, w) = c
  <2>1. \A q \in 0 .. enc_len - 1 : Y[q] # 0 => \E b \in 1 .. Len(s) : s[b] = q
      BY <1>11, <1>12
  <2>2. Len(s) <= ecc_length
      BY <1>2, <1>14
  <2> QED BY <1>1, <1>13, <2>1, <2>2, RepairedFacts DEF Y
<1> QED BY <1>9, <1>15, <1>16 DEF synd

(* A magnitude is a symbol, whatever the positions are. *)
LEMMA MagnitudeType ==
    ASSUME NEW c, Positions(c), NEW i \in 1 .. Len(c), NEW p \in Polys, Len(p) >= 1
    PROVE  Magnitude(c, p, i) \in Symbols
<1> DEFINE X == Locate(c[i])
           z == inverse(X)
<1>1. X \in NonZero /\ X = pow(2, c[i])
    BY PositionsFacts
<1> HIDE DEF X
<1>2. z \in NonZero /\ mul(X, z) = 1
    BY <1>1, InverseFacts
<1>3. Magnitude(c, p, i) = div(mul(X, poly_eval(p, z)), Prime(c, i, z))
    BY Zenon DEF Magnitude, X
<1> HIDE DEF z
<1>4. X \in Symbols /\ z \in Symbols
    BY <1>1, <1>2, SymbolsFacts
<1>5. mul(z, pow(2, c[i])) = 1
    BY <1>1, <1>2, <1>4, MulComm
<1>6. Prime(c, i, z) \in Symbols
    BY <1>4, <1>5, PrimeFacts
<1>7. poly_eval(p, z) \in Symbols
    BY <1>4, HornerDef
<1>8. mul(X, poly_eval(p, z)) \in Symbols
    BY <1>4, <1>7, MulType
<1> QED BY <1>3, <1>6, <1>8, DivType

(* Forney's correction of any word at any positions is a word, and differs
   from it at those positions only. *)
LEMMA RepairedType ==
    ASSUME NEW w \in Words, NEW synd, NEW Y, PowerSums(synd, Y),
           NEW c, Positions(c), Len(c) <= ecc_length
    PROVE  /\ CorrectErrata(synd, c, w) \in Words
           /\ \A p \in 1 .. enc_len :
                 CorrectErrata(synd, c, w)[p] # w[p] => \E i \in 1 .. Len(c) : p = enc_len - c[i]
<1> DEFINE E == Evaluator(synd, c)
           Hit(p, i) == p = enc_len - c[i]
           r == [p \in 1 .. enc_len |->
                    IF \E i \in DOMAIN c : Hit(p, i)
                    THEN Add(w[p], Magnitude(c, E, CHOOSE i \in DOMAIN c : Hit(p, i)))
                    ELSE w[p]]
<1>1. enc_len \in Nat /\ DOMAIN c = 1 .. Len(c) /\ Len(c) \in Nat
    BY CodeFacts DEF Positions
<1>2. E \in Polys /\ Len(E) >= 1
  <2>1. E \in Polys /\ Len(E) = Len(c) + 1
      BY EvaluatorFacts
  <2> HIDE DEF E
  <2> QED BY <1>1, <2>1
<1> HIDE DEF E
<1>3. ASSUME NEW p \in 1 .. enc_len
      PROVE  r[p] \in Symbols /\ (r[p] # w[p] => \E i \in 1 .. Len(c) : Hit(p, i))
  <2>1. w[p] \in Symbols
      BY WordCoefficients
  <2>2. CASE \E i \in DOMAIN c : Hit(p, i)
    <3> DEFINE k == CHOOSE i \in DOMAIN c : Hit(p, i)
    <3>1. k \in DOMAIN c /\ Hit(p, k)
        BY <2>2
    <3>2. r[p] = Add(w[p], Magnitude(c, E, k))
        BY <2>2
    <3> HIDE DEF k, r, Hit
    <3>3. k \in 1 .. Len(c)
        BY <1>1, <3>1
    <3>4. Magnitude(c, E, k) \in Symbols
        BY <1>2, <3>3, MagnitudeType
    <3> QED BY <2>1, <3>1, <3>2, <3>3, <3>4, AddLaws
  <2>3. CASE ~ \E i \in DOMAIN c : Hit(p, i)
    <3>1. r[p] = w[p]
        BY <2>3
    <3> HIDE DEF r
    <3> QED BY <2>1, <3>1
  <2> QED BY <2>2, <2>3
<1>4. CorrectErrata(synd, c, w) = Tabulated(r)
    BY Zenon DEF CorrectErrata, Repaired, E
<1>5. r \in [1 .. enc_len -> Symbols]
  <2>1. r = [p \in 1 .. enc_len |-> r[p]]
      OBVIOUS
  <2>2. \A p \in 1 .. enc_len : r[p] \in Symbols
      BY <1>3
  <2> HIDE DEF r
  <2> QED BY <2>1, <2>2
<1> HIDE DEF r
<1>6. r \in Words
    BY <1>5 DEF Words
<1>7. Tabulated(r) = r
  <2>1. r \in Seq(Symbols)
      BY <1>6, WordFacts DEF Polys
  <2> QED BY <2>1 DEF Tabulated
<1> QED BY <1>3, <1>4, <1>6, <1>7

(* So it changes no more symbols than there are positions. *)
LEMMA RepairedDistance ==
    ASSUME NEW w \in Words, NEW v \in Words, NEW c, Positions(c),
           \A p \in 1 .. enc_len : v[p] # w[p] => \E i \in 1 .. Len(c) : p = enc_len - c[i]
    PROVE  Distance(w, v) \in Nat /\ Distance(w, v) <= Len(c)
<1> DEFINE n == Len(c)
           D == {p \in DOMAIN w : w[p] # v[p]}
           g == [i \in 1 .. n |-> enc_len - c[i]]
           f == [p \in D |-> CHOOSE i \in 1 .. n : p = g[i]]
<1>1. n \in Nat /\ DOMAIN w = 1 .. enc_len
    BY DEF Positions, Words
<1>2. \A p \in D : \E i \in 1 .. n : p = g[i]
    BY <1>1
<1>3. f \in Injection(D, 1 .. n)
  <2> HIDE DEF D, g, n
  <2>1. \A p \in D : f[p] \in 1 .. n /\ p = g[f[p]]
      BY <1>2
  <2>2. f \in [D -> 1 .. n]
      BY <2>1
  <2> HIDE DEF f
  <2> QED BY <2>1, <2>2 DEF Injection, IsInjective
<1> HIDE DEF f, g, D, n
<1>4. IsFiniteSet(1 .. n) /\ Cardinality(1 .. n) = n
    BY <1>1, FS_Interval
<1>5. IsFiniteSet(D) /\ Cardinality(D) <= Cardinality(1 .. n)
    BY <1>3, <1>4, FS_Injection
<1>6. Cardinality(D) \in Nat
    BY <1>5, FS_CardinalityType
<1>7. Distance(w, v) = Cardinality(D)
    BY DEF Distance, D
<1> QED BY <1>1, <1>4, <1>5, <1>6, <1>7 DEF n

(* A locator the coder may hold: none, or one of no more errors than can be
   corrected. *)
Bounded(loc) == loc \in Polys /\ (loc = <<>> \/ (Len(loc) - 1) * 2 <= ecc_length)

(* How long such a locator is, and how many errors Errs() takes it for. *)
LEMMA BoundedFacts ==
    ASSUME NEW loc, Bounded(loc)
    PROVE  /\ loc \in Polys /\ Len(loc) \in Nat /\ Len(loc) <= ecc_length
           /\ Len(loc) = 0 => Errs(loc) = Order
           /\ Len(loc) >= 1 => Errs(loc) = Len(loc) - 1 /\ 2 * Errs(loc) <= ecc_length
<1>1. Len(loc) \in Nat
    BY CoefficientFacts DEF Bounded
<1>2. ecc_length \in Nat /\ ecc_length >= 1 /\ poly_len = 2 * ecc_length /\ poly_len <= Order
      /\ Order \in Nat /\ Order > 1
    BY CodeFacts
<1>3. Len(loc) = 0 \/ (Len(loc) - 1) * 2 <= ecc_length
    BY DEF Bounded
<1>4. Len(loc) <= ecc_length
    BY <1>1, <1>2, <1>3
<1>5. CASE Len(loc) = 0
  <2>1. Order + 1 \in Nat /\ Order + 1 > 1 /\ Order \in 0 .. (Order + 1) - 1 /\ 0 \in Int
        /\ (Order + 1) * 0 + Order = Len(loc) + Order
      BY <1>2, <1>5
  <2>2. ((Order + 1) * 0 + Order) % (Order + 1) = Order
      BY <2>1, ModUnique
  <2>3. Errs(loc) = Order
      BY <2>1, <2>2 DEF Errs
  <2> QED BY <1>1, <1>4, <1>5, <2>3 DEF Bounded
<1>6. CASE Len(loc) >= 1
  <2>1. Len(loc) \in 1 .. Order + 1
      BY <1>1, <1>2, <1>4, <1>6
  <2>2. Errs(loc) = Len(loc) - 1
      BY <2>1, ErrsFacts
  <2>3. 2 * (Len(loc) - 1) <= ecc_length
      BY <1>1, <1>2, <1>3, <1>6
  <2> QED BY <1>1, <1>4, <1>6, <2>2, <2>3 DEF Bounded
<1> QED BY <1>1, <1>5, <1>6

(* The length the coder keeps is that of such a locator. *)
BoundedLength(n) == n \in Nat /\ (n = 0 \/ (n - 1) * 2 <= ecc_length)

(* So what the next call takes for a locator is bounded, whatever is in it. *)
LEMMA LeftoversBounded ==
    ASSUME BoundedLength(eloc), NEW held \in Leftovers PROVE Bounded(held)
<1>1. eloc \in Nat /\ held \in [1 .. eloc -> Symbols]
    BY DEF BoundedLength, Leftovers
<1>2. held \in Seq(Symbols) /\ Len(held) = eloc
    BY <1>1, SeqOfFunction
<1>3. eloc = 0 => held = <<>>
    BY <1>2
<1> QED BY <1>2, <1>3 DEF Bounded, BoundedLength, Polys

(* What FindErrors() works with, this block's locator or a held one. *)
LEMMA SearchFacts ==
    ASSUME NEW fs \in Polys, Len(fs) = ecc_length, BoundedLength(eloc),
           NEW loc \in Usable(FindErrorLocator(fs)),
           NEW search, search = Search(loc, FindErrorLocator(fs).raw)
    PROVE  Bounded(search.loc) /\ Positions(search.c_pos)
<1> DEFINE raw == BerlekampMassey(fs).err_loc
           found == FindErrorLocator(fs)
           pos == Roots(Reverse(loc), found.raw)
<1>1. raw \in Polys /\ Len(raw) >= 1 /\ Coefficient(raw, 0) = 1
  <2>1. BerlekampMassey(fs) \in Locators
        /\ Recurrence(raw, BerlekampMassey(fs).old_loc, fs, ecc_length)
      BY MasseyFacts
  <2> QED BY <2>1 DEF Locators, Recurrence
<1>2. found = Shortened(raw)
    BY DEF FindErrorLocator
<1> HIDE DEF raw, found
<1>3. found.loc \in Polys /\ Len(found.loc) \in 1 .. Len(raw)
      /\ (found.ok <=> 2 * (Len(found.loc) - 1) <= ecc_length)
    BY <1>1, <1>2, ShortenedFacts
<1>4. Bounded(loc)
  <2>1. CASE found.ok
    <3>1. Len(found.loc) \in Nat
        BY <1>3, CoefficientFacts
    <3>2. 2 * (Len(found.loc) - 1) <= ecc_length
        BY <1>3, <2>1
    <3>3. (Len(found.loc) - 1) * 2 <= ecc_length
        BY <3>1, <3>2
    <3>4. loc = found.loc
        BY <2>1 DEF Usable, found
    <3> QED BY <1>3, <3>3, <3>4 DEF Bounded
  <2>2. CASE ~found.ok
    <3>1. loc \in Leftovers
        BY <2>2 DEF Usable, found
    <3> QED BY <3>1, LeftoversBounded
  <2> QED BY <2>1, <2>2
<1>5. search.loc = loc /\ search.c_pos = pos
  <2>1. search = [loc |-> loc, c_pos |-> pos]
      BY Zenon DEF Search, found
  <2> HIDE DEF pos
  <2> QED BY <2>1
<1>6. Positions(pos)
    BY RootsFacts DEF Positions
<1> QED BY <1>4, <1>5, <1>6

(* The roots are as many as the locator promised, or the call fails. *)
LEMMA SuccessFacts ==
    ASSUME NEW loc, Bounded(loc), NEW c, Positions(c), Outcome(loc, c) = "success"
    PROVE  Len(c) \in Nat /\ 2 * Len(c) <= ecc_length /\ Len(c) <= ecc_length
<1>1. Len(c) \in Nat
    BY DEF Positions
<1>2. ~(Len(c) >= poly_len) /\ Len(c) = Errs(loc)
    BY Zenon DEF Outcome
<1>3. poly_len <= Order /\ poly_len \in Nat /\ Order \in Nat /\ ecc_length \in Nat
    BY CodeFacts
<1>4. Len(loc) \in Nat
    BY BoundedFacts
<1>5. CASE Len(loc) = 0
  <2>1. Errs(loc) = Order
      BY <1>5, BoundedFacts
  <2> QED BY <1>1, <1>2, <1>3, <2>1
<1>6. CASE Len(loc) >= 1
  <2>1. 2 * Errs(loc) <= ecc_length
      BY <1>6, BoundedFacts
  <2> QED BY <1>1, <1>2, <1>3, <2>1
<1> QED BY <1>4, <1>5, <1>6

(* CorrectErrata() makes no polynomial that is longer than its memory: not
   the product of syndromes and locator, nor what it is divided by. *)
THEOREM CorrectionInBounds ==
    ASSUME NEW loc, Bounded(loc), NEW c, Positions(c), Outcome(loc, c) = "success",
           NEW w \in Words
    PROVE  /\ Len(poly_mul(Reverse(CalcSyndromes(w)), FindErrataLocator(c))) <= poly_len
           /\ Len(FindErrataLocator(c)) + 1 <= poly_len
           /\ Len(c) < poly_len
<1> DEFINE synd == CalcSyndromes(w)
           rev == Reverse(synd)
           errata == FindErrataLocator(c)
<1>1. Len(c) \in Nat /\ 2 * Len(c) <= ecc_length
    BY SuccessFacts
<1>2. ecc_length \in Nat /\ ecc_length > 1 /\ poly_len = 2 * ecc_length
    BY CodeFacts, CodeAssumption
<1>3. synd \in Polys /\ Len(synd) = ecc_length + 1
    BY SyndromeFacts
<1> HIDE DEF synd
<1>4. rev \in Polys /\ Len(rev) = ecc_length + 1
    BY <1>3, ReverseFacts
<1>5. errata \in Polys /\ Len(errata) = Len(c) + 1
  <2>1. Len(c) \in 0 .. Len(c)
      BY <1>1
  <2> QED BY <2>1, PartLocatorFacts
<1> HIDE DEF rev, errata
<1>6. Len(rev) >= 1 /\ Len(errata) >= 1
    BY <1>1, <1>2, <1>4, <1>5
<1>7. Len(poly_mul(rev, errata)) = Len(rev) + Len(errata) - 1
    BY <1>4, <1>5, <1>6, PolyMulFacts
<1>8. Len(rev) + Len(errata) - 1 <= poly_len /\ Len(errata) + 1 <= poly_len /\ Len(c) < poly_len
    BY <1>1, <1>2, <1>4, <1>5
<1> QED BY <1>7, <1>8 DEF rev, errata, synd

------------------------------------------------------------------------------
(* The coder, block after block.                                            *)

(* What is on its way: a message, the word the air made of its codeword, and
   once it is decoded, the outcome the code promises. *)
OnItsWay == ret # "none" => sent \in Messages /\ received \in Words

IInv == TypeOK /\ BoundedLength(eloc) /\ OnItsWay /\ CorrectsToHalf /\ ChangesFew

(* The invariant holds at first, *)
LEMMA InitIInv == Init => IInv
<1> SUFFICES ASSUME Init PROVE IInv
    OBVIOUS
<1>1. sent = <<>> /\ received = <<>> /\ corrected = <<>> /\ eloc = 0 /\ ret = "none"
    BY DEF Init
<1>2. BoundedLength(eloc)
    BY <1>1 DEF BoundedLength
<1>3. TypeOK
    BY <1>1 DEF TypeOK
<1> QED BY <1>1, <1>2, <1>3 DEF IInv, OnItsWay, CorrectsToHalf, ChangesFew

(* A message sent is one the encoder takes, and its codeword a word. *)
LEMMA MessageFacts ==
    ASSUME NEW m \in Messages
    PROVE  /\ Encode(m) \in Words /\ Message(Encode(m)) = m
           /\ \A i \in 0 .. ecc_length - 1 : poly_eval(Encode(m), pow(2, i)) = 0
<1>1. m \in [1 .. msg_length -> Symbols]
    BY InputAssumption
<1> QED BY <1>1, EncodeFacts DEF Message

(* Noise makes a word of a word. *)
LEMMA NoisyFacts ==
    ASSUME NEW c \in Words, NEW e \in Errors PROVE poly_add(c, e) \in Words
<1>1. e \in Words
    BY InputAssumption DEF Words
<1>2. c \in Polys /\ e \in Polys /\ Len(c) = enc_len /\ Len(e) = enc_len
    BY <1>1, WordFacts
<1>3. poly_add(c, e) \in Polys /\ Len(poly_add(c, e)) = enc_len
    BY <1>2, PolyAddFacts DEF poly_max
<1> QED BY <1>3 DEF Words, Polys

(* after a block is sent, *)
LEMMA TransmitIInv == IInv /\ Transmit => IInv'
<1> SUFFICES ASSUME IInv, Transmit PROVE IInv'
    OBVIOUS
<1>1. PICK m \in Messages, e \in Errors : sent' = m /\ received' = poly_add(Encode(m), e)
    BY DEF Transmit
<1>2. ret' = "waiting" /\ corrected' = <<>> /\ eloc' = eloc
    BY DEF Transmit
<1>3. received' \in Words
    BY <1>1, MessageFacts, NoisyFacts
<1>4. TypeOK'
  <2>1. received' \in [1 .. enc_len -> Symbols]
      BY <1>3 DEF Words
  <2> QED BY <1>1, <1>2, <2>1 DEF IInv, TypeOK
<1>5. BoundedLength(eloc)' /\ OnItsWay'
    BY <1>1, <1>2, <1>3 DEF IInv, BoundedLength, OnItsWay
<1> QED BY <1>2, <1>4, <1>5 DEF IInv, CorrectsToHalf, ChangesFew

(* What DecodeBlock() decides on a word that has errors, with its locator or
   whatever is in the memory of an old one. *)
LEMMA ConcludeFacts ==
    ASSUME IInv, ret = "waiting", HasErrors(CalcSyndromes(received)),
           NEW loc \in Usable(FindErrorLocator(CalcForneySyndromes(CalcSyndromes(received)))),
           NEW search,
           search = Search(loc, FindErrorLocator(CalcForneySyndromes(CalcSyndromes(received))).raw)
    PROVE  /\ Bounded(search.loc)
           /\ Outcome(search.loc, search.c_pos) \in {"success", "failure", "abort"}
           /\ Outcome(search.loc, search.c_pos) = "success" =>
                 /\ CorrectErrata(CalcSyndromes(received), search.c_pos, received) \in Words
                 /\ 2 * Distance(received, CorrectErrata(CalcSyndromes(received), search.c_pos, received))
                        <= ecc_length
           /\ 2 * Distance(received, Encode(sent)) <= ecc_length =>
                 /\ Outcome(search.loc, search.c_pos) = "success"
                 /\ CorrectErrata(CalcSyndromes(received), search.c_pos, received) = Encode(sent)
<1> DEFINE synd == CalcSyndromes(received)
           fs == CalcForneySyndromes(synd)
           c == search.c_pos
           v == CorrectErrata(synd, c, received)
           code == Encode(sent)
           Y == Difference(received, code)
<1>1. received \in Words /\ sent \in Messages
    BY DEF IInv, OnItsWay
<1>2. code \in Words /\ \A i \in 0 .. ecc_length - 1 : poly_eval(code, pow(2, i)) = 0
    BY <1>1, MessageFacts
<1>3. fs \in Polys /\ Len(fs) = ecc_length
    BY <1>1, SyndromeFacts
<1>4. BoundedLength(eloc)
    BY DEF IInv
<1>5. Bounded(search.loc) /\ Positions(c)
  <2>1. search = Search(loc, FindErrorLocator(fs).raw) /\ loc \in Usable(FindErrorLocator(fs))
      OBVIOUS
  <2> HIDE DEF fs
  <2> QED BY <1>3, <1>4, <2>1, SearchFacts
<1>6. Outcome(search.loc, c) \in {"success", "failure", "abort"}
    BY Zenon DEF Outcome
<1> HIDE DEF code
<1>7. ASSUME Outcome(search.loc, c) = "success"
      PROVE  v \in Words /\ 2 * Distance(received, v) <= ecc_length
  <2>1. Len(c) \in Nat /\ 2 * Len(c) <= ecc_length /\ Len(c) <= ecc_length
      BY <1>5, <1>7, SuccessFacts
  <2>2. PowerSums(synd, Y)
      BY <1>1, <1>2, SyndromesOfErrors
  <2> HIDE DEF synd, c, Y
  <2>3. v \in Words
        /\ \A p \in 1 .. enc_len : v[p] # received[p] => \E i \in 1 .. Len(c) : p = enc_len - c[i]
      BY <1>1, <1>5, <2>1, <2>2, RepairedType
  <2> HIDE DEF v
  <2>4. Distance(received, v) \in Nat /\ Distance(received, v) <= Len(c)
      BY <1>1, <1>5, <2>3, RepairedDistance
  <2>5. ecc_length \in Nat
      BY CodeFacts
  <2> QED BY <2>1, <2>3, <2>4, <2>5
<1>8. ASSUME 2 * Distance(received, code) <= ecc_length
      PROVE  Outcome(search.loc, c) = "success" /\ v = code
  <2>1. 2 * Cardinality(Support(Y, enc_len)) <= ecc_length
      BY <1>1, <1>2, <1>8, DistanceFacts
  <2> QED BY <1>1, <1>2, <2>1, ErrorsCorrected
<1> HIDE DEF c, v, synd
<1> QED BY <1>5, <1>6, <1>7, <1>8 DEF c, v, synd, code

(* A word without errors is taken as it is: it is a codeword, and the sent
   one if that is near. *)
LEMMA CleanTaken ==
    ASSUME IInv, ret = "waiting", ~HasErrors(CalcSyndromes(received)),
           2 * Distance(received, Encode(sent)) <= ecc_length
    PROVE  received = Encode(sent)
<1> DEFINE code == Encode(sent)
           nu == Cardinality(Support(Difference(received, code), enc_len))
<1>1. received \in Words /\ sent \in Messages
    BY DEF IInv, OnItsWay
<1>2. code \in Words /\ \A i \in 0 .. ecc_length - 1 : poly_eval(code, pow(2, i)) = 0
    BY <1>1, MessageFacts
<1>3. 2 * nu <= ecc_length
    BY <1>1, <1>2, DistanceFacts
<1>4. nu \in Nat /\ ecc_length \in Nat
    BY CodeFacts, SupportFacts
<1>5. nu <= ecc_length
  <2> HIDE DEF nu
  <2> QED BY <1>3, <1>4
<1> HIDE DEF code
<1> QED BY <1>1, <1>2, <1>5, CleanFacts DEF code

(* A block differs nowhere from itself. *)
LEMMA NoDistance == ASSUME NEW w PROVE Distance(w, w) = 0
<1>1. {i \in DOMAIN w : w[i] # w[i]} = {}
    OBVIOUS
<1> QED BY <1>1, FS_EmptySet DEF Distance

(* after one is decoded, *)
LEMMA DecodeIInv == IInv /\ DecodeBlock => IInv'
<1> SUFFICES ASSUME IInv, DecodeBlock PROVE IInv'
    OBVIOUS
<1> DEFINE synd == CalcSyndromes(received)
           code == Encode(sent)
<1>1. ret = "waiting" /\ DecodeWith(synd) /\ sent' = sent /\ received' = received
    BY DEF DecodeBlock
<1>2. sent \in Messages /\ received \in Words
    BY <1>1 DEF IInv, OnItsWay
<1>3. Message(code) = sent
    BY <1>2, MessageFacts
<1>4. ecc_length \in Nat
    BY CodeFacts
<1>5. /\ BoundedLength(eloc')
      /\ ret' \in {"success", "failure", "abort"}
      /\ corrected' = <<>> \/ corrected' \in Words
      /\ ret' = "success" => 2 * Distance(received, corrected') <= ecc_length
      /\ 2 * Distance(received, code) <= ecc_length => ret' = "success" /\ corrected' = code
  <2>1. CASE ~HasErrors(synd) /\ ret' = "success" /\ corrected' = received /\ eloc' = eloc
    <3>1. BoundedLength(eloc')
        BY <2>1 DEF IInv
    <3>2. 2 * Distance(received, corrected') <= ecc_length
        BY <1>4, <2>1, NoDistance
    <3>3. 2 * Distance(received, code) <= ecc_length => received = code
        BY <1>1, <2>1, CleanTaken
    <3> QED BY <1>2, <2>1, <3>1, <3>2, <3>3
  <2>2. CASE /\ HasErrors(synd)
             /\ LET found == FindErrorLocator(CalcForneySyndromes(synd))
                IN  \E loc \in Usable(found) : Conclude(synd, Search(loc, found.raw))
    <3>1. PICK loc \in Usable(FindErrorLocator(CalcForneySyndromes(synd))) :
              Conclude(synd, Search(loc, FindErrorLocator(CalcForneySyndromes(synd)).raw))
        BY <2>2
    <3> DEFINE search == Search(loc, FindErrorLocator(CalcForneySyndromes(synd)).raw)
               v == CorrectErrata(synd, search.c_pos, received)
               out == Outcome(search.loc, search.c_pos)
    <3>2. /\ Bounded(search.loc)
          /\ out \in {"success", "failure", "abort"}
          /\ out = "success" => v \in Words /\ 2 * Distance(received, v) <= ecc_length
          /\ 2 * Distance(received, code) <= ecc_length => out = "success" /\ v = code
        BY <1>1, <2>2, ConcludeFacts
    <3>3. /\ ret' = out
          /\ corrected' = IF out = "success" THEN v ELSE <<>>
          /\ eloc' = IF out = "abort" THEN 0 ELSE Len(search.loc)
      <4> HIDE DEF search
      <4>1. Conclude(synd, search)
          BY <3>1 DEF search
      <4> QED BY <4>1 DEF Conclude
    <3>4. BoundedLength(eloc')
      <4> HIDE DEF search
      <4>1. Len(search.loc) \in Nat /\ (search.loc = <<>> => Len(search.loc) = 0)
          BY <3>2, BoundedFacts
      <4>2. BoundedLength(Len(search.loc))
          BY <3>2, <4>1 DEF Bounded, BoundedLength
      <4>3. eloc' = 0 \/ eloc' = Len(search.loc)
          BY <3>3
      <4> QED BY <4>2, <4>3 DEF BoundedLength
    <3> HIDE DEF search, v, out, code
    <3> QED BY <3>2, <3>3, <3>4
  <2> QED BY <1>1, <2>1, <2>2 DEF DecodeWith
<1> HIDE DEF synd, code
<1>6. TypeOK'
  <2>1. corrected' = <<>> \/ corrected' \in [1 .. enc_len -> Symbols]
      BY <1>5 DEF Words
  <2>2. eloc' \in Nat /\ (eloc' = 0 \/ (eloc' - 1) * 2 <= ecc_length)
      BY <1>5 DEF BoundedLength
  <2> QED BY <1>1, <1>5, <2>1, <2>2 DEF IInv, TypeOK
<1>7. OnItsWay'
    BY <1>1, <1>2 DEF OnItsWay
<1>8. CorrectsToHalf'
    BY <1>1, <1>3, <1>5 DEF CorrectsToHalf, code
<1>9. ChangesFew'
    BY <1>1, <1>5 DEF ChangesFew
<1>10. BoundedLength(eloc)'
    BY <1>5 DEF BoundedLength
<1> QED BY <1>6, <1>7, <1>8, <1>9, <1>10 DEF IInv

(* and so after every step. *)
LEMMA NextIInv == IInv /\ [Next]_vars => IInv'
<1> SUFFICES ASSUME IInv, [Next]_vars PROVE IInv'
    OBVIOUS
<1>1. CASE Transmit
    BY <1>1, TransmitIInv
<1>2. CASE DecodeBlock
    BY <1>2, DecodeIInv
<1>3. CASE UNCHANGED vars
    BY <1>3 DEF vars, IInv, TypeOK, BoundedLength, OnItsWay, CorrectsToHalf, ChangesFew
<1> QED BY <1>1, <1>2, <1>3 DEF Next

(* The inductive invariant: the locator held is bounded, the block received is
   a word, and the decoder has kept what the code promises. *)
THEOREM Inductive == Spec => []IInv
<1> QED BY InitIInv, NextIInv, PTL DEF Spec

(* The coder's types, with the bound on the locator that it keeps from one
   block to the next: of any code over any field, for any messages and errors. *)
THEOREM TypeCorrect == Spec => []TypeOK
<1>1. IInv => TypeOK
    BY DEF IInv
<1> QED BY Inductive, <1>1, PTL

(* DecodeBlock() returns the message that was encoded whenever no more symbols
   are wrong than half the redundancy, whatever the coder held before:
   Berlekamp-Massey, root search and Forney are right for every code. *)
THEOREM AlwaysCorrectsToHalf == Spec => []CorrectsToHalf
<1>1. IInv => CorrectsToHalf
    BY DEF IInv
<1> QED BY Inductive, <1>1, PTL

(* A block it takes to be corrected differs from the one received in no more
   symbols than half the redundancy, however many errors there were. *)
THEOREM AlwaysChangesFew == Spec => []ChangesFew
<1>1. IInv => ChangesFew
    BY DEF IInv
<1> QED BY Inductive, <1>1, PTL

(* ERR_EVAL stays inside the memory of a call: the lengths do not add up, but
   no locator is as long as the polynomials were made. *)
THEOREM AlwaysWorkspaceFits == Spec => []WorkspaceFits
<1>1. IInv => WorkspaceFits
  <2> SUFFICES ASSUME IInv PROVE WorkspaceFits
      OBVIOUS
  <2>1. eloc \in Nat /\ (eloc = 0 \/ (eloc - 1) * 2 <= ecc_length)
      BY DEF IInv, BoundedLength
  <2>2. /\ msg_length \in Nat /\ ecc_length \in Nat
        /\ enc_len = msg_length + ecc_length /\ poly_len = 2 * ecc_length
      BY CodeFacts
  <2>3. Workspace = 3 * msg_length + 14 * poly_len
        /\ ErrEvalOffset + eloc = 3 * enc_len + 12 * poly_len + eloc
      BY DEF Workspace, ErrEvalOffset
  <2> HIDE DEF Workspace, ErrEvalOffset, enc_len, poly_len
  <2>4. eloc <= ecc_length
      BY <2>1, <2>2, CodeAssumption
  <2>5. 3 * enc_len + 12 * poly_len + eloc <= 3 * msg_length + 14 * poly_len
      BY <2>1, <2>2, <2>4
  <2> QED BY <2>3, <2>5 DEF WorkspaceFits
<1> QED BY Inductive, <1>1, PTL
==============================================================================
