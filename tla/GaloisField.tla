---------------------------- MODULE GaloisField ----------------------------
(***************************************************************************)
(* Namespace gf of RS-FEC.h: the arithmetic of a finite field by its exp   *)
(* and log tables, and polynomials over it, sequences of symbols with the  *)
(* leading coefficient first.                                              *)
(*                                                                         *)
(* The field is a parameter: Order is the 255 of the code, and Add its     *)
(* exclusive or.  What is assumed of them is what makes the tables those   *)
(* of a field in which 2 is a generator.                                   *)
(***************************************************************************)
EXTENDS Loops

CONSTANTS
    Order,        \* number of non-zero field elements
    ExpTable,     \* powers of the generator 2, twice round
    LogTable,     \* their exponents, log(0) being 0
    Add(_, _)     \* add() and sub()

Symbols == 0 .. Order
Polys == Seq(Symbols)

Zeros(n) == [i \in 1 .. n |-> 0]

------------------------------------------------------------------------------
(* The field, by its tables.                                                *)
exp(i) == ExpTable[i + 1]
log(x) == LogTable[x + 1]

mul(x, y) == IF x = 0 \/ y = 0 THEN 0 ELSE exp(log(x) + log(y))
div(x, y) == IF x = 0 THEN 0 ELSE exp((log(x) + Order - log(y)) % Order)
pow(x, power) == exp((log(x) * power) % Order)
inverse(x) == exp(Order - log(x))

ASSUME TableAssumption ==
    /\ Order \in Nat /\ Order > 1
    /\ \A x \in 1 .. Order : log(x) \in 0 .. Order - 1 /\ exp(log(x)) = x
    /\ \A i \in 0 .. 2 * Order : exp(i) \in 1 .. Order /\ log(exp(i)) = i % Order
    /\ exp(0) = 1 /\ exp(1) = 2 /\ log(0) = 0

ASSUME AddAssumption ==
    /\ \A x, y \in Symbols : Add(x, y) \in Symbols /\ Add(x, y) = Add(y, x)
    /\ \A x, y, z \in Symbols : Add(x, Add(y, z)) = Add(Add(x, y), z)
    /\ \A x \in Symbols : Add(x, 0) = x /\ Add(x, x) = 0
    /\ \A x, y \in Symbols : mul(2, Add(x, y)) = Add(mul(2, x), mul(2, y))

------------------------------------------------------------------------------
(* Polynomials.                                                             *)
poly_max(a, b) == IF a > b THEN a ELSE b

(* What stands before the j-th power of the variable. *)
Coefficient(p, j) == IF j < Len(p) THEN p[Len(p) - j] ELSE 0

poly_scale(p, x) == Tabulated([i \in 1 .. Len(p) |-> mul(p[i], x)])

poly_add(p, q) ==
    LET n == poly_max(Len(p), Len(q))
    IN  Tabulated([i \in 1 .. n |-> Add(Coefficient(p, n - i), Coefficient(q, n - i))])

(* A row of the outer product for each coefficient of q. *)
poly_mul(p, q) ==
    Loop([j \in 1 .. Len(q) |-> [r \in Polys |->
             poly_add(r, poly_scale(p, q[j]) \o Zeros(Len(q) - j))]],
         Zeros(Len(p) + Len(q) - 1), Len(q))

(* Synthetic division by a q that begins with 1, coefficient after coefficient;
   the remainder is left at the end. *)
Reduced(p, q, steps) ==
    Loop([i \in 1 .. steps |-> [r \in Polys |->
             poly_add(r, poly_scale(Tail(q), r[i])
                             \o Zeros(Len(p) - Len(q) + 1 - i))]],
         p, steps)
poly_div(p, q) ==
    LET sep == Len(p) - (Len(q) - 1)
    IN  SubSeq(Reduced(p, q, sep), sep + 1, Len(p))

poly_eval(p, x) ==
    Loop([i \in 1 .. Len(p) - 1 |-> [y \in Symbols |-> Add(mul(y, x), p[i + 1])]],
         p[1], Len(p) - 1)
==============================================================================
