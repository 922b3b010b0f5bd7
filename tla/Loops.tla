--------------------------------- MODULE Loops ---------------------------------
(***************************************************************************)
(* How the modules that follow an algorithm of the code statement by       *)
(* statement write a loop of it, and an array it fills.                    *)
(***************************************************************************)
EXTENDS Integers, Sequences

(* The statements f[1], ..., f[n], each a function of the value that the one
   before it leaves, executed on e. *)
Iterates(f, e) == LET r[i \in Nat] == IF i = 0 THEN e ELSE f[i][r[i - 1]] IN r
Loop(f, e, n) == Iterates(f, e)[n]

(* p, computed element by element now and not at each use. *)
Tabulated(p) == p \o <<>>
==============================================================================
