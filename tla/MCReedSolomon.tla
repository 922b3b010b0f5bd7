---------------------------- MODULE MCReedSolomon ----------------------------
(* ReedSolomon on the field of 16 elements: blocks of 4 message symbols and  *)
(* 4 of redundancy, and errors in none to three of them.                    *)
EXTENDS ReedSolomon, Bytes, FieldTables

MCExpTable == <<1, 2, 4, 8, 3, 6, 12, 11, 5, 10, 7, 14, 15, 13, 9,
                1, 2, 4, 8, 3, 6, 12, 11, 5, 10, 7, 14, 15, 13, 9, 1>>
MCLogTable == <<0, 0, 1, 4, 2, 8, 5, 10, 3, 14, 9, 7, 6, 13, 11, 12>>

MCMessages == {<<0, 0, 0, 0>>, <<3, 0, 12, 7>>}

Noise(S) == [i \in 1 .. 8 |-> IF \E s \in S : s[1] = i
                              THEN (CHOOSE s \in S : s[1] = i)[2] ELSE 0]
MCErrors == {Noise({})}
    \cup {Noise({<<i, v>>}) : i \in 1 .. 8, v \in {1, 9}}
    \cup {Noise({<<i, 1>>, <<j, 6>>}) : i \in 1 .. 8, j \in 2 .. 7}
    \cup {Noise({<<i, 1>>, <<j, 5>>, <<k, 6>>}) : i \in {1, 4}, j \in {2, 5, 7}, k \in {3, 6, 8}}
    \cup {Noise({<<1, 1>>, <<5, 1>>, <<7, 5>>})}

------------------------------------------------------------------------------
(* The field of the code: its tables are those of a field generated by 2.    *)
CodeField == INSTANCE GaloisField
    WITH Order <- FieldOrder, ExpTable <- CodeExpTable, LogTable <- CodeLogTable, Add <- xor

ASSUME CodeTables ==
    /\ \A x \in 1 .. FieldOrder : /\ CodeField!log(x) \in 0 .. FieldOrder - 1
                                  /\ CodeField!exp(CodeField!log(x)) = x
    /\ \A i \in 0 .. 2 * FieldOrder : /\ CodeField!exp(i) \in 1 .. FieldOrder
                                      /\ CodeField!log(CodeField!exp(i)) = i % FieldOrder
    /\ CodeField!exp(0) = 1 /\ CodeField!exp(1) = 2 /\ CodeField!log(0) = 0
==============================================================================
