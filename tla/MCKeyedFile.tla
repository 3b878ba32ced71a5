---------------------------- MODULE MCKeyedFile ----------------------------
(* Small instances of KeyedFile for TLC.                                    *)
EXTENDS KeyedFile

(* The first alternate key has duplicates, the second has not.              *)
DupThenUnique == <<TRUE, FALSE>>

R(k, a, b) == [key |-> k, alt |-> <<a, b>>]

(* The second alternate is the record's own value or that of record 1.      *)
SomeRecords == {R(1, 1, 1)} \cup {R(k, a, b) : k \in 2 .. 3, a \in 1 .. 2, b \in {1}}
               \cup {R(k, a, k) : k \in 2 .. 3, a \in 1 .. 2}

SomeAddresses == {<<0, 2>>, <<1, 1>>}

SomeStarts == {<<"ge", 0, 2>>, <<"le", 0, 2>>, <<"eq", 1, 1>>, <<"gt", 1, 1>>, <<"lt", 2, 3>>}

SomeFiles == {<<R(1, 1, 1), R(3, 1, 3)>>, <<R(3, 1, 3), R(1, 1, 1), R(2, 1, 2)>>}
=============================================================================
