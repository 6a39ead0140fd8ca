----------------------------- MODULE MCBinlogReader -----------------------------
(* Instances of BinlogReader for TLC. *)
EXTENDS BinlogReader

\* Two tables of different names.
TwoNames == [t \in Tables |-> t]

\* Two versions of the one table.
OneName == [t \in Tables |-> CHOOSE n \in Names : TRUE]

Ev(kind, n) == [kind |-> kind, name |-> n]

Mixed ==
    LET n == CHOOSE x \in Names : TRUE
        o == CHOOSE x \in Names : x # n
    IN  {<<Ev("update", n), Ev("insert", o)>>, <<Ev("alter", n)>>}

OneInsert == {<<Ev("insert", n)>> : n \in Names}

AlterOrInsert == {<<Ev(k, n)>> : k \in {"alter", "insert"}, n \in Names}
=============================================================================
