----------------------------- MODULE MCAccounts -----------------------------
(* A small instance of Accounts for TLC: integers of 8 and 4 bits; buffers *)
(* that take 7 and 17 characters, and lists of 0, 14, 17, 18 and 23.       *)
EXTENDS Accounts

MCLength == [c \in {"a", "b", "c", "d", "mid", "long"} |->
                CASE c = "mid" -> 6 [] c = "long" -> 8 [] OTHER -> 5]

MCBuilds == {<<>>, <<"a", "long">>, <<"a", "b", "c">>, <<"a", "b", "mid">>,
             <<"a", "b", "c", "d">>}

MCJints == {-128, 127}
=============================================================================
