---- MODULE MCPrograms ----
(* A directory with the three utilities, the clock and one text file. *)
EXTENDS Programs
MCText == [fname |-> <<"f", "g">>, type |-> "2"]
MCDirectory == <<[fname |-> <<".">>, type |-> "1"], [fname |-> <<"r">>, type |-> NUL],
                 [fname |-> <<"l">>, type |-> "2"], [fname |-> <<"c">>, type |-> "2"], MCText,
                 [fname |-> <<"g">>, type |-> "2"]>>
MCExecutable == [n \in {<<"l">>, <<"c">>, <<"g">>} |->
                    CASE n = <<"l">> -> "ls" [] n = <<"c">> -> "cat" [] n = <<"g">> -> "grep"]
MCLines == {<< >>, <<"l">>, <<" ", "l">>, <<"x", " ", "a", "a", "a">>, EXIT,
            <<"c", " ", "f", "g">>, <<"c", " ", "f">>, <<"c">>,
            <<"g", " ", " ", "a">>, <<"g", " ", "b", "a">>, <<"g", " ", "a", "a", "b">>}
MCChars == {"a", "b", NL}
MCStale == {NUL, "a"}
====
