------------------------------- MODULE MCText -------------------------------
(* Short format texts, texts of two and three directives, and arguments of     *)
(* different length in each base; strings over two characters.                 *)
EXTENDS CString

Letters == {"a", "%", "d", "x", "b", "o", "s", "c"}
Pairs == {<<"%", x, "%", y>> : x, y \in Letters}
Triples == {<<"%", x, "%", y, "%", z>> : x, y, z \in {"d", "b", "s", "c"}}
ShortTexts == UNION {[1 .. n -> Letters] : n \in 0 .. 3} \cup Pairs \cup Triples
SomeArgs == {[num |-> 0, char |-> "a", chars |-> <<"%", "d">>],
             [num |-> 10, char |-> "%", chars |-> <<"c">>],
             [num |-> 209, char |-> "b", chars |-> <<>>]}
ShortStrings == UNION {[1 .. n -> {97, 98}] : n \in 0 .. 4}
=============================================================================
