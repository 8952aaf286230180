------------------------------- MODULE MCText -------------------------------
(* Printing and ParseIp, each by itself. *)
EXTENDS Printing, ParseIp

textVars == <<printVars, parseVars>>

Numerics == [verb : {"d", "o", "x"}, type : {"int", "long", "vlong"}, unsigned : BOOLEAN,
            arg : {-16, -1, 0, 5}, size : {0, 4, -4}]
Strings == [verb : {"s"}, type : {"int"}, unsigned : {FALSE},
            arg : {<<"a">>, <<"a", "b", "c">>}, size : {0, 5, -5}]
Unknown == [verb : {"other"}, type : {"int"}, unsigned : {FALSE}, arg : {<< >>}, size : {0, 8}]
MCItems == Numerics \cup Strings \cup Unknown

Comp(kind, wraps, X) == {[kind |-> kind, wraps |-> wraps, x |-> x] : x \in X}
MCComponents == Comp("number", FALSE, {-1, 0, 1, 128, 192, 255, 256})
                \cup Comp("number", TRUE, {1}) \cup Comp("empty", FALSE, {0})
                \cup Comp("other", FALSE, {0})
MCHosts == {<<9, 9, 9, 9>>, Unset}

Init == PrintInit /\ ParseInit

\* The first step decides which of the two is looked at.
Next ==
  \/ name = << >> /\ ip = Unset /\ PrintNext /\ UNCHANGED parseVars
  \/ items = << >> /\ ~done /\ ParseNext /\ UNCHANGED printVars

Spec == Init /\ [][Next]_textVars
=============================================================================
