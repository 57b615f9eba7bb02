----------------------------- MODULE MCMessage -----------------------------
(* TLC instance of Message: one value per scalar type, strings of zero to  *)
(* two pieces, two kinds of uninitialised memory.                          *)
EXTENDS Message, TLC

CONSTANTS i1, f1, g1, F1, F2, t1

MCFloatToInt == f1 :> i1
MCIntToFloat == i1 :> f1
MCStrings == {<<>>, <<t1>>, <<F1>>, <<F1, t1>>, <<F1, F2>>}
MCJunk == {DataItem("s", F2, 1)}

\* The shapes the engine itself passes, "f" for onUpdate, "si" for onAction and
\* "g" for onCollide, and strings before and after a float or an empty string.
Arg(t, v) == [type |-> t, val |-> v]
MCCreateArgs == {<<Arg("f", f1)>>,
                 <<Arg("s", <<F1, t1>>), Arg("i", i1)>>,
                 <<Arg("g", g1), Arg("s", <<F1, F2>>)>>,
                 <<Arg("f", f1), Arg("s", <<F1, F2>>)>>,
                 <<Arg("f", f1), Arg("s", <<F1, F2>>), Arg("s", <<t1>>)>>,
                 <<Arg("s", <<>>), Arg("s", <<F1, F2>>)>>}

=============================================================================
