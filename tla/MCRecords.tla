----------------------------- MODULE MCRecords -----------------------------
(* Instances of Records for TLC: fields a and b, an array under b, a number  *)
(* below and one above what a float64 holds exactly.                         *)
EXTENDS Walks, TLC

CONSTANT k1

OneKey == {k1}

Small == Num(1)
Wide == Num(5)
Doc == [a |-> Small, b |-> Arr("0" :> Wide @@ "1" :> Small)]

SomeTexts == {Obj(Doc), Arr("0" :> Small), Wide}
VectorTexts == {Obj([a |-> Small])}
SomePaths == {<<"b", "0">>, <<"b", "1">>, <<"a", "c">>}
MorePaths == {<<"a">>, <<"b">>, <<"b", "2">>, <<"b", "0", "c">>, <<"c", "d", "e">>}
SomeOperands == {Wide, NaN}
One == {1}
============================================================================
