---------------------------- MODULE MCCommands -----------------------------
(* Instances of Commands for TLC.                                            *)
EXTENDS Commands

AllKinds == {"filter", "compare", "set", "vsearch", "key"}

Words1(symbols) == {<<<<s>>>> : s \in symbols}

(* Two conditions with their fields in one piece, free of and glued to       *)
(* parentheses, a word too many, and the keywords.                           *)
FilterPieces ==
  { <<<<"a">>, <<"EQ">>, <<"1">>>>, <<<<"b">>, <<"EQ">>, <<"1">>>>,
    <<<<"(", "a">>, <<"EQ">>, <<"1">>>>, <<<<"b">>, <<"EQ">>, <<"1", ")">>>>,
    <<<<"(">>>>, <<<<")">>>>, <<<<"AND">>>>, <<<<"OR">>>>, <<<<"NOT">>>>,
    <<<<"LIMIT">>, <<"7">>>> }

SomePieces ==
  [filter |-> FilterPieces,
   compare |-> Words1({"1", "4", "5", "nan", "v"}),
   set |-> Words1({"v", "NX", "XX", "7", "0", "VECTOR"}),
   vsearch |-> Words1({"v", "MATCH", "LIMIT", "7", "0"}),
   key |-> {<<"a">>, <<".">>, <<".", "b">>}]

SomeLengths == [filter |-> 5, compare |-> 2, set |-> 5, vsearch |-> 6, key |-> 4]

SomeNumbers ==
  [w \in {<<"0">>, <<"1">>, <<"4">>, <<"5">>, <<"7">>, <<"nan">>} |->
     CASE w = <<"0">> -> Num(0) [] w = <<"1">> -> Num(1) [] w = <<"4">> -> Num(4)
       [] w = <<"5">> -> Num(5) [] w = <<"7">> -> Num(7) [] w = <<"nan">> -> NaN]

(* A document for every way the two conditions can hold.                     *)
SomeObjects == {Obj(<<>>), Obj([a |-> Num(1)]), Obj([b |-> Num(1)]),
                Obj([a |-> Num(1), b |-> Num(1)]), Obj([a |-> Num(4), b |-> Num(4)])}
============================================================================
