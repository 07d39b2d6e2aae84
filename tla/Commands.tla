------------------------------ MODULE Commands -----------------------------
(* The command interpreter: what a line typed at the prompt calls            *)
(* (src/core/store/exec.go), word by word as it is typed.                    *)
(*                                                                           *)
(* A word is a sequence of symbols: ".", or what stands between two dots.    *)
(* A call is the name of the operation, the key, the path below it and the   *)
(* other arguments.                                                          *)
EXTENDS Filters

CONSTANTS
  Kinds,        \* what is being typed: a "filter", the arguments of "set" or of
                \* "vsearch", a "key"
  Alphabet,     \* the pieces it is typed from, by kind
  MaxPieces     \* bound: pieces typed, by kind

(* A piece is words or, of a key, symbols.                                   *)
ASSUME AlphabetAssumption ==
  \A k \in Kinds : \A piece \in Alphabet[k] :
    /\ piece \in Seq(Range(piece))
    /\ k # "key" => \A word \in Range(piece) : word \in Seq(Range(word)) /\ word # <<>>

VARIABLES kind, line, left    \* left: how many pieces may still be typed

vars == <<kind, line, left>>

Refused == <<"refused">>      \* a usage message or an error

IsInt(word) == word \in DOMAIN Numbers /\ Numbers[word] # NaN
IntOf(word) == Content(Numbers[word])
Positive(word) == IsInt(word) /\ IntOf(word) > 0
---------------------------------------------------------------------------
(* The key and the path that a word names.                                   *)
SplitKeyCutsLast(word) ==        \* mutant: the key ends at the last dot
  LET dots == {i \in DOMAIN word : word[i] = "."}
  IN  IF dots = {} THEN <<word, <<>>>>
      ELSE LET cut == CHOOSE i \in dots : \A j \in dots : j <= i
           IN  <<SubSeq(word, 1, cut - 1),
                 Names(SubSeq(word, cut + 1, Len(word)))>>

SplitKey(word) ==
  LET dots == {i \in DOMAIN word : word[i] = "."}
  IN  IF dots = {} THEN <<word, <<>>>>
      ELSE LET cut == CHOOSE i \in dots : \A j \in dots : i <= j
           IN  <<SubSeq(word, 1, cut - 1),
                 Names(SubSeq(word, cut + 1, Len(word)))>>

(* parseSetArgs peels VECTOR, then seconds, then NX or XX off the end, and   *)
(* leaves at least one word: <<value, flag, seconds (0: none), vector>>.     *)
Peel(args, taken) == IF taken THEN Front(args) ELSE args

ParseSetArgsSwapped(args) ==     \* mutant: the flag is peeled before the seconds
  LET vector == Len(args) >= 2 /\ Last(args) = <<"VECTOR">>
      a == Peel(args, vector)
      flagged == Len(a) >= 2 /\ Last(a) \in {<<"NX">>, <<"XX">>}
      b == Peel(a, flagged)
      timed == Len(b) >= 2 /\ Positive(Last(b))
  IN  <<Peel(b, timed), IF flagged THEN Last(a)[1] ELSE "", IF timed THEN IntOf(Last(b)) ELSE 0, vector>>

ParseSetArgs(args) ==
  LET vector == Len(args) >= 2 /\ Last(args) = <<"VECTOR">>
      a == Peel(args, vector)
      timed == Len(a) >= 2 /\ Positive(Last(a))
      b == Peel(a, timed)
      flagged == Len(b) >= 2 /\ Last(b) \in {<<"NX">>, <<"XX">>}
  IN  <<Peel(b, flagged), IF flagged THEN Last(b)[1] ELSE "", IF timed THEN IntOf(Last(a)) ELSE 0, vector>>

(* parseLimit and extractLimitFromInfix: <<the words left, limit (0: none)>>. *)
EndsWith(args, word) == Len(args) >= 2 /\ args[Len(args) - 1] = word

LimitedByNumber(args) ==         \* mutant: the word LIMIT is not looked for
  Len(args) >= 2 /\ Positive(Last(args))

Limited(args) == EndsWith(args, <<"LIMIT">>) /\ Positive(Last(args))

ParseLimit(args) ==
  IF Limited(args) THEN <<SubSeq(args, 1, Len(args) - 2), IntOf(Last(args))>> ELSE <<args, 0>>

(* parseVSearchArgs: <<text, pattern (<<>>: none), limit>>. An option that   *)
(* is read later, further left, replaces one of its kind that was read       *)
(* before. The loop ends when there is none to peel.                         *)
PeelVSearch(peeled) ==
  LET args == peeled[1]
  IN  CASE Limited(args) -> <<ParseLimit(args)[1], peeled[2], IntOf(Last(args))>>
        [] EndsWith(args, <<"MATCH">>) ->
             <<SubSeq(args, 1, Len(args) - 2), Last(args), peeled[3]>>
        [] OTHER -> peeled

ParseVSearchArgsOnce(args) == PeelVSearch(PeelVSearch(<<args, <<>>, 0>>))   \* mutant: no loop

ParseVSearchArgs(args) ==
  LET peeled[n \in 0 .. Len(args)] ==
        IF n = 0 THEN <<args, <<>>, 0>> ELSE PeelVSearch(peeled[n - 1])
  IN  peeled[Len(args)]
---------------------------------------------------------------------------
(* Exec: the commands that search and select, and those on a key or a field, *)
(* with the number of arguments each takes. SET, DEL and the commands        *)
(* without a field take the word itself for the key.                         *)
ExecSearch(cmd, args) ==
  LET n == Len(args)
      search == ParseVSearchArgs(args)
  IN  CASE cmd = "FIND" /\ n >= 2 /\ IsOperator(args[1]) ->
             <<"Find", Operator[args[1][1]], <<>>, ParseLimit(Tail(args))>>
        [] cmd = "QUERY" /\ AtoFilter(ParseLimit(args)[1]) # {} ->
             <<"Query", AtoFilter(ParseLimit(args)[1]), <<>>, ParseLimit(args)[2]>>
        [] cmd = "VSEARCH" /\ search[1] # <<>> -> <<"VSearch", <<>>, <<>>, search>>
        [] cmd = "VSIM" /\ n = 2 -> <<"VSim", args[1], <<>>, args[2]>>
        [] cmd = "SELECT" /\ n = 1 /\ IsInt(args[1]) /\ IntOf(args[1]) \in 0 .. 15 ->
             <<"Select", IntOf(args[1]), <<>>, <<>>>>
        [] OTHER -> Refused

OnField == [GET |-> <<"Get", "GetField">>, EXIST |-> <<"Exist", "ExistField">>,
            TYPE |-> <<"Type", "TypeField">>, INCR |-> <<"Incr", "IncrField">>]

OnKey == [TTL |-> "TTL", PERSIST |-> "Persist", KEYS |-> "Keys", VGET |-> "VGet"]

Exec(cmd, args) ==
  LET n == Len(args)
      place == SplitKey(args[1])
      below == place[2] # <<>>
      set == ParseSetArgs(Tail(args))
      delta == IF n = 2 THEN Numbers[args[2]] ELSE Num(1)
  IN  CASE n = 0 -> Refused
        [] cmd \in {"GET", "EXIST", "TYPE"} /\ n = 1 ->
             <<OnField[cmd][IF below THEN 2 ELSE 1], place[1], place[2], <<>>>>
        [] cmd = "INCR" /\ n \in {1, 2} /\ (n = 2 => args[2] \in DOMAIN Numbers) ->
             <<OnField[cmd][IF below THEN 2 ELSE 1], place[1], place[2], delta>>
        [] cmd = "SET" /\ n >= 2 /\ below ->
             IF set[4] THEN Refused ELSE <<"SetField", place[1], place[2], set>>
        [] cmd = "SET" /\ n >= 2 /\ ~below ->
             <<IF set[4] THEN "SetVector" ELSE "Set", args[1], <<>>, set>>
        [] cmd = "DEL" /\ n = 1 /\ below -> <<"DelField", place[1], place[2], <<>>>>
        [] cmd = "DEL" /\ (n > 1 \/ ~below) -> <<"Del", args[1], <<>>, Tail(args)>>
        [] cmd \in DOMAIN OnKey /\ n = 1 -> <<OnKey[cmd], args[1], <<>>, <<>>>>
        [] cmd = "EXPIRE" /\ n = 2 /\ Positive(args[2]) -> <<"Expire", args[1], <<>>, IntOf(args[2])>>
        [] cmd = "EXPIREAT" /\ n = 2 /\ IsInt(args[2]) -> <<"ExpireAt", args[1], <<>>, IntOf(args[2])>>
        [] OTHER -> ExecSearch(cmd, args)
---------------------------------------------------------------------------
Init == kind \in Kinds /\ line = <<>> /\ left = MaxPieces[kind]

Type(piece) == left > 0 /\ left' = left - 1 /\ line' = line \o piece /\ UNCHANGED kind

Next == \E piece \in Alphabet[kind] : Type(piece)

Spec == Init /\ [][Next]_vars
---------------------------------------------------------------------------
(* The parser accepts the expressions of the grammar and no others, and the  *)
(* filter it makes matches the objects that the expression means: OR joins   *)
(* what AND joins, AND what NOT negates, and parentheses, glued to words or  *)
(* not, come first. The grammar gives no expression two meanings.            *)
FiltersMeanGrammar ==
  kind = "filter" =>
    LET filter == AtoFilter(line)
    IN  filter = Meanings(line) /\ \A f, g \in filter : f = g

(* The limit is never taken out of an expression: QUERY reads one that is    *)
(* complete as it stands without a limit, and with LIMIT and a number after  *)
(* it as the same expression with that limit.                                *)
LimitKeepsExpression ==
  kind = "filter" =>
    LET filter == AtoFilter(line)
    IN  filter # {} =>
          /\ Exec("QUERY", line) = <<"Query", filter, <<>>, 0>>
          /\ \A w \in DOMAIN Numbers : Positive(w) =>
               Exec("QUERY", line \o <<<<"LIMIT">>, w>>) = <<"Query", filter, <<>>, IntOf(w)>>

(* Two texts that are numbers stand in one of the three orders that filters  *)
(* can tell, unless one is a NaN; ">=" and "<=" are ">" or "<" or that both  *)
(* hold, which two different texts may. Nothing else has an order.           *)
ComparisonsAgree ==
  (kind = "compare" /\ Len(line) = 2) =>
    LET a == Denotes(line[1])
        b == Denotes(line[2])
        Is(op) == Match(a, op, b)
        both == Is("GreaterThanOrEqualTo") /\ Is("LessThanOrEqualTo")
    IN  /\ ~(Is("GreaterThan") /\ Is("LessThan"))
        /\ Is("GreaterThanOrEqualTo") <=> Is("GreaterThan") \/ both
        /\ Is("LessThanOrEqualTo") <=> Is("LessThan") \/ both
        /\ Ordered(a, b) <=> Is("GreaterThan") \/ Is("LessThan") \/ both
        /\ Is("EqualTo") /\ IsNumber(a) /\ a # NaN => both
        /\ Is("NotEqualTo") <=> ~Is("EqualTo")

(* doc.md: SET <key> <value> [NX|XX] [seconds] [VECTOR]. Of the ways to read *)
(* what follows the key like this, Exec takes the one with the most options, *)
(* and never leaves the value without a word.                                *)
SetReadings(args) ==
  {r \in {SubSeq(args, 1, n) : n \in 1 .. Len(args)} \X {"", "NX", "XX"}
         \X ({0} \cup {IntOf(w) : w \in {v \in Range(args) : Positive(v)}}) \X BOOLEAN :
     \E sec \in {<<>>} \cup {<<w>> : w \in Range(args)} :
       /\ IF sec = <<>> THEN r[3] = 0 ELSE Positive(sec[1]) /\ IntOf(sec[1]) = r[3]
       /\ args = r[1] \o (IF r[2] = "" THEN <<>> ELSE <<<<r[2]>>>>) \o sec
                 \o (IF r[4] THEN <<<<"VECTOR">>>> ELSE <<>>)}

SetWordsRead ==
  (kind = "set" /\ line # <<>>) =>
    LET read == ParseSetArgs(line)
    IN  /\ read \in SetReadings(line)
        /\ \A r \in SetReadings(line) : Len(read[1]) <= Len(r[1])

(* VSEARCH <text> [MATCH <pattern>] [LIMIT <n>]: the two options may come in *)
(* either order and again. Exec reads as many as there are, and of two of a  *)
(* kind it keeps the first.                                                  *)
Options(args, n) ==    \* the options after n words
  {<<args[n + 2 * i - 1], args[n + 2 * i], i>> : i \in 1 .. (Len(args) - n) \div 2}
IsSearchOption(o) == o[1] = <<"MATCH">> \/ (o[1] = <<"LIMIT">> /\ Positive(o[2]))
FirstOf(options, word) ==
  LET some == {o \in options : o[1] = word}
  IN  IF some = {} THEN <<>> ELSE (CHOOSE o \in some : \A p \in some : o[3] <= p[3])[2]

SearchWordsRead ==
  kind = "vsearch" =>
    LET starts == {n \in 0 .. Len(line) : (Len(line) - n) % 2 = 0
                                          /\ \A o \in Options(line, n) : IsSearchOption(o)}
        n == CHOOSE i \in starts : \A j \in starts : i <= j
        limit == FirstOf(Options(line, n), <<"LIMIT">>)
    IN  ParseVSearchArgs(line) =
          <<SubSeq(line, 1, n), FirstOf(Options(line, n), <<"MATCH">>),
            IF limit = <<>> THEN 0 ELSE IntOf(limit)>>

(* The same word means the same key or field to SET, GET, EXIST, TYPE, INCR  *)
(* and DEL, so that what one of them writes another reads, removes or adds   *)
(* to. The exception is a word with a dot and no name after it: SET and DEL  *)
(* take the dot for a part of the key, the others do not (exec.go:71, :352). *)
NamesField(word) == \E i, j \in DOMAIN word : i < j /\ word[i] = "." /\ word[j] # "."

OneTarget ==
  (kind = "key" /\ line # <<>> /\ ("." \in Range(line) => NamesField(line))) =>
    LET Target(cmd, more) == SubSeq(Exec(cmd, <<line>> \o more), 2, 3)
        cut == CHOOSE i \in 0 .. Len(line) :
                 /\ i < Len(line) => line[i + 1] = "."
                 /\ \A j \in 1 .. i : line[j] # "."
    IN  /\ \A cmd \in {"GET", "EXIST", "TYPE", "INCR", "DEL"} : Target(cmd, <<>>) = Target("SET", <<<<"v">>>>)
        /\ Target("GET", <<>>) = <<SubSeq(line, 1, cut),
                                   Names(SubSeq(line, cut + 1, Len(line)))>>
============================================================================
