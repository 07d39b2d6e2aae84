------------------------------ MODULE Filters ------------------------------
(* The filter language: how an expression is cut into words, parsed by       *)
(* recursive descent and matched against a document                          *)
(* (src/core/store/filter).                                                  *)
(*                                                                           *)
(* A field of the input (strings.FieldsSeq) is a sequence of symbols: "(",   *)
(* ")", and whatever stands between two parentheses as one symbol, in upper  *)
(* case where it is a keyword or an operator. A word is such a sequence too. *)
EXTENDS Documents

CONSTANTS
  Numbers,   \* the words that strconv reads as numbers, each with its value
  Objects    \* the documents that filters are matched against

(* A number is one symbol, and none is a parenthesis or an option of SET.    *)
ASSUME NumbersAssumption ==
  \A w \in DOMAIN Numbers :
    /\ \/ Numbers[w] = NaN
       \/ Content(Numbers[w]) \in Int /\ Numbers[w] = Num(Content(Numbers[w]))
    /\ w = <<w[1]>>
    /\ w[1] \notin {"(", ")", "NX", "XX", "VECTOR"}

Denotes(word) == IF word \in DOMAIN Numbers THEN Numbers[word] ELSE Text(word)

(* AtoOperation.                                                             *)
Operator == [EQ |-> "EqualTo", GT |-> "GreaterThan", GTE |-> "GreaterThanOrEqualTo",
             LT |-> "LessThan", LTE |-> "LessThanOrEqualTo", NE |-> "NotEqualTo",
             LIKE |-> "Like"]
IsOperator(word) == Len(word) = 1 /\ word[1] \in DOMAIN Operator
---------------------------------------------------------------------------
(* The words of a field: its leading "(" and its trailing ")" are words of   *)
(* their own.                                                                *)
Leading(s, c) ==
  CHOOSE n \in 0 .. Len(s) : (\A i \in 1 .. n : s[i] = c) /\ (n < Len(s) => s[n + 1] # c)

Words(field) ==
  LET opens == Leading(field, "(")
      rest == SubSeq(field, opens + 1, Len(field))
      closes == Leading(Reverse(rest), ")")
      body == SubSeq(rest, 1, Len(rest) - closes)
  IN  [i \in 1 .. opens |-> <<"(">>]
      \o (IF body = <<>> THEN <<>> ELSE <<body>>)
      \o [i \in 1 .. closes |-> <<")">>]

Tokens(fields) == FlattenSeq([i \in DOMAIN fields |-> Words(fields[i])])
---------------------------------------------------------------------------
(* Match: the order is that of float64, which a text that is not a number    *)
(* has no place in and a NaN has none either; equality is that of the texts. *)
Ordered(a, b) == IsNumber(a) /\ IsNumber(b) /\ NaN \notin {a, b}
Above(a, b) == Ordered(a, b) /\ Rounded(Content(a)) > Rounded(Content(b))
Level(a, b) == Ordered(a, b) /\ Rounded(Content(a)) = Rounded(Content(b))

(* matchText: "*" means anything at the two ends of a pattern and itself     *)
(* inside; a pattern with none may stand anywhere. A number is one symbol.   *)
Symbols(v) == IF Kind(v) = "text" THEN Content(v) ELSE <<v>>
StarAt(pattern, i) == pattern # <<>> /\ pattern[i] = "*"

MatchText(stored, pattern) ==
  LET prefix == StarAt(pattern, 1)
      suffix == StarAt(pattern, Len(pattern))
      left == SubSeq(pattern, Leading(pattern, "*") + 1, Len(pattern))
      inner == SubSeq(left, 1, Len(left) - Leading(Reverse(left), "*"))
  IN  \/ inner = <<>>
      \/ prefix /\ ~suffix /\ IsSuffix(inner, stored)
      \/ suffix /\ ~prefix /\ IsPrefix(inner, stored)
      \/ (prefix <=> suffix) /\ \E i \in 1 .. Len(stored) + 1 :
                                  IsPrefix(inner, SubSeq(stored, i, Len(stored)))

MatchLteStrictly(stored, op, target) ==     \* mutant: LTE is LT
  \/ op = "EqualTo" /\ stored = target
  \/ op = "NotEqualTo" /\ stored # target
  \/ op \in {"GreaterThan", "GreaterThanOrEqualTo"} /\ Above(stored, target)
  \/ op \in {"LessThan", "LessThanOrEqualTo"} /\ Above(target, stored)
  \/ op = "GreaterThanOrEqualTo" /\ Level(stored, target)
  \/ op = "Like" /\ MatchText(Symbols(stored), Symbols(target))

Match(stored, op, target) ==
  \/ op = "EqualTo" /\ stored = target
  \/ op = "NotEqualTo" /\ stored # target
  \/ op \in {"GreaterThan", "GreaterThanOrEqualTo"} /\ Above(stored, target)
  \/ op \in {"LessThan", "LessThanOrEqualTo"} /\ Above(target, stored)
  \/ op \in {"GreaterThanOrEqualTo", "LessThanOrEqualTo"} /\ Level(stored, target)
  \/ op = "Like" /\ MatchText(Symbols(stored), Symbols(target))

(* Cond.Match, and with it the typed filters EQ ... LIKE: a field the        *)
(* document has not matches no operator, "not equal" included.               *)
Names(word) == FlattenSeq([i \in DOMAIN word |-> IF word[i] = "." THEN <<>> ELSE <<word[i]>>])

CondMatches(obj, field, op, value) ==
  LET val == WalkKeys(obj, Names(field))
  IN  val # Absent /\ Match(val, op, Denotes(value))
---------------------------------------------------------------------------
(* The parser. A method is called at a position and returns the filter and   *)
(* the position after it, or an error: a set of one pair, or of none. A      *)
(* filter stands for the objects that it matches (And.Match, Or.Match,       *)
(* Not.Match); <<>> is the word at the end, which next does not go past.     *)
Current(words, p) == IF p <= Len(words) THEN words[p] ELSE <<>>

Cond(field, op, value) == {o \in Objects : CondMatches(o, field, op, value)}
MatchAll(f, g) == f \cap g
MatchAny(f, g) == f \cup g
MatchNot(f) == Objects \ f

Primary(words, calls, p) ==
  IF Current(words, p) = <<"(">>
  THEN {<<f[1], f[2] + 1>> : f \in {g \in calls[<<"or", p + 1>>] : Current(words, g[2]) = <<")">>}}
  ELSE IF p + 2 <= Len(words) /\ IsOperator(words[p + 1])
       THEN {<<Cond(words[p], Operator[words[p + 1][1]], words[p + 2]), p + 3>>}
       ELSE {}

NotLoosely(words, calls, p) ==     \* mutant: NOT takes all that AND joins
  IF Current(words, p) = <<"NOT">>
  THEN {<<MatchNot(f[1]), f[2]>> : f \in calls[<<"and", p + 1>>]}
  ELSE Primary(words, calls, p)

Not(words, calls, p) ==
  IF Current(words, p) = <<"NOT">>
  THEN {<<MatchNot(f[1]), f[2]>> : f \in calls[<<"not", p + 1>>]}
  ELSE Primary(words, calls, p)

(* The loops of And and Or: after a joining word the rest is what the method *)
(* reads from there.                                                         *)
MoreAnd(words, calls, f) ==
  IF Current(words, f[2]) # <<"AND">> THEN {f}
  ELSE {<<MatchAll(f[1], g[1]), g[2]>> : g \in calls[<<"and", f[2] + 1>>]}

And(words, calls, p) == UNION {MoreAnd(words, calls, f) : f \in calls[<<"not", p>>]}

MoreOr(words, calls, f) ==
  IF Current(words, f[2]) # <<"OR">> THEN {f}
  ELSE {<<MatchAny(f[1], g[1]), g[2]>> : g \in calls[<<"or", f[2] + 1>>]}

Or(words, calls, p) == UNION {MoreOr(words, calls, f) : f \in calls[<<"and", p>>]}

Parse(words) ==    \* what the methods return, by method and position
  LET calls[c \in {"or", "and", "not"} \X (1 .. Len(words) + 1)] ==
        CASE c[1] = "or" -> Or(words, calls, c[2])
          [] c[1] = "and" -> And(words, calls, c[2])
          [] c[1] = "not" -> Not(words, calls, c[2])
  IN  calls

(* The filter of an expression, in a set of its own; {} for an error.        *)
AtoFilter(fields) ==
  LET words == Tokens(fields)
  IN  {f[1] : f \in {g \in Parse(words)[<<"or", 1>>] : g[2] = Len(words) + 1}}
---------------------------------------------------------------------------
(* The grammar that the documents give, as the sets of objects that the      *)
(* words from i to just before j may mean: every derivation has its set. A   *)
(* condition is three words, the first neither "(" nor NOT.                  *)
Stretches(words) == {"or", "and", "not"} \X (1 .. Len(words) + 1) \X (1 .. Len(words) + 1)

NotMeans(words, means, i, j) ==
  CASE words[i] = <<"NOT">> -> {Objects \ f : f \in means[<<"not", i + 1, j>>]}
    [] words[i] = <<"(">> -> IF words[j - 1] = <<")">> THEN means[<<"or", i + 1, j - 1>>] ELSE {}
    [] j = i + 3 /\ words[i] \notin {<<"(">>, <<"NOT">>} /\ IsOperator(words[i + 1]) ->
         {{o \in Objects : CondMatches(o, words[i], Operator[words[i + 1][1]], words[i + 2])}}
    [] OTHER -> {}

AndMeans(words, means, i, j) ==
  means[<<"not", i, j>>] \cup
  UNION {{f \cap g : f \in means[<<"not", i, k>>], g \in means[<<"and", k + 1, j>>]} :
         k \in {l \in i + 1 .. j - 1 : words[l] = <<"AND">>}}

OrMeans(words, means, i, j) ==
  means[<<"and", i, j>>] \cup
  UNION {{f \cup g : f \in means[<<"and", i, k>>], g \in means[<<"or", k + 1, j>>]} :
         k \in {l \in i + 1 .. j - 1 : words[l] = <<"OR">>}}

Grammar(words) ==
  LET means[s \in Stretches(words)] ==
        CASE s[1] = "or" /\ s[2] < s[3] -> OrMeans(words, means, s[2], s[3])
          [] s[1] = "and" /\ s[2] < s[3] -> AndMeans(words, means, s[2], s[3])
          [] s[1] = "not" /\ s[2] < s[3] -> NotMeans(words, means, s[2], s[3])
          [] OTHER -> {}
  IN  means

Meanings(fields) == LET words == Tokens(fields) IN Grammar(words)[<<"or", 1, Len(words) + 1>>]
============================================================================
