--------------------------- MODULE CommandsProofs ---------------------------
(* Proofs about Commands and Filters, for lines of any length made of any    *)
(* pieces: every line is typed; an expression means what the grammar says of *)
(* it; comparisons agree with each other; SET, LIMIT and VSEARCH read their  *)
(* words as documented; and a word names one target.                         *)
(* Nothing here depends on how a line came to be typed: each property is one *)
(* of all sequences of words, and Spec is only needed for what a line is     *)
(* made of. The parser and the grammar are recursive functions. Lemma        *)
(* Recursion says that such a definition has a solution, StrongInduction     *)
(* that what holds of a value when it holds of all before it holds of every  *)
(* one.                                                                      *)
EXTENDS Commands, SequenceTheorems, WellFoundedInduction, TLAPS

---------------------------------------------------------------------------
(* Induction, for the set of the numbers of which a formula holds.           *)
LEMMA StrongInduction ==
  ASSUME NEW S \in SUBSET Nat,
         \A n \in Nat : (\A k \in Nat : k < n => k \in S) => n \in S
  PROVE  \A n \in Nat : n \in S
<1>1. SUFFICES ASSUME Nat \ S # {}
               PROVE  FALSE
  OBVIOUS
<1>2. PICK n \in Nat \ S : \A k \in Nat \ S : ~(<<k, n>> \in OpToRel(<, Nat))
  BY <1>1, NatLessThanWellFounded, WFMin
<1>3. ASSUME NEW k \in Nat, k < n
      PROVE  k \in S
  <2>1. <<k, n>> \in Nat \X Nat /\ <<k, n>>[1] < <<k, n>>[2]
    BY <1>3
  <2> QED BY <1>2, <2>1 DEF OpToRel
<1> QED BY <1>2, <1>3

LEMMA Induction ==
  ASSUME NEW S \in SUBSET Nat, 0 \in S, \A n \in Nat : n \in S => n + 1 \in S
  PROVE  \A n \in Nat : n \in S
<1>1. ASSUME NEW n \in Nat, \A k \in Nat : k < n => k \in S
      PROVE  n \in S
  <2>1. CASE n = 0
    BY <2>1
  <2>2. CASE n # 0
    <3>1. n - 1 \in Nat /\ n - 1 < n /\ (n - 1) + 1 = n
      BY <2>2
    <3> QED BY <3>1, <1>1
  <2> QED BY <2>1, <2>2
<1> QED BY <1>1, StrongInduction

(* A recursive definition has a solution: each value depends on those at     *)
(* places of lower rank, and is of a type of its own.                        *)
Recursive(S, T, R, N, rank, G) ==
  /\ N \in Nat /\ rank \in [S -> 0 .. N]
  /\ \A x \in S : R[x] \subseteq T /\ R[x] # {}
  /\ \A f \in [S -> T] : (\A x \in S : f[x] \in R[x]) => \A x \in S : G[f][x] \in R[x]
  /\ \A f, g \in [S -> T] :
       (\A x \in S : f[x] \in R[x]) /\ (\A x \in S : g[x] \in R[x]) =>
         \A x \in S : (\A y \in S : rank[y] < rank[x] => f[y] = g[y]) => G[f][x] = G[g][x]

Solved(S, T, G) == \E f \in [S -> T] : \A x \in S : f[x] = G[f][x]

LEMMA Recursion ==
  ASSUME NEW S, NEW T, NEW R, NEW N, NEW rank, NEW G, Recursive(S, T, R, N, rank, G)
  PROVE  Solved(S, T, G)
<1> USE DEF Recursive
<1> DEFINE Typed == {f \in [S -> T] : \A x \in S : f[x] \in R[x]}
           Upto_(n) == \E f \in Typed : \A x \in S : rank[x] < n => f[x] = G[f][x]
           Good == {n \in Nat : Upto_(n)}
<1>1. 0 \in Good
  <2>1. [x \in S |-> CHOOSE y \in R[x] : TRUE] \in Typed
    OBVIOUS
  <2>2. \A x \in S : ~(rank[x] < 0)
    OBVIOUS
  <2> QED BY <2>1, <2>2
<1>2. ASSUME NEW n \in Nat, n \in Good
      PROVE  n + 1 \in Good
  <2>1. PICK f \in Typed : \A x \in S : rank[x] < n => f[x] = G[f][x]
    BY <1>2
  <2> DEFINE g == [x \in S |-> G[f][x]]
  <2>2. g \in Typed
    OBVIOUS
  <2>3. ASSUME NEW x \in S, rank[x] < n + 1
        PROVE  g[x] = G[g][x]
    <3>1. \A y \in S : rank[y] < rank[x] => f[y] = g[y]
      <4>1. \A y \in S : rank[y] \in Nat /\ rank[x] \in Nat
        OBVIOUS
      <4> QED BY <4>1, <2>1, <2>3
    <3>2. f \in [S -> T] /\ g \in [S -> T]
      BY <2>2
    <3>3. G[f][x] = G[g][x]
      <4> HIDE DEF g
      <4> QED BY <3>1, <3>2, <2>2
    <3> QED BY <3>3
  <2>4. Upto_(n + 1)
    <3> HIDE DEF g, Typed
    <3> QED BY <2>2, <2>3
  <2> QED BY <2>4
<1>3. \A n \in Nat : n \in Good
  <2> HIDE DEF Good
  <2>1. Good \in SUBSET Nat
    BY DEF Good
  <2> QED BY <1>1, <1>2, <2>1, Induction
<1>4. Upto_(N + 1)
  BY <1>3
<1>5. \A x \in S : rank[x] < N + 1
  OBVIOUS
<1> QED BY <1>4, <1>5 DEF Solved
---------------------------------------------------------------------------
(* The parser. Its methods go forward, except that Or begins with And and    *)
(* And with Not.                                                             *)
Calls(words) == {"or", "and", "not"} \X (1 .. Len(words) + 1)

Rank(words, c) ==
  3 * (Len(words) + 1 - c[2]) + (IF c[1] = "or" THEN 2 ELSE IF c[1] = "and" THEN 1 ELSE 0)

Outcomes(words, p) == (SUBSET Objects) \X (p + 1 .. Len(words) + 1)

Called(words, calls, c) ==
  CASE c[1] = "or" -> Or(words, calls, c[2])
    [] c[1] = "and" -> And(words, calls, c[2])
    [] c[1] = "not" -> Not(words, calls, c[2])

LEMMA OutcomeParts ==
  ASSUME NEW words, Len(words) \in Nat, NEW p \in Nat, NEW f \in Outcomes(words, p)
  PROVE  f = <<f[1], f[2]>> /\ f[1] \subseteq Objects /\ f[2] \in p + 1 .. Len(words) + 1
BY DEF Outcomes

LEMMA OutcomeIs ==
  ASSUME NEW words, NEW p, NEW f \in SUBSET Objects, NEW q \in p + 1 .. Len(words) + 1
  PROVE  <<f, q>> \in Outcomes(words, p)
BY DEF Outcomes

LEMMA CurrentIs ==
  ASSUME NEW words, Len(words) \in Nat, NEW p \in 1 .. Len(words) + 1, NEW s,
         Current(words, p) = <<s>>
  PROVE  p \in 1 .. Len(words) /\ words[p] = <<s>>
BY DEF Current

LEMMA NotReturns ==
  ASSUME NEW words, Len(words) \in Nat, NEW calls, NEW p \in 1 .. Len(words) + 1,
         \A m \in {"or", "not"} :
           p <= Len(words) => calls[<<m, p + 1>>] \subseteq Outcomes(words, p + 1)
  PROVE  Not(words, calls, p) \subseteq Outcomes(words, p)
<1>1. CASE Current(words, p) = <<"NOT">>
  <2>1. calls[<<"not", p + 1>>] \subseteq Outcomes(words, p + 1) /\ p \in 1 .. Len(words)
    BY <1>1, CurrentIs
  <2>2. ASSUME NEW f \in calls[<<"not", p + 1>>]
        PROVE  <<MatchNot(f[1]), f[2]>> \in Outcomes(words, p)
    <3>1. f[2] \in p + 1 .. Len(words) + 1
      BY <2>1, OutcomeParts
    <3> QED BY <3>1, OutcomeIs DEF MatchNot
  <2> QED BY <2>2, <1>1 DEF Not
<1>2. CASE Current(words, p) = <<"(">>
  <2>1. calls[<<"or", p + 1>>] \subseteq Outcomes(words, p + 1) /\ p \in 1 .. Len(words)
    <3>1. p \in 1 .. Len(words)
      BY <1>2, CurrentIs
    <3> QED BY <3>1
  <2>2. ASSUME NEW f \in calls[<<"or", p + 1>>], Current(words, f[2]) = <<")">>
        PROVE  <<f[1], f[2] + 1>> \in Outcomes(words, p)
    <3>1. f[1] \subseteq Objects /\ f[2] \in p + 2 .. Len(words) + 1
      BY <2>1, OutcomeParts
    <3>2. f[2] + 1 \in p + 1 .. Len(words) + 1
      BY <3>1, <2>2, CurrentIs
    <3> QED BY <3>1, <3>2, OutcomeIs
  <2>3. Current(words, p) # <<"NOT">>
    BY <1>2
  <2> QED BY <2>2, <2>3, <1>2 DEF Not, Primary
<1>3. CASE Current(words, p) # <<"NOT">> /\ Current(words, p) # <<"(">>
  <2>1. CASE p + 2 <= Len(words) /\ IsOperator(words[p + 1])
    <3> DEFINE f == Cond(words[p], Operator[words[p + 1][1]], words[p + 2])
    <3>1. f \in SUBSET Objects
      BY DEF Cond
    <3>2. p + 3 \in p + 1 .. Len(words) + 1
      BY <2>1
    <3>3. <<f, p + 3>> \in Outcomes(words, p)
      BY <3>1, <3>2, OutcomeIs
    <3> QED BY <3>3, <2>1, <1>3 DEF Not, Primary
  <2>2. CASE ~(p + 2 <= Len(words) /\ IsOperator(words[p + 1]))
    BY <2>2, <1>3 DEF Not, Primary
  <2> QED BY <2>1, <2>2
<1> QED BY <1>1, <1>2, <1>3

LEMMA AndReturns ==
  ASSUME NEW words, Len(words) \in Nat, NEW calls, NEW p \in 1 .. Len(words) + 1,
         calls[<<"not", p>>] \subseteq Outcomes(words, p),
         \A q \in p + 1 .. Len(words) : calls[<<"and", q + 1>>] \subseteq Outcomes(words, q + 1)
  PROVE  And(words, calls, p) \subseteq Outcomes(words, p)
<1>1. ASSUME NEW f \in calls[<<"not", p>>], Current(words, f[2]) = <<"AND">>,
             NEW g \in calls[<<"and", f[2] + 1>>]
      PROVE  <<MatchAll(f[1], g[1]), g[2]>> \in Outcomes(words, p)
  <2>1. f[2] \in p + 1 .. Len(words) + 1 /\ f[1] \subseteq Objects
    BY OutcomeParts
  <2>2. f[2] \in p + 1 .. Len(words)
    BY <2>1, <1>1, CurrentIs
  <2>3. g[2] \in f[2] + 2 .. Len(words) + 1
    BY <2>2, OutcomeParts
  <2>4. g[2] \in p + 1 .. Len(words) + 1
    BY <2>2, <2>3
  <2> QED BY <2>1, <2>4, OutcomeIs DEF MatchAll
<1>2. ASSUME NEW f \in calls[<<"not", p>>]
      PROVE  MoreAnd(words, calls, f) \subseteq Outcomes(words, p)
  BY <1>1 DEF MoreAnd
<1> QED BY <1>2 DEF And

LEMMA OrReturns ==
  ASSUME NEW words, Len(words) \in Nat, NEW calls, NEW p \in 1 .. Len(words) + 1,
         calls[<<"and", p>>] \subseteq Outcomes(words, p),
         \A q \in p + 1 .. Len(words) : calls[<<"or", q + 1>>] \subseteq Outcomes(words, q + 1)
  PROVE  Or(words, calls, p) \subseteq Outcomes(words, p)
<1>1. ASSUME NEW f \in calls[<<"and", p>>], Current(words, f[2]) = <<"OR">>,
             NEW g \in calls[<<"or", f[2] + 1>>]
      PROVE  <<MatchAny(f[1], g[1]), g[2]>> \in Outcomes(words, p)
  <2>1. f[2] \in p + 1 .. Len(words) + 1 /\ f[1] \subseteq Objects
    BY OutcomeParts
  <2>2. f[2] \in p + 1 .. Len(words)
    BY <2>1, <1>1, CurrentIs
  <2>3. g[2] \in f[2] + 2 .. Len(words) + 1 /\ g[1] \subseteq Objects
    BY <2>2, OutcomeParts
  <2>4. g[2] \in p + 1 .. Len(words) + 1
    BY <2>2, <2>3
  <2> QED BY <2>1, <2>3, <2>4, OutcomeIs DEF MatchAny
<1>2. ASSUME NEW f \in calls[<<"and", p>>]
      PROVE  MoreOr(words, calls, f) \subseteq Outcomes(words, p)
  BY <1>1 DEF MoreOr
<1> QED BY <1>2 DEF Or

(* What a method returns depends on the calls that it makes.                 *)
LEMMA NotDepends ==
  ASSUME NEW words, Len(words) \in Nat, NEW calls, NEW other, NEW p \in 1 .. Len(words) + 1,
         \A m \in {"or", "not"} : p <= Len(words) => calls[<<m, p + 1>>] = other[<<m, p + 1>>]
  PROVE  Not(words, calls, p) = Not(words, other, p)
<1>1. CASE Current(words, p) = <<"NOT">>
  <2>1. calls[<<"not", p + 1>>] = other[<<"not", p + 1>>]
    BY <1>1, CurrentIs
  <2> QED BY <1>1, <2>1 DEF Not
<1>2. CASE Current(words, p) = <<"(">>
  <2>1. calls[<<"or", p + 1>>] = other[<<"or", p + 1>>] /\ Current(words, p) # <<"NOT">>
    BY <1>2, CurrentIs
  <2> QED BY <1>2, <2>1 DEF Not, Primary
<1>3. CASE Current(words, p) # <<"NOT">> /\ Current(words, p) # <<"(">>
  BY <1>3 DEF Not, Primary
<1> QED BY <1>1, <1>2, <1>3

LEMMA AndDepends ==
  ASSUME NEW words, Len(words) \in Nat, NEW calls, NEW other, NEW p \in 1 .. Len(words) + 1,
         calls[<<"not", p>>] \subseteq Outcomes(words, p), calls[<<"not", p>>] = other[<<"not", p>>],
         \A q \in p + 1 .. Len(words) : calls[<<"and", q + 1>>] = other[<<"and", q + 1>>]
  PROVE  And(words, calls, p) = And(words, other, p)
<1>1. ASSUME NEW f \in calls[<<"not", p>>], Current(words, f[2]) = <<"AND">>
      PROVE  calls[<<"and", f[2] + 1>>] = other[<<"and", f[2] + 1>>]
  <2>1. f[2] \in p + 1 .. Len(words) + 1
    BY OutcomeParts
  <2>2. f[2] \in p + 1 .. Len(words)
    BY <2>1, <1>1, CurrentIs
  <2> QED BY <2>2
<1>2. ASSUME NEW f \in calls[<<"not", p>>]
      PROVE  MoreAnd(words, calls, f) = MoreAnd(words, other, f)
  BY <1>1 DEF MoreAnd
<1> QED BY <1>2 DEF And

LEMMA OrDepends ==
  ASSUME NEW words, Len(words) \in Nat, NEW calls, NEW other, NEW p \in 1 .. Len(words) + 1,
         calls[<<"and", p>>] \subseteq Outcomes(words, p), calls[<<"and", p>>] = other[<<"and", p>>],
         \A q \in p + 1 .. Len(words) : calls[<<"or", q + 1>>] = other[<<"or", q + 1>>]
  PROVE  Or(words, calls, p) = Or(words, other, p)
<1>1. ASSUME NEW f \in calls[<<"and", p>>], Current(words, f[2]) = <<"OR">>
      PROVE  calls[<<"or", f[2] + 1>>] = other[<<"or", f[2] + 1>>]
  <2>1. f[2] \in p + 1 .. Len(words) + 1
    BY OutcomeParts
  <2>2. f[2] \in p + 1 .. Len(words)
    BY <2>1, <1>1, CurrentIs
  <2> QED BY <2>2
<1>2. ASSUME NEW f \in calls[<<"and", p>>]
      PROVE  MoreOr(words, calls, f) = MoreOr(words, other, f)
  BY <1>1 DEF MoreOr
<1> QED BY <1>2 DEF Or

LEMMA Ranks ==
  ASSUME NEW words, Len(words) \in Nat
  PROVE  /\ \A c \in Calls(words) : Rank(words, c) \in 0 .. 3 * Len(words) + 2
         /\ \A c \in Calls(words) : c = <<c[1], c[2]>> /\ c[1] \in {"or", "and", "not"}
                                   /\ c[2] \in 1 .. Len(words) + 1
         /\ \A p \in 1 .. Len(words) + 1, m \in {"or", "and", "not"} : <<m, p>> \in Calls(words)
         /\ \A p, q \in 1 .. Len(words) + 1, m, n \in {"or", "and", "not"} :
              p < q => Rank(words, <<n, q>>) < Rank(words, <<m, p>>)
         /\ \A p \in 1 .. Len(words) + 1 : /\ Rank(words, <<"not", p>>) < Rank(words, <<"and", p>>)
                                           /\ Rank(words, <<"and", p>>) < Rank(words, <<"or", p>>)
<1>1. /\ \A c \in Calls(words) : c = <<c[1], c[2]>> /\ c[1] \in {"or", "and", "not"}
                                /\ c[2] \in 1 .. Len(words) + 1
      /\ \A p \in 1 .. Len(words) + 1, m \in {"or", "and", "not"} : <<m, p>> \in Calls(words)
  BY DEF Calls
<1>2. \A c \in Calls(words) : Rank(words, c) \in 0 .. 3 * Len(words) + 2
  BY <1>1 DEF Rank
<1>3. \A p, q \in 1 .. Len(words) + 1, m, n \in {"or", "and", "not"} :
        p < q => Rank(words, <<n, q>>) < Rank(words, <<m, p>>)
  BY DEF Rank
<1>4. \A p \in 1 .. Len(words) + 1 : /\ Rank(words, <<"not", p>>) < Rank(words, <<"and", p>>)
                                     /\ Rank(words, <<"and", p>>) < Rank(words, <<"or", p>>)
  BY DEF Rank
<1> QED BY <1>1, <1>2, <1>3, <1>4

(* Two tables of calls that hold the same where it counts.                   *)
SameAt(words, calls, other, m, p) ==
  calls[<<m, p>>] \subseteq Outcomes(words, p) /\ calls[<<m, p>>] = other[<<m, p>>]

SameBelow(words, calls, other, c) ==
  \A d \in Calls(words) : Rank(words, d) < Rank(words, c) =>
    calls[d] \subseteq Outcomes(words, d[2]) /\ calls[d] = other[d]

LEMMA CallsBelow ==
  ASSUME NEW words, Len(words) \in Nat, NEW calls, NEW other, NEW m \in {"or", "and", "not"},
         NEW p \in 1 .. Len(words) + 1, SameBelow(words, calls, other, <<m, p>>)
  PROVE  /\ \A q \in p .. Len(words), n \in {"or", "and", "not"} :
              SameAt(words, calls, other, n, q + 1)
         /\ m = "or" => SameAt(words, calls, other, "and", p)
         /\ m = "and" => SameAt(words, calls, other, "not", p)
<1>1. ASSUME NEW q \in 1 .. Len(words) + 1, NEW n \in {"or", "and", "not"},
             Rank(words, <<n, q>>) < Rank(words, <<m, p>>)
      PROVE  SameAt(words, calls, other, n, q)
  <2>1. <<n, q>> \in Calls(words) /\ <<n, q>>[2] = q
    BY Ranks
  <2> QED BY <1>1, <2>1 DEF SameBelow, SameAt
<1>2. ASSUME NEW q \in p .. Len(words), NEW n \in {"or", "and", "not"}
      PROVE  SameAt(words, calls, other, n, q + 1)
  <2>1. q + 1 \in 1 .. Len(words) + 1 /\ p < q + 1
    OBVIOUS
  <2> QED BY <1>1, <2>1, Ranks
<1>3. m = "or" => SameAt(words, calls, other, "and", p)
  BY <1>1, Ranks
<1>4. m = "and" => SameAt(words, calls, other, "not", p)
  BY <1>1, Ranks
<1> QED BY <1>2, <1>3, <1>4

LEMMA CalledReturns ==
  ASSUME NEW words, Len(words) \in Nat, NEW calls, NEW other, NEW c \in Calls(words),
         SameBelow(words, calls, other, c)
  PROVE  /\ Called(words, calls, c) \subseteq Outcomes(words, c[2])
         /\ Called(words, calls, c) = Called(words, other, c)
<1>0. PICK m \in {"or", "and", "not"}, p \in 1 .. Len(words) + 1 : c = <<m, p>>
  BY Ranks
<1>1. \A q \in p .. Len(words), n \in {"or", "and", "not"} : SameAt(words, calls, other, n, q + 1)
  BY <1>0, CallsBelow
<1>2. \A q \in p + 1 .. Len(words), n \in {"or", "and", "not"} : SameAt(words, calls, other, n, q + 1)
  <2>1. \A q \in p + 1 .. Len(words) : q \in p .. Len(words)
    OBVIOUS
  <2> QED BY <1>1, <2>1
<1>3. CASE m = "or"
  <2>1. Called(words, calls, c) = Or(words, calls, p) /\ Called(words, other, c) = Or(words, other, p)
    BY <1>0, <1>3 DEF Called
  <2>2. SameAt(words, calls, other, "and", p)
    BY <1>0, <1>3, CallsBelow
  <2>3. Or(words, calls, p) \subseteq Outcomes(words, p)
    BY <1>2, <2>2, OrReturns DEF SameAt
  <2>4. Or(words, calls, p) = Or(words, other, p)
    BY <1>2, <2>2, OrDepends DEF SameAt
  <2> QED BY <1>0, <2>1, <2>3, <2>4
<1>4. CASE m = "and"
  <2>1. Called(words, calls, c) = And(words, calls, p) /\ Called(words, other, c) = And(words, other, p)
    BY <1>0, <1>4 DEF Called
  <2>2. SameAt(words, calls, other, "not", p)
    BY <1>0, <1>4, CallsBelow
  <2>3. And(words, calls, p) \subseteq Outcomes(words, p)
    BY <1>2, <2>2, AndReturns DEF SameAt
  <2>4. And(words, calls, p) = And(words, other, p)
    BY <1>2, <2>2, AndDepends DEF SameAt
  <2> QED BY <1>0, <2>1, <2>3, <2>4
<1>5. CASE m = "not"
  <2>1. Called(words, calls, c) = Not(words, calls, p) /\ Called(words, other, c) = Not(words, other, p)
    BY <1>0, <1>5 DEF Called
  <2>2. p <= Len(words) => p \in p .. Len(words)
    OBVIOUS
  <2>3. Not(words, calls, p) \subseteq Outcomes(words, p)
    BY <1>1, <2>2, NotReturns DEF SameAt
  <2>4. Not(words, calls, p) = Not(words, other, p)
    BY <1>1, <2>2, NotDepends DEF SameAt
  <2> QED BY <1>0, <2>1, <2>3, <2>4
<1> QED BY <1>3, <1>4, <1>5

LEMMA ParseExists ==
  ASSUME NEW words, Len(words) \in Nat
  PROVE  \E f : f = [c \in Calls(words) |-> Called(words, f, c)]
<1> DEFINE S == Calls(words)
           T == SUBSET ((SUBSET Objects) \X (1 .. Len(words) + 1))
           R == [c \in S |-> SUBSET Outcomes(words, c[2])]
           rank == [c \in S |-> Rank(words, c)]
           G == [f \in [S -> T] |-> [c \in S |-> Called(words, f, c)]]
<1>1. \A x \in S : R[x] \subseteq T /\ R[x] # {}
  <2>1. ASSUME NEW x \in S
        PROVE  Outcomes(words, x[2]) \subseteq (SUBSET Objects) \X (1 .. Len(words) + 1)
    <3>1. x[2] \in 1 .. Len(words) + 1
      BY Ranks
    <3> QED BY <3>1 DEF Outcomes
  <2> QED BY <2>1
<1>2. rank \in [S -> 0 .. 3 * Len(words) + 2]
  BY Ranks
<1>3. ASSUME NEW f \in [S -> T], \A x \in S : f[x] \in R[x]
      PROVE  \A x \in S : G[f][x] \in R[x]
  <2>1. \A x \in S : f[x] \subseteq Outcomes(words, x[2])
    BY <1>3
  <2>2. \A x \in S : Called(words, f, x) \subseteq Outcomes(words, x[2])
    BY <2>1, CalledReturns DEF SameBelow
  <2> QED BY <2>2
<1>4. ASSUME NEW f \in [S -> T], NEW g \in [S -> T],
             \A x \in S : f[x] \in R[x], \A x \in S : g[x] \in R[x],
             NEW x \in S, \A y \in S : rank[y] < rank[x] => f[y] = g[y]
      PROVE  G[f][x] = G[g][x]
  <2>1. \A y \in S : f[y] \subseteq Outcomes(words, y[2])
    BY <1>4
  <2>2. \A y \in S : Rank(words, y) < Rank(words, x) => f[y] = g[y]
    BY <1>4
  <2>3. Called(words, f, x) = Called(words, g, x)
    BY <2>1, <2>2, CalledReturns DEF SameBelow
  <2> QED BY <2>3
<1>5. PICK f \in [S -> T] : \A x \in S : f[x] = G[f][x]
  <2> DEFINE N == 3 * Len(words) + 2
  <2> HIDE DEF S, T, R, rank, G
  <2>1. N \in Nat /\ rank \in [S -> 0 .. N]
    BY <1>2
  <2>2. \A g \in [S -> T] : (\A x \in S : g[x] \in R[x]) => \A x \in S : G[g][x] \in R[x]
    BY <1>3
  <2>3. \A g, h \in [S -> T] :
          (\A x \in S : g[x] \in R[x]) /\ (\A x \in S : h[x] \in R[x]) =>
            \A x \in S : (\A y \in S : rank[y] < rank[x] => g[y] = h[y]) => G[g][x] = G[h][x]
    BY <1>4
  <2>4. Recursive(S, T, R, N, rank, G)
    BY <1>1, <2>1, <2>2, <2>3, Zenon DEF Recursive
  <2> QED BY <2>4, Recursion DEF Solved
<1>6. f = [c \in S |-> Called(words, f, c)]
  BY <1>5
<1> QED BY <1>6

LEMMA ParseUnfolds ==
  ASSUME NEW words, Len(words) \in Nat, NEW c \in Calls(words)
  PROVE  /\ Parse(words)[c] = Called(words, Parse(words), c)
         /\ Parse(words)[c] \subseteq Outcomes(words, c[2])
<1> DEFINE parse == Parse(words)
<1>1. parse = CHOOSE f : f = [d \in Calls(words) |-> Called(words, f, d)]
  BY DEF Parse, Calls, Called
<1>2. parse = [d \in Calls(words) |-> Called(words, parse, d)]
  <2> HIDE DEF parse
  <2> QED BY <1>1, ParseExists, Zenon
<1> HIDE DEF parse
<1> DEFINE Good == {n \in Nat : \A d \in Calls(words) :
                       Rank(words, d) = n => parse[d] \subseteq Outcomes(words, d[2])}
<1>3. ASSUME NEW n \in Nat, \A k \in Nat : k < n => k \in Good
      PROVE  n \in Good
  <2>1. ASSUME NEW d \in Calls(words), Rank(words, d) = n
        PROVE  parse[d] \subseteq Outcomes(words, d[2])
    <3>1. \A e \in Calls(words) : Rank(words, e) < Rank(words, d) => parse[e] \subseteq Outcomes(words, e[2])
      BY <1>3, <2>1, Ranks
    <3>2. Called(words, parse, d) \subseteq Outcomes(words, d[2])
      BY <3>1, CalledReturns DEF SameBelow
    <3> QED BY <1>2, <3>2
  <2> QED BY <2>1
<1>4. \A n \in Nat : n \in Good
  <2> HIDE DEF Good
  <2>1. Good \in SUBSET Nat
    BY DEF Good
  <2> QED BY <1>3, <2>1, StrongInduction
<1>5. Rank(words, c) \in Nat
  BY Ranks
<1>6. parse[c] \subseteq Outcomes(words, c[2]) /\ parse[c] = Called(words, parse, c)
  BY <1>2, <1>4, <1>5
<1> QED BY <1>6 DEF parse
LEMMA ParseAt ==
  ASSUME NEW words, Len(words) \in Nat, NEW p \in 1 .. Len(words) + 1
  PROVE  /\ \A m \in {"or", "and", "not"} : Parse(words)[<<m, p>>] \subseteq Outcomes(words, p)
         /\ Parse(words)[<<"or", p>>] = Or(words, Parse(words), p)
         /\ Parse(words)[<<"and", p>>] = And(words, Parse(words), p)
         /\ Parse(words)[<<"not", p>>] = Not(words, Parse(words), p)
<1>1. ASSUME NEW m \in {"or", "and", "not"}
      PROVE  /\ Parse(words)[<<m, p>>] = Called(words, Parse(words), <<m, p>>)
             /\ Parse(words)[<<m, p>>] \subseteq Outcomes(words, p)
  <2>1. <<m, p>> \in Calls(words) /\ <<m, p>>[2] = p
    BY Ranks
  <2> QED BY <2>1, ParseUnfolds
<1> QED BY <1>1 DEF Called
---------------------------------------------------------------------------
(* The grammar. What a stretch means depends on the shorter ones, OR on AND  *)
(* and AND on NOT.                                                           *)
Size(s) ==
  IF s[2] < s[3]
  THEN 3 * (s[3] - s[2]) + (IF s[1] = "or" THEN 2 ELSE IF s[1] = "and" THEN 1 ELSE 0)
  ELSE 0

Meant(words, means, s) ==
  CASE s[1] = "or" /\ s[2] < s[3] -> OrMeans(words, means, s[2], s[3])
    [] s[1] = "and" /\ s[2] < s[3] -> AndMeans(words, means, s[2], s[3])
    [] s[1] = "not" /\ s[2] < s[3] -> NotMeans(words, means, s[2], s[3])
    [] OTHER -> {}

LEMMA Sizes ==
  ASSUME NEW words, Len(words) \in Nat
  PROVE  /\ \A s \in Stretches(words) : Size(s) \in 0 .. 3 * Len(words) + 2
         /\ \A s \in Stretches(words) :
              /\ s = <<s[1], s[2], s[3]>> /\ s[1] \in {"or", "and", "not"}
              /\ s[2] \in 1 .. Len(words) + 1 /\ s[3] \in 1 .. Len(words) + 1
         /\ \A m \in {"or", "and", "not"}, i, j \in 1 .. Len(words) + 1 :
              <<m, i, j>> \in Stretches(words)
         /\ \A m, n \in {"or", "and", "not"}, i, j, k, l \in 1 .. Len(words) + 1 :
              i < j /\ l - k < j - i => Size(<<n, k, l>>) < Size(<<m, i, j>>)
         /\ \A i, j \in 1 .. Len(words) + 1 : i < j =>
              /\ Size(<<"not", i, j>>) < Size(<<"and", i, j>>)
              /\ Size(<<"and", i, j>>) < Size(<<"or", i, j>>)
<1>1. /\ \A s \in Stretches(words) :
           /\ s = <<s[1], s[2], s[3]>> /\ s[1] \in {"or", "and", "not"}
           /\ s[2] \in 1 .. Len(words) + 1 /\ s[3] \in 1 .. Len(words) + 1
      /\ \A m \in {"or", "and", "not"}, i, j \in 1 .. Len(words) + 1 :
           <<m, i, j>> \in Stretches(words)
  BY DEF Stretches
<1>2. \A s \in Stretches(words) : Size(s) \in 0 .. 3 * Len(words) + 2
  BY <1>1 DEF Size
<1>3. \A m, n \in {"or", "and", "not"}, i, j, k, l \in 1 .. Len(words) + 1 :
        i < j /\ l - k < j - i => Size(<<n, k, l>>) < Size(<<m, i, j>>)
  BY DEF Size
<1>4. \A i, j \in 1 .. Len(words) + 1 : i < j =>
        /\ Size(<<"not", i, j>>) < Size(<<"and", i, j>>)
        /\ Size(<<"and", i, j>>) < Size(<<"or", i, j>>)
  BY DEF Size
<1> QED BY <1>1, <1>2, <1>3, <1>4

LEMMA MeantDepends ==
  ASSUME NEW words, Len(words) \in Nat, NEW means, NEW other, NEW s \in Stretches(words),
         \A t \in Stretches(words) : Size(t) < Size(s) => means[t] = other[t]
  PROVE  Meant(words, means, s) = Meant(words, other, s)
<1>0. PICK m \in {"or", "and", "not"}, i \in 1 .. Len(words) + 1, j \in 1 .. Len(words) + 1 :
        s = <<m, i, j>>
  BY Sizes
<1>1. ASSUME NEW n \in {"or", "and", "not"}, NEW k \in 1 .. Len(words) + 1,
             NEW l \in 1 .. Len(words) + 1, Size(<<n, k, l>>) < Size(s)
      PROVE  means[<<n, k, l>>] = other[<<n, k, l>>]
  BY <1>1, Sizes
<1>2. CASE i >= j
  BY <1>0, <1>2 DEF Meant
<1>3. CASE i < j /\ m = "not"
  <2>1. Meant(words, means, s) = NotMeans(words, means, i, j)
        /\ Meant(words, other, s) = NotMeans(words, other, i, j)
    BY <1>0, <1>3 DEF Meant
  <2>2. means[<<"not", i + 1, j>>] = other[<<"not", i + 1, j>>]
    <3>1. i + 1 \in 1 .. Len(words) + 1 /\ j - (i + 1) < j - i
      BY <1>3
    <3>2. Size(<<"not", i + 1, j>>) < Size(s)
      BY <1>0, <1>3, <3>1, Sizes
    <3> QED BY <1>1, <3>1, <3>2
  <2>3. means[<<"or", i + 1, j - 1>>] = other[<<"or", i + 1, j - 1>>]
    <3>1. i + 1 \in 1 .. Len(words) + 1 /\ j - 1 \in 1 .. Len(words) + 1 /\ (j - 1) - (i + 1) < j - i
      BY <1>3
    <3>2. Size(<<"or", i + 1, j - 1>>) < Size(s)
      BY <1>0, <1>3, <3>1, Sizes
    <3> QED BY <1>1, <3>1, <3>2
  <2> QED BY <2>1, <2>2, <2>3 DEF NotMeans
<1>4. CASE i < j /\ m = "and"
  <2>1. Meant(words, means, s) = AndMeans(words, means, i, j)
        /\ Meant(words, other, s) = AndMeans(words, other, i, j)
    BY <1>0, <1>4 DEF Meant
  <2>2. means[<<"not", i, j>>] = other[<<"not", i, j>>]
    BY <1>0, <1>1, <1>4, Sizes
  <2>3. ASSUME NEW k \in i + 1 .. j - 1
        PROVE  means[<<"not", i, k>>] = other[<<"not", i, k>>]
               /\ means[<<"and", k + 1, j>>] = other[<<"and", k + 1, j>>]
    <3>1. k \in 1 .. Len(words) + 1 /\ k + 1 \in 1 .. Len(words) + 1
          /\ k - i < j - i /\ j - (k + 1) < j - i
      BY <1>4
    <3>2. Size(<<"not", i, k>>) < Size(s) /\ Size(<<"and", k + 1, j>>) < Size(s)
      BY <1>0, <1>4, <3>1, Sizes
    <3> QED BY <1>1, <3>1, <3>2
  <2> DEFINE Places == {l \in i + 1 .. j - 1 : words[l] = <<"AND">>}
             Of(A, B) == {f \cap g : f \in A, g \in B}
             At(m_, k) == Of(m_[<<"not", i, k>>], m_[<<"and", k + 1, j>>])
  <2>4. /\ AndMeans(words, means, i, j) = means[<<"not", i, j>>] \cup UNION {At(means, k) : k \in Places}
        /\ AndMeans(words, other, i, j) = other[<<"not", i, j>>] \cup UNION {At(other, k) : k \in Places}
    BY DEF AndMeans
  <2>5. ASSUME NEW k \in Places
        PROVE  At(means, k) = At(other, k)
    <3>1. k \in i + 1 .. j - 1
      OBVIOUS
    <3> HIDE DEF Of, Places
    <3>2. means[<<"not", i, k>>] = other[<<"not", i, k>>]
          /\ means[<<"and", k + 1, j>>] = other[<<"and", k + 1, j>>]
      BY <2>3, <3>1
    <3> QED BY <3>2
  <2> HIDE DEF Of, At, Places
  <2>6. UNION {At(means, k) : k \in Places} = UNION {At(other, k) : k \in Places}
    BY <2>5
  <2> QED BY <2>1, <2>2, <2>4, <2>6
<1>5. CASE i < j /\ m = "or"
  <2>1. Meant(words, means, s) = OrMeans(words, means, i, j)
        /\ Meant(words, other, s) = OrMeans(words, other, i, j)
    BY <1>0, <1>5 DEF Meant
  <2>2. means[<<"and", i, j>>] = other[<<"and", i, j>>]
    BY <1>0, <1>1, <1>5, Sizes
  <2>3. ASSUME NEW k \in i + 1 .. j - 1
        PROVE  means[<<"and", i, k>>] = other[<<"and", i, k>>]
               /\ means[<<"or", k + 1, j>>] = other[<<"or", k + 1, j>>]
    <3>1. k \in 1 .. Len(words) + 1 /\ k + 1 \in 1 .. Len(words) + 1
          /\ k - i < j - i /\ j - (k + 1) < j - i
      BY <1>5
    <3>2. Size(<<"and", i, k>>) < Size(s) /\ Size(<<"or", k + 1, j>>) < Size(s)
      BY <1>0, <1>5, <3>1, Sizes
    <3> QED BY <1>1, <3>1, <3>2
  <2> DEFINE Places == {l \in i + 1 .. j - 1 : words[l] = <<"OR">>}
             Of(A, B) == {f \cup g : f \in A, g \in B}
             At(m_, k) == Of(m_[<<"and", i, k>>], m_[<<"or", k + 1, j>>])
  <2>4. /\ OrMeans(words, means, i, j) = means[<<"and", i, j>>] \cup UNION {At(means, k) : k \in Places}
        /\ OrMeans(words, other, i, j) = other[<<"and", i, j>>] \cup UNION {At(other, k) : k \in Places}
    BY DEF OrMeans
  <2>5. ASSUME NEW k \in Places
        PROVE  At(means, k) = At(other, k)
    <3>1. k \in i + 1 .. j - 1
      OBVIOUS
    <3> HIDE DEF Of, Places
    <3>2. means[<<"and", i, k>>] = other[<<"and", i, k>>]
          /\ means[<<"or", k + 1, j>>] = other[<<"or", k + 1, j>>]
      BY <2>3, <3>1
    <3> QED BY <3>2
  <2> HIDE DEF Of, At, Places
  <2>6. UNION {At(means, k) : k \in Places} = UNION {At(other, k) : k \in Places}
    BY <2>5
  <2> QED BY <2>1, <2>2, <2>4, <2>6
<1> QED BY <1>2, <1>3, <1>4, <1>5

LEMMA MeantIs ==
  ASSUME NEW words, Len(words) \in Nat, NEW s \in Stretches(words),
         NEW means \in [Stretches(words) -> SUBSET SUBSET Objects]
  PROVE  Meant(words, means, s) \subseteq SUBSET Objects
<1>0. PICK m \in {"or", "and", "not"}, i \in 1 .. Len(words) + 1, j \in 1 .. Len(words) + 1 :
        s = <<m, i, j>>
  BY Sizes
<1>1. ASSUME NEW n \in {"or", "and", "not"}, NEW k \in 1 .. Len(words) + 1,
             NEW l \in 1 .. Len(words) + 1
      PROVE  means[<<n, k, l>>] \subseteq SUBSET Objects
  BY Sizes
<1>2. CASE i >= j
  BY <1>0, <1>2 DEF Meant
<1>3. CASE i < j /\ m = "not"
  <2>1. Meant(words, means, s) = NotMeans(words, means, i, j)
    BY <1>0, <1>3 DEF Meant
  <2>2. means[<<"or", i + 1, j - 1>>] \subseteq SUBSET Objects
    BY <1>1, <1>3
  <2>3. NotMeans(words, means, i, j) \subseteq SUBSET Objects
    <3>1. CASE words[i] = <<"NOT">>
      BY <3>1 DEF NotMeans
    <3>2. CASE words[i] = <<"(">>
      BY <3>2, <2>2 DEF NotMeans
    <3>3. CASE words[i] \notin {<<"(">>, <<"NOT">>}
      BY <3>3 DEF NotMeans
    <3> QED BY <3>1, <3>2, <3>3
  <2> QED BY <2>1, <2>3
<1>4. CASE i < j /\ m = "and"
  <2>1. Meant(words, means, s) = AndMeans(words, means, i, j)
    BY <1>0, <1>4 DEF Meant
  <2>2. \A k \in i + 1 .. j - 1 : means[<<"not", i, k>>] \subseteq SUBSET Objects
    BY <1>1, <1>4
  <2> DEFINE Places == {l \in i + 1 .. j - 1 : words[l] = <<"AND">>}
             Of(k) == {f \cap g : f \in means[<<"not", i, k>>], g \in means[<<"and", k + 1, j>>]}
  <2>3. AndMeans(words, means, i, j) = means[<<"not", i, j>>] \cup UNION {Of(k) : k \in Places}
    BY DEF AndMeans
  <2>4. \A k \in Places : Of(k) \subseteq SUBSET Objects
    BY <2>2
  <2> HIDE DEF Of, Places
  <2> QED BY <1>1, <2>1, <2>3, <2>4
<1>5. CASE i < j /\ m = "or"
  <2>1. Meant(words, means, s) = OrMeans(words, means, i, j)
    BY <1>0, <1>5 DEF Meant
  <2>2. \A k \in i + 1 .. j - 1 :
          /\ means[<<"and", i, k>>] \subseteq SUBSET Objects
          /\ means[<<"or", k + 1, j>>] \subseteq SUBSET Objects
    BY <1>1, <1>5
  <2> DEFINE Places == {l \in i + 1 .. j - 1 : words[l] = <<"OR">>}
             Of(k) == {f \cup g : f \in means[<<"and", i, k>>], g \in means[<<"or", k + 1, j>>]}
  <2>3. OrMeans(words, means, i, j) = means[<<"and", i, j>>] \cup UNION {Of(k) : k \in Places}
    BY DEF OrMeans
  <2>4. \A k \in Places : Of(k) \subseteq SUBSET Objects
    BY <2>2
  <2> HIDE DEF Of, Places
  <2> QED BY <1>1, <2>1, <2>3, <2>4
<1> QED BY <1>2, <1>3, <1>4, <1>5

LEMMA GrammarExists ==
  ASSUME NEW words, Len(words) \in Nat
  PROVE  \E f : f = [s \in Stretches(words) |-> Meant(words, f, s)]
<1> DEFINE S == Stretches(words)
           T == SUBSET SUBSET Objects
           R == [s \in S |-> T]
           rank == [s \in S |-> Size(s)]
           N == 3 * Len(words) + 2
           G == [f \in [S -> T] |-> [s \in S |-> Meant(words, f, s)]]
<1>1. \A x \in S : R[x] \subseteq T /\ R[x] # {}
  OBVIOUS
<1>2. N \in Nat /\ rank \in [S -> 0 .. N]
  BY Sizes
<1>3. \A f \in [S -> T] : (\A x \in S : f[x] \in R[x]) => \A x \in S : G[f][x] \in R[x]
  BY MeantIs
<1>4. ASSUME NEW f \in [S -> T], NEW g \in [S -> T], NEW x \in S,
             \A y \in S : rank[y] < rank[x] => f[y] = g[y]
      PROVE  G[f][x] = G[g][x]
  <2>1. \A y \in S : Size(y) < Size(x) => f[y] = g[y]
    BY <1>4
  <2>2. Meant(words, f, x) = Meant(words, g, x)
    BY <2>1, MeantDepends
  <2> QED BY <2>2
<1>5. \A f, g \in [S -> T] :
        (\A x \in S : f[x] \in R[x]) /\ (\A x \in S : g[x] \in R[x]) =>
          \A x \in S : (\A y \in S : rank[y] < rank[x] => f[y] = g[y]) => G[f][x] = G[g][x]
  <2> HIDE DEF S, T, R, rank, G
  <2> QED BY <1>4
<1>6. PICK f \in [S -> T] : \A x \in S : f[x] = G[f][x]
  <2> HIDE DEF S, T, R, rank, N, G
  <2>1. Recursive(S, T, R, N, rank, G)
    BY <1>1, <1>2, <1>3, <1>5, Zenon DEF Recursive
  <2> QED BY <2>1, Recursion DEF Solved
<1>7. f = [s \in Stretches(words) |-> Meant(words, f, s)]
  BY <1>6
<1> QED BY <1>7

LEMMA GrammarAt ==
  ASSUME NEW words, Len(words) \in Nat,
         NEW i \in 1 .. Len(words) + 1, NEW j \in 1 .. Len(words) + 1
  PROVE  /\ i >= j => \A m \in {"or", "and", "not"} : Grammar(words)[<<m, i, j>>] = {}
         /\ i < j => /\ Grammar(words)[<<"or", i, j>>] = OrMeans(words, Grammar(words), i, j)
                     /\ Grammar(words)[<<"and", i, j>>] = AndMeans(words, Grammar(words), i, j)
                     /\ Grammar(words)[<<"not", i, j>>] = NotMeans(words, Grammar(words), i, j)
<1> DEFINE means == Grammar(words)
<1>1. means = CHOOSE f : f = [s \in Stretches(words) |-> Meant(words, f, s)]
  BY DEF Grammar, Meant
<1>2. means = [s \in Stretches(words) |-> Meant(words, means, s)]
  <2> HIDE DEF means
  <2> QED BY <1>1, GrammarExists, Zenon
<1> HIDE DEF means
<1>3. \A m \in {"or", "and", "not"} : means[<<m, i, j>>] = Meant(words, means, <<m, i, j>>)
  BY <1>2, Sizes
<1>4. i >= j => \A m \in {"or", "and", "not"} : means[<<m, i, j>>] = {}
  BY <1>3 DEF Meant
<1>5. i < j => /\ means[<<"or", i, j>>] = OrMeans(words, means, i, j)
               /\ means[<<"and", i, j>>] = AndMeans(words, means, i, j)
               /\ means[<<"not", i, j>>] = NotMeans(words, means, i, j)
  BY <1>3 DEF Meant
<1> QED BY <1>4, <1>5 DEF means
---------------------------------------------------------------------------
(* The parser and the grammar. A method returns with every meaning of the    *)
(* words it has read, but And does not stop before an AND, nor Or before an  *)
(* AND or an OR.                                                             *)
Ends(words, m, j) ==
  (m # "not" => Current(words, j) # <<"AND">>) /\ (m = "or" => Current(words, j) # <<"OR">>)

AgreeAt(words, m, i, j) ==
  \A F : <<F, j>> \in Parse(words)[<<m, i>>] <=> F \in Grammar(words)[<<m, i, j>>] /\ Ends(words, m, j)

AgreeBelow(words, n) ==
  \A k, l \in 1 .. Len(words) + 1, m \in {"or", "and", "not"} :
    k < l /\ l - k < n => AgreeAt(words, m, k, l)

(* A stretch that is none means nothing, and no method returns from it.      *)
LEMMA AgreeNowhere ==
  ASSUME NEW words, Len(words) \in Nat, NEW k \in 1 .. Len(words) + 1,
         NEW l \in 1 .. Len(words) + 1, k >= l, NEW m \in {"or", "and", "not"}
  PROVE  AgreeAt(words, m, k, l)
<1>1. \A F : <<F, l>> \notin Parse(words)[<<m, k>>]
  <2>1. Parse(words)[<<m, k>>] \subseteq Outcomes(words, k)
    BY ParseAt
  <2> QED BY <2>1 DEF Outcomes
<1>2. Grammar(words)[<<m, k, l>>] = {}
  BY GrammarAt
<1> QED BY <1>1, <1>2 DEF AgreeAt

LEMMA AgreeShorter ==
  ASSUME NEW words, Len(words) \in Nat, NEW n \in Int, AgreeBelow(words, n),
         NEW k \in 1 .. Len(words) + 1, NEW l \in 1 .. Len(words) + 1, l - k < n,
         NEW m \in {"or", "and", "not"}
  PROVE  AgreeAt(words, m, k, l)
BY AgreeNowhere DEF AgreeBelow

LEMMA NotAgrees ==
  ASSUME NEW words, Len(words) \in Nat, NEW i \in 1 .. Len(words) + 1,
         NEW j \in 1 .. Len(words) + 1, i < j, AgreeBelow(words, j - i)
  PROVE  AgreeAt(words, "not", i, j)
<1> DEFINE parse == Parse(words)
           means == Grammar(words)
<1>1. parse[<<"not", i>>] = Not(words, parse, i) /\ means[<<"not", i, j>>] = NotMeans(words, means, i, j)
  BY ParseAt, GrammarAt
<1>2. i \in 1 .. Len(words) /\ i + 1 \in 1 .. Len(words) + 1 /\ j - 1 \in 1 .. Len(words)
      /\ Current(words, i) = words[i]
  BY DEF Current
<1>3. /\ parse[<<"not", i + 1>>] \subseteq Outcomes(words, i + 1)
      /\ parse[<<"or", i + 1>>] \subseteq Outcomes(words, i + 1)
  BY <1>2, ParseAt
<1>4. AgreeAt(words, "not", i + 1, j)
  BY <1>2, AgreeShorter
<1>5. \A q \in i + 1 .. j - 1 : AgreeAt(words, "or", i + 1, q)
  <2>1. ASSUME NEW q \in i + 1 .. j - 1
        PROVE  AgreeAt(words, "or", i + 1, q)
    <3>1. q \in 1 .. Len(words) + 1 /\ q - (i + 1) < j - i /\ j - i \in Int
      OBVIOUS
    <3> QED BY <1>2, <3>1, AgreeShorter
  <2> QED BY <2>1
<1> HIDE DEF parse, means
<1>6. CASE words[i] = <<"NOT">>
  <2>1. /\ parse[<<"not", i>>] = {<<MatchNot(f[1]), f[2]>> : f \in parse[<<"not", i + 1>>]}
        /\ means[<<"not", i, j>>] = {Objects \ f : f \in means[<<"not", i + 1, j>>]}
    BY <1>1, <1>2, <1>6 DEF Not, NotMeans
  <2>2. \A G : <<G, j>> \in parse[<<"not", i + 1>>] <=> G \in means[<<"not", i + 1, j>>]
    BY <1>4 DEF AgreeAt, Ends, parse, means
  <2>3. ASSUME NEW F, <<F, j>> \in parse[<<"not", i>>]
        PROVE  F \in means[<<"not", i, j>>]
    <3>1. PICK f \in parse[<<"not", i + 1>>] : F = MatchNot(f[1]) /\ j = f[2]
      BY <2>1, <2>3
    <3>2. f = <<f[1], j>>
      <4>1. i + 1 \in Nat /\ f \in Outcomes(words, i + 1)
        BY <1>2, <1>3, <3>1
      <4>2. f = <<f[1], f[2]>>
        BY <4>1, OutcomeParts
      <4> QED BY <3>1, <4>2
    <3>3. f[1] \in means[<<"not", i + 1, j>>]
      BY <2>2, <3>2
    <3> QED BY <2>1, <3>1, <3>3 DEF MatchNot
  <2>4. ASSUME NEW F, F \in means[<<"not", i, j>>]
        PROVE  <<F, j>> \in parse[<<"not", i>>]
    <3>1. PICK f \in means[<<"not", i + 1, j>>] : F = Objects \ f
      BY <2>1, <2>4
    <3>2. <<f, j>> \in parse[<<"not", i + 1>>]
      BY <2>2
    <3>3. <<MatchNot(<<f, j>>[1]), <<f, j>>[2]>> \in parse[<<"not", i>>]
      BY <2>1, <3>2
    <3> QED BY <3>1, <3>3 DEF MatchNot
  <2> QED BY <2>3, <2>4 DEF AgreeAt, Ends, parse, means
<1>7. CASE words[i] = <<"(">>
  <2>0. words[i] # <<"NOT">>
    BY <1>7
  <2>1. /\ parse[<<"not", i>>] = {<<f[1], f[2] + 1>> :
             f \in {g \in parse[<<"or", i + 1>>] : Current(words, g[2]) = <<")">>}}
        /\ means[<<"not", i, j>>] =
             IF words[j - 1] = <<")">> THEN means[<<"or", i + 1, j - 1>>] ELSE {}
    BY <1>1, <1>2, <1>7, <2>0 DEF Not, Primary, NotMeans
  <2>2. ASSUME NEW F, <<F, j>> \in parse[<<"not", i>>]
        PROVE  F \in means[<<"not", i, j>>]
    <3>1. PICK f \in parse[<<"or", i + 1>>] :
            Current(words, f[2]) = <<")">> /\ F = f[1] /\ j = f[2] + 1
      BY <2>1, <2>2
    <3>2. f = <<f[1], f[2]>> /\ f[2] \in i + 2 .. Len(words) + 1
      <4>1. i + 1 \in Nat /\ f \in Outcomes(words, i + 1)
        BY <1>2, <1>3
      <4>2. f = <<f[1], f[2]>> /\ f[2] \in (i + 1) + 1 .. Len(words) + 1
        BY <4>1, OutcomeParts
      <4> QED BY <4>2
    <3>3. f = <<F, j - 1>> /\ j - 1 \in i + 1 .. j - 1 /\ f[2] = j - 1
      BY <3>1, <3>2
    <3>4. F \in means[<<"or", i + 1, j - 1>>]
      BY <1>5, <3>3 DEF AgreeAt, parse, means
    <3>5. words[j - 1] = <<")">>
      BY <3>1, <3>3, <1>2 DEF Current
    <3> QED BY <2>1, <3>4, <3>5
  <2>3. ASSUME NEW F, F \in means[<<"not", i, j>>]
        PROVE  <<F, j>> \in parse[<<"not", i>>]
    <3>1. words[j - 1] = <<")">> /\ F \in means[<<"or", i + 1, j - 1>>]
      BY <2>1, <2>3
    <3>2. Current(words, j - 1) = <<")">>
      BY <3>1, <1>2 DEF Current
    <3>3. Ends(words, "or", j - 1)
      BY <3>2 DEF Ends
    <3>4. j - 1 \in i + 1 .. j - 1
      <4>1. j - 1 # i
        BY <1>7, <3>1
      <4> QED BY <4>1
    <3>5. <<F, j - 1>> \in parse[<<"or", i + 1>>]
      BY <1>5, <3>1, <3>3, <3>4 DEF AgreeAt, parse, means
    <3>6. <<F, j - 1>> \in {g \in parse[<<"or", i + 1>>] : Current(words, g[2]) = <<")">>}
      BY <3>2, <3>5
    <3>7. <<<<F, j - 1>>[1], <<F, j - 1>>[2] + 1>> \in parse[<<"not", i>>]
      BY <2>1, <3>6
    <3>8. (j - 1) + 1 = j
      OBVIOUS
    <3> QED BY <3>7, <3>8
  <2> QED BY <2>2, <2>3 DEF AgreeAt, Ends, parse, means
<1>8. CASE words[i] # <<"NOT">> /\ words[i] # <<"(">>
  <2> DEFINE f == Cond(words[i], Operator[words[i + 1][1]], words[i + 2])
  <2>1. /\ parse[<<"not", i>>] = IF i + 2 <= Len(words) /\ IsOperator(words[i + 1])
                               THEN {<<f, i + 3>>} ELSE {}
        /\ means[<<"not", i, j>>] = IF j = i + 3 /\ IsOperator(words[i + 1]) THEN {f} ELSE {}
    BY <1>1, <1>2, <1>8 DEF Not, Primary, NotMeans, Cond
  <2>2. j = i + 3 => i + 2 <= Len(words)
    OBVIOUS
  <2> HIDE DEF f
  <2>3. ASSUME NEW F
        PROVE  <<F, j>> \in parse[<<"not", i>>] <=> F \in means[<<"not", i, j>>]
    BY <2>1, <2>2
  <2> QED BY <2>3 DEF AgreeAt, Ends, parse, means
<1> QED BY <1>6, <1>7, <1>8
LEMMA AndAgrees ==
  ASSUME NEW words, Len(words) \in Nat, NEW i \in 1 .. Len(words) + 1,
         NEW j \in 1 .. Len(words) + 1, i < j, AgreeBelow(words, j - i), AgreeAt(words, "not", i, j)
  PROVE  AgreeAt(words, "and", i, j)
<1> DEFINE parse == Parse(words)
           means == Grammar(words)
           Places == {k \in i + 1 .. j - 1 : words[k] = <<"AND">>}
           Of(k) == {f \cap g : f \in means[<<"not", i, k>>], g \in means[<<"and", k + 1, j>>]}
<1>1. /\ parse[<<"and", i>>] = UNION {MoreAnd(words, parse, f) : f \in parse[<<"not", i>>]}
      /\ \A F : F \in means[<<"and", i, j>>] <=>
                F \in means[<<"not", i, j>>] \/ \E k \in Places : F \in Of(k)
  <2>1. parse[<<"and", i>>] = And(words, parse, i) /\ means[<<"and", i, j>>] = AndMeans(words, means, i, j)
    BY ParseAt, GrammarAt
  <2>2. And(words, parse, i) = UNION {MoreAnd(words, parse, f) : f \in parse[<<"not", i>>]}
    BY DEF And
  <2>3. AndMeans(words, means, i, j) = means[<<"not", i, j>>] \cup UNION {Of(k) : k \in Places}
    BY DEF AndMeans
  <2> HIDE DEF Of, Places, parse, means
  <2> QED BY <2>1, <2>2, <2>3
<1>2. parse[<<"not", i>>] \subseteq Outcomes(words, i)
  BY ParseAt
<1>3. ASSUME NEW k \in i + 1 .. j - 1
      PROVE  /\ Current(words, k) = words[k]
             /\ AgreeAt(words, "not", i, k) /\ AgreeAt(words, "and", k + 1, j)
  <2>1. /\ k \in 1 .. Len(words) + 1 /\ k + 1 \in 1 .. Len(words) + 1
        /\ k - i < j - i /\ j - (k + 1) < j - i /\ j - i \in Int
    OBVIOUS
  <2>2. AgreeAt(words, "not", i, k)
    BY <2>1, AgreeShorter
  <2>3. AgreeAt(words, "and", k + 1, j)
    BY <2>1, AgreeShorter
  <2>4. Current(words, k) = words[k]
    BY DEF Current
  <2> QED BY <2>2, <2>3, <2>4
<1> HIDE DEF parse, means, Places, Of
<1>4. ASSUME NEW F, <<F, j>> \in parse[<<"and", i>>]
      PROVE  F \in means[<<"and", i, j>>] /\ Ends(words, "and", j)
  <2>1. PICK f \in parse[<<"not", i>>] : <<F, j>> \in MoreAnd(words, parse, f)
    BY <1>1, <1>4
  <2>2. f = <<f[1], f[2]>> /\ f[2] \in i + 1 .. Len(words) + 1
    BY <1>2, OutcomeParts
  <2>3. CASE Current(words, f[2]) # <<"AND">>
    <3>1. f = <<F, j>> /\ Current(words, j) # <<"AND">>
      BY <2>1, <2>2, <2>3 DEF MoreAnd
    <3>2. F \in means[<<"not", i, j>>] /\ Ends(words, "not", j)
      BY <3>1 DEF AgreeAt, parse, means
    <3> QED BY <1>1, <3>1, <3>2 DEF Ends
  <2>4. CASE Current(words, f[2]) = <<"AND">>
    <3>1. PICK g \in parse[<<"and", f[2] + 1>>] : F = MatchAll(f[1], g[1]) /\ j = g[2]
      BY <2>1, <2>4 DEF MoreAnd
    <3>2. f[2] \in i + 1 .. Len(words) /\ words[f[2]] = <<"AND">>
      BY <2>2, <2>4, CurrentIs
    <3>3. f[2] + 1 \in 1 .. Len(words) + 1 /\ f[2] + 1 \in Nat
      BY <3>2
    <3>4. parse[<<"and", f[2] + 1>>] \subseteq Outcomes(words, f[2] + 1)
      BY <3>3, ParseAt DEF parse
    <3>5. g = <<g[1], j>> /\ j \in (f[2] + 1) + 1 .. Len(words) + 1
      BY <3>1, <3>3, <3>4, OutcomeParts
    <3>6. f[2] \in i + 1 .. j - 1
      BY <3>2, <3>5
    <3>7. f[1] \in means[<<"not", i, f[2]>>]
      BY <1>3, <2>2, <3>6 DEF AgreeAt, parse, means
    <3>8. g[1] \in means[<<"and", f[2] + 1, j>>] /\ Ends(words, "and", j)
      BY <1>3, <3>5, <3>6 DEF AgreeAt, parse, means
    <3>9. f[2] \in Places
      BY <3>2, <3>6 DEF Places
    <3>10. F \in Of(f[2])
      BY <3>1, <3>7, <3>8 DEF MatchAll, Of
    <3> QED BY <1>1, <3>8, <3>9, <3>10
  <2> QED BY <2>3, <2>4
<1>5. ASSUME NEW F, F \in means[<<"and", i, j>>], Ends(words, "and", j)
      PROVE  <<F, j>> \in parse[<<"and", i>>]
  <2>1. CASE F \in means[<<"not", i, j>>]
    <3>1. <<F, j>> \in parse[<<"not", i>>]
      BY <1>5, <2>1 DEF AgreeAt, Ends, parse, means
    <3>2. MoreAnd(words, parse, <<F, j>>) = {<<F, j>>}
      BY <1>5 DEF MoreAnd, Ends
    <3> QED BY <1>1, <3>1, <3>2
  <2>2. CASE F \notin means[<<"not", i, j>>]
    <3>1. PICK k \in Places : F \in Of(k)
      BY <1>1, <1>5, <2>2
    <3>2. PICK f \in means[<<"not", i, k>>], g \in means[<<"and", k + 1, j>>] : F = f \cap g
      BY <3>1 DEF Of
    <3>3. k \in i + 1 .. j - 1 /\ Current(words, k) = <<"AND">>
      BY <1>3 DEF Places
    <3>4. Ends(words, "not", k)
      BY <3>3 DEF Ends
    <3>5. <<f, k>> \in parse[<<"not", i>>]
      BY <1>3, <3>2, <3>3, <3>4 DEF AgreeAt, parse, means
    <3>6. <<g, j>> \in parse[<<"and", k + 1>>]
      BY <1>3, <1>5, <3>2, <3>3 DEF AgreeAt, parse, means
    <3>7. <<MatchAll(f, g), j>> \in MoreAnd(words, parse, <<f, k>>)
      <4>1. /\ <<f, k>>[1] = f /\ <<f, k>>[2] = k
            /\ <<g, j>>[1] = g /\ <<g, j>>[2] = j
        OBVIOUS
      <4> QED BY <3>3, <3>6, <4>1 DEF MoreAnd
    <3>8. <<MatchAll(f, g), j>> \in parse[<<"and", i>>]
      BY <1>1, <3>5, <3>7
    <3> QED BY <3>2, <3>8 DEF MatchAll
  <2> QED BY <2>1, <2>2
<1> QED BY <1>4, <1>5 DEF AgreeAt, parse, means

LEMMA OrAgrees ==
  ASSUME NEW words, Len(words) \in Nat, NEW i \in 1 .. Len(words) + 1,
         NEW j \in 1 .. Len(words) + 1, i < j, AgreeBelow(words, j - i), AgreeAt(words, "and", i, j)
  PROVE  AgreeAt(words, "or", i, j)
<1> DEFINE parse == Parse(words)
           means == Grammar(words)
           Places == {k \in i + 1 .. j - 1 : words[k] = <<"OR">>}
           Of(k) == {f \cup g : f \in means[<<"and", i, k>>], g \in means[<<"or", k + 1, j>>]}
<1>1. /\ parse[<<"or", i>>] = UNION {MoreOr(words, parse, f) : f \in parse[<<"and", i>>]}
      /\ \A F : F \in means[<<"or", i, j>>] <=>
                F \in means[<<"and", i, j>>] \/ \E k \in Places : F \in Of(k)
  <2>1. parse[<<"or", i>>] = Or(words, parse, i) /\ means[<<"or", i, j>>] = OrMeans(words, means, i, j)
    BY ParseAt, GrammarAt
  <2>2. Or(words, parse, i) = UNION {MoreOr(words, parse, f) : f \in parse[<<"and", i>>]}
    BY DEF Or
  <2>3. OrMeans(words, means, i, j) = means[<<"and", i, j>>] \cup UNION {Of(k) : k \in Places}
    BY DEF OrMeans
  <2> HIDE DEF Of, Places, parse, means
  <2> QED BY <2>1, <2>2, <2>3
<1>2. parse[<<"and", i>>] \subseteq Outcomes(words, i)
  BY ParseAt
<1>3. ASSUME NEW k \in i + 1 .. j - 1
      PROVE  /\ Current(words, k) = words[k]
             /\ AgreeAt(words, "and", i, k) /\ AgreeAt(words, "or", k + 1, j)
  <2>1. /\ k \in 1 .. Len(words) + 1 /\ k + 1 \in 1 .. Len(words) + 1
        /\ k - i < j - i /\ j - (k + 1) < j - i /\ j - i \in Int
    OBVIOUS
  <2>2. AgreeAt(words, "and", i, k)
    BY <2>1, AgreeShorter
  <2>3. AgreeAt(words, "or", k + 1, j)
    BY <2>1, AgreeShorter
  <2>4. Current(words, k) = words[k]
    BY DEF Current
  <2> QED BY <2>2, <2>3, <2>4
<1> HIDE DEF parse, means, Places, Of
<1>4. ASSUME NEW F, <<F, j>> \in parse[<<"or", i>>]
      PROVE  F \in means[<<"or", i, j>>] /\ Ends(words, "or", j)
  <2>1. PICK f \in parse[<<"and", i>>] : <<F, j>> \in MoreOr(words, parse, f)
    BY <1>1, <1>4
  <2>2. f = <<f[1], f[2]>> /\ f[2] \in i + 1 .. Len(words) + 1
    BY <1>2, OutcomeParts
  <2>3. CASE Current(words, f[2]) # <<"OR">>
    <3>1. f = <<F, j>> /\ Current(words, j) # <<"OR">>
      BY <2>1, <2>2, <2>3 DEF MoreOr
    <3>2. F \in means[<<"and", i, j>>] /\ Ends(words, "and", j)
      BY <3>1 DEF AgreeAt, parse, means
    <3> QED BY <1>1, <3>1, <3>2 DEF Ends
  <2>4. CASE Current(words, f[2]) = <<"OR">>
    <3>1. PICK g \in parse[<<"or", f[2] + 1>>] : F = MatchAny(f[1], g[1]) /\ j = g[2]
      BY <2>1, <2>4 DEF MoreOr
    <3>2. f[2] \in i + 1 .. Len(words) /\ words[f[2]] = <<"OR">>
      BY <2>2, <2>4, CurrentIs
    <3>3. f[2] + 1 \in 1 .. Len(words) + 1 /\ f[2] + 1 \in Nat
      BY <3>2
    <3>4. parse[<<"or", f[2] + 1>>] \subseteq Outcomes(words, f[2] + 1)
      BY <3>3, ParseAt DEF parse
    <3>5. g = <<g[1], j>> /\ j \in (f[2] + 1) + 1 .. Len(words) + 1
      BY <3>1, <3>3, <3>4, OutcomeParts
    <3>6. f[2] \in i + 1 .. j - 1
      BY <3>2, <3>5
    <3>7. f[1] \in means[<<"and", i, f[2]>>]
      BY <1>3, <2>2, <3>6 DEF AgreeAt, parse, means
    <3>8. g[1] \in means[<<"or", f[2] + 1, j>>] /\ Ends(words, "or", j)
      BY <1>3, <3>5, <3>6 DEF AgreeAt, parse, means
    <3>9. f[2] \in Places
      BY <3>2, <3>6 DEF Places
    <3>10. F \in Of(f[2])
      BY <3>1, <3>7, <3>8 DEF MatchAny, Of
    <3> QED BY <1>1, <3>8, <3>9, <3>10
  <2> QED BY <2>3, <2>4
<1>5. ASSUME NEW F, F \in means[<<"or", i, j>>], Ends(words, "or", j)
      PROVE  <<F, j>> \in parse[<<"or", i>>]
  <2>1. CASE F \in means[<<"and", i, j>>]
    <3>1. <<F, j>> \in parse[<<"and", i>>]
      BY <1>5, <2>1 DEF AgreeAt, Ends, parse, means
    <3>2. MoreOr(words, parse, <<F, j>>) = {<<F, j>>}
      BY <1>5 DEF MoreOr, Ends
    <3> QED BY <1>1, <3>1, <3>2
  <2>2. CASE F \notin means[<<"and", i, j>>]
    <3>1. PICK k \in Places : F \in Of(k)
      BY <1>1, <1>5, <2>2
    <3>2. PICK f \in means[<<"and", i, k>>], g \in means[<<"or", k + 1, j>>] : F = f \cup g
      BY <3>1 DEF Of
    <3>3. k \in i + 1 .. j - 1 /\ Current(words, k) = <<"OR">>
      BY <1>3 DEF Places
    <3>4. Ends(words, "and", k)
      BY <3>3 DEF Ends
    <3>5. <<f, k>> \in parse[<<"and", i>>]
      BY <1>3, <3>2, <3>3, <3>4 DEF AgreeAt, parse, means
    <3>6. <<g, j>> \in parse[<<"or", k + 1>>]
      BY <1>3, <1>5, <3>2, <3>3 DEF AgreeAt, parse, means
    <3>7. <<MatchAny(f, g), j>> \in MoreOr(words, parse, <<f, k>>)
      <4>1. /\ <<f, k>>[1] = f /\ <<f, k>>[2] = k
            /\ <<g, j>>[1] = g /\ <<g, j>>[2] = j
        OBVIOUS
      <4> QED BY <3>3, <3>6, <4>1 DEF MoreOr
    <3>8. <<MatchAny(f, g), j>> \in parse[<<"or", i>>]
      BY <1>1, <3>5, <3>7
    <3> QED BY <3>2, <3>8 DEF MatchAny
  <2> QED BY <2>1, <2>2
<1> QED BY <1>4, <1>5 DEF AgreeAt, parse, means

LEMMA Agree ==
  ASSUME NEW words, Len(words) \in Nat
  PROVE  \A m \in {"or", "and", "not"}, i, j \in 1 .. Len(words) + 1 : AgreeAt(words, m, i, j)
<1> DEFINE Good == {n \in Nat : AgreeBelow(words, n)}
<1>1. ASSUME NEW n \in Nat, n \in Good
      PROVE  n + 1 \in Good
  <2>0. AgreeBelow(words, n)
    BY <1>1
  <2>1. ASSUME NEW k \in 1 .. Len(words) + 1, NEW l \in 1 .. Len(words) + 1, k < l, l - k < n + 1
        PROVE  \A m \in {"or", "and", "not"} : AgreeAt(words, m, k, l)
    <3>1. AgreeBelow(words, l - k)
      BY <2>0, <2>1 DEF AgreeBelow
    <3>2. AgreeAt(words, "not", k, l)
      BY <2>1, <3>1, NotAgrees
    <3>3. AgreeAt(words, "and", k, l)
      BY <2>1, <3>1, <3>2, AndAgrees
    <3>4. AgreeAt(words, "or", k, l)
      BY <2>1, <3>1, <3>3, OrAgrees
    <3> QED BY <3>2, <3>3, <3>4
  <2>2. AgreeBelow(words, n + 1)
    BY <2>1 DEF AgreeBelow
  <2> QED BY <2>2
<1>2. 0 \in Good
  <2>1. AgreeBelow(words, 0)
    BY DEF AgreeBelow
  <2> QED BY <2>1
<1>3. Len(words) + 1 \in Good
  <2> HIDE DEF Good
  <2>1. Good \in SUBSET Nat
    BY DEF Good
  <2>2. \A n \in Nat : n \in Good
    BY <1>1, <1>2, <2>1, Induction
  <2> QED BY <2>2
<1>4. AgreeBelow(words, Len(words) + 1)
  BY <1>3
<1>5. ASSUME NEW m \in {"or", "and", "not"}, NEW i \in 1 .. Len(words) + 1,
             NEW j \in 1 .. Len(words) + 1
      PROVE  AgreeAt(words, m, i, j)
  <2>1. j - i < Len(words) + 1
    OBVIOUS
  <2> QED BY <1>4, <2>1, AgreeShorter
<1> QED BY <1>5
(* A method returns once.                                                    *)
Once(S) == \A f, g \in S : f = g

LEMMA ReturnsOnce ==
  ASSUME NEW words, Len(words) \in Nat, NEW c \in Calls(words)
  PROVE  Once(Parse(words)[c])
<1> DEFINE parse == Parse(words)
           Good == {n \in Nat : \A d \in Calls(words) : Rank(words, d) = n => Once(parse[d])}
<1>1. ASSUME NEW n \in Nat, \A k \in Nat : k < n => k \in Good,
             NEW m \in {"or", "and", "not"}, NEW p \in 1 .. Len(words) + 1, Rank(words, <<m, p>>) = n
      PROVE  Once(parse[<<m, p>>])
  <2>0. ASSUME NEW d \in Calls(words), Rank(words, d) < n
        PROVE  Once(parse[d])
    BY <1>1, <2>0, Ranks
  <2>1. ASSUME NEW o \in {"or", "and", "not"}, NEW q \in p + 1 .. Len(words) + 1
        PROVE  Once(parse[<<o, q>>])
    <3>1. q \in 1 .. Len(words) + 1 /\ p < q
      OBVIOUS
    <3>2. <<o, q>> \in Calls(words) /\ Rank(words, <<o, q>>) < n
      BY <1>1, <3>1, Ranks
    <3> QED BY <2>0, <3>2
  <2>2. /\ parse[<<"or", p>>] = Or(words, parse, p) /\ parse[<<"and", p>>] = And(words, parse, p)
        /\ parse[<<"not", p>>] = Not(words, parse, p)
        /\ parse[<<"not", p>>] \subseteq Outcomes(words, p)
        /\ parse[<<"and", p>>] \subseteq Outcomes(words, p)
    BY ParseAt
  <2> HIDE DEF parse
  <2>3. CASE m = "not"
    <3>1. CASE Current(words, p) = <<"NOT">>
      <4>1. Once(parse[<<"not", p + 1>>])
        BY <2>1, <3>1, CurrentIs
      <4> QED BY <2>2, <2>3, <3>1, <4>1 DEF Not, Once
    <3>2. CASE Current(words, p) = <<"(">>
      <4>1. Once(parse[<<"or", p + 1>>]) /\ Current(words, p) # <<"NOT">>
        BY <2>1, <3>2, CurrentIs
      <4> QED BY <2>2, <2>3, <3>2, <4>1 DEF Not, Primary, Once
    <3>3. CASE Current(words, p) # <<"NOT">> /\ Current(words, p) # <<"(">>
      BY <2>2, <2>3, <3>3 DEF Not, Primary, Once
    <3> QED BY <3>1, <3>2, <3>3
  <2>4. CASE m = "and"
    <3>1. Once(parse[<<"not", p>>])
      BY <1>1, <2>0, <2>4, Ranks
    <3>2. ASSUME NEW f \in parse[<<"not", p>>]
          PROVE  Once(MoreAnd(words, parse, f))
      <4>1. f[2] \in p + 1 .. Len(words) + 1
        BY <2>2, OutcomeParts
      <4>2. CASE Current(words, f[2]) = <<"AND">>
        <5>1. Once(parse[<<"and", f[2] + 1>>])
          BY <2>1, <4>1, <4>2, CurrentIs
        <5> QED BY <4>2, <5>1 DEF MoreAnd, Once
      <4>3. CASE Current(words, f[2]) # <<"AND">>
        BY <4>3 DEF MoreAnd, Once
      <4> QED BY <4>2, <4>3
    <3> QED BY <2>2, <2>4, <3>1, <3>2 DEF And, Once
  <2>5. CASE m = "or"
    <3>1. Once(parse[<<"and", p>>])
      BY <1>1, <2>0, <2>5, Ranks
    <3>2. ASSUME NEW f \in parse[<<"and", p>>]
          PROVE  Once(MoreOr(words, parse, f))
      <4>1. f[2] \in p + 1 .. Len(words) + 1
        BY <2>2, OutcomeParts
      <4>2. CASE Current(words, f[2]) = <<"OR">>
        <5>1. Once(parse[<<"or", f[2] + 1>>])
          BY <2>1, <4>1, <4>2, CurrentIs
        <5> QED BY <4>2, <5>1 DEF MoreOr, Once
      <4>3. CASE Current(words, f[2]) # <<"OR">>
        BY <4>3 DEF MoreOr, Once
      <4> QED BY <4>2, <4>3
    <3> QED BY <2>2, <2>5, <3>1, <3>2 DEF Or, Once
  <2> QED BY <2>3, <2>4, <2>5
<1>2. ASSUME NEW n \in Nat, \A k \in Nat : k < n => k \in Good
      PROVE  n \in Good
  <2>1. \A d \in Calls(words) : Rank(words, d) = n => Once(parse[d])
    BY <1>1, <1>2, Ranks
  <2> QED BY <2>1
<1>3. \A n \in Nat : n \in Good
  <2> HIDE DEF Good
  <2>1. Good \in SUBSET Nat
    BY DEF Good
  <2> QED BY <1>2, <2>1, StrongInduction
<1>4. Rank(words, c) \in Nat
  BY Ranks
<1> QED BY <1>3, <1>4
---------------------------------------------------------------------------
(* Sequences joined into one.                                                *)
LEMMA Flattened ==
  ASSUME NEW A, NEW s \in Seq(Seq(A))
  PROVE  /\ s = <<>> => FlattenSeq(s) = <<>>
         /\ FlattenSeq(s) \in Seq(A)
         /\ \E f \in [1 .. Len(s) -> Seq(A)] :
              /\ s # <<>> => f[1] = s[1] /\ FlattenSeq(s) = f[Len(s)]
              /\ \A i \in 2 .. Len(s) : f[i] = f[i - 1] \o s[i]
<1> DEFINE S == 1 .. Len(s)
           T == Seq(A)
           R == [i \in S |-> T]
           rank == [i \in S |-> i]
           N == Len(s)
           Join(f, i) == IF i = 1 THEN s[i] ELSE f[i - 1] \o s[i]
           G == [f \in [S -> T] |-> [i \in S |-> Join(f, i)]]
           flat == CHOOSE f : f = [i \in S |-> Join(f, i)]
<1>1. \A x \in S : R[x] \subseteq T /\ R[x] # {}
  BY EmptySeq
<1>2. N \in Nat /\ rank \in [S -> 0 .. N]
  OBVIOUS
<1>3. \A f \in [S -> T] : \A i \in S : Join(f, i) \in T
  <2>1. ASSUME NEW f \in [S -> T], NEW i \in S, i # 1
        PROVE  f[i - 1] \o s[i] \in T
    <3>1. i - 1 \in S /\ i \in 1 .. Len(s)
      BY <2>1
    <3>2. f[i - 1] \in Seq(A) /\ s[i] \in Seq(A)
      BY <3>1, ElementOfSeq
    <3> QED BY <3>2, ConcatProperties
  <2>2. \A i \in S : s[i] \in T
    BY ElementOfSeq
  <2> QED BY <2>1, <2>2
<1>4. ASSUME NEW f \in [S -> T], NEW g \in [S -> T], NEW i \in S,
             \A k \in S : k < i => f[k] = g[k]
      PROVE  Join(f, i) = Join(g, i)
  <2>1. CASE i = 1
    BY <2>1
  <2>2. CASE i # 1
    <3>1. i - 1 \in S /\ i - 1 < i
      BY <2>2
    <3>2. f[i - 1] = g[i - 1]
      BY <1>4, <3>1
    <3> QED BY <2>2, <3>2
  <2> QED BY <2>1, <2>2
<1>5. Recursive(S, T, R, N, rank, G)
  <2> HIDE DEF Join
  <2>1. \A f \in [S -> T] : (\A x \in S : f[x] \in R[x]) => \A x \in S : G[f][x] \in R[x]
    BY <1>3
  <2>2. \A f, g \in [S -> T] :
          (\A x \in S : f[x] \in R[x]) /\ (\A x \in S : g[x] \in R[x]) =>
            \A x \in S : (\A y \in S : rank[y] < rank[x] => f[y] = g[y]) => G[f][x] = G[g][x]
    <3>1. \A i \in S : rank[i] = i
      OBVIOUS
    <3>2. \A f \in [S -> T], i \in S : G[f][i] = Join(f, i)
      OBVIOUS
    <3> HIDE DEF S, T, R, N, rank, G
    <3> QED BY <1>4, <3>1, <3>2
  <2> HIDE DEF S, T, R, N, rank, G
  <2> QED BY <1>1, <1>2, <2>1, <2>2, Zenon DEF Recursive
<1>6. \E f : f = [i \in S |-> Join(f, i)]
  <2>1. Solved(S, T, G)
    BY <1>5, Recursion
  <2>2. PICK f \in [S -> T] : \A x \in S : f[x] = G[f][x]
    BY <2>1 DEF Solved
  <2>3. f = [i \in S |-> Join(f, i)]
    <3> HIDE DEF Join
    <3> QED BY <2>2
  <2> QED BY <2>3
<1>7. flat = [i \in S |-> Join(flat, i)]
  <2> HIDE DEF Join
  <2> QED BY <1>6, Zenon
<1>8. Len(s) # 0 => FlattenSeq(s) = flat[Len(s)]
  BY DEF FlattenSeq
<1> HIDE DEF flat
<1>9. \A i \in S : flat[i] \in T
  <2> DEFINE Good == {n \in Nat : n + 1 \in S => flat[n + 1] \in T}
  <2>1. 0 \in Good
    BY <1>7
  <2>2. ASSUME NEW n \in Nat, n \in Good
        PROVE  n + 1 \in Good
    <3>1. ASSUME n + 2 \in S
          PROVE  flat[n + 2] = flat[n + 1] \o s[n + 2] /\ flat[n + 1] \in T /\ s[n + 2] \in T
      <4>1. n + 1 \in S /\ n + 2 \in S /\ n + 2 # 1 /\ (n + 2) - 1 = n + 1
        BY <3>1
      <4>2. flat[n + 2] = Join(flat, n + 2)
        BY <1>7, <4>1
      <4>3. s[n + 2] \in T
        BY <4>1, ElementOfSeq
      <4> QED BY <2>2, <4>1, <4>2, <4>3
    <3>2. n + 2 \in S => flat[n + 2] \in T
      BY <3>1, ConcatProperties
    <3> QED BY <3>2
  <2>3. \A n \in Nat : n \in Good
    <3> HIDE DEF Good
    <3>1. Good \in SUBSET Nat
      BY DEF Good
    <3> QED BY <2>1, <2>2, <3>1, Induction
  <2>4. ASSUME NEW i \in S
        PROVE  flat[i] \in T
    <3>1. i - 1 \in Nat /\ (i - 1) + 1 = i
      OBVIOUS
    <3> QED BY <2>3, <3>1
  <2> QED BY <2>4
<1>10. flat \in [S -> T]
  BY <1>7, <1>9
<1>11. /\ s # <<>> => flat[1] = s[1] /\ FlattenSeq(s) = flat[Len(s)]
       /\ \A i \in 2 .. Len(s) : flat[i] = flat[i - 1] \o s[i]
  <2>1. s # <<>> => Len(s) # 0 /\ 1 \in S
    BY EmptySeq
  <2>2. \A i \in 2 .. Len(s) : i \in S /\ i # 1
    OBVIOUS
  <2>3. \A i \in S : flat[i] = Join(flat, i)
    <3> HIDE DEF Join
    <3> QED BY <1>7
  <2> QED BY <1>8, <2>1, <2>2, <2>3
<1>12. s = <<>> => FlattenSeq(s) = <<>>
  BY DEF FlattenSeq
<1>13. FlattenSeq(s) \in Seq(A)
  <2>1. CASE s = <<>>
    BY <1>12, <2>1, EmptySeq
  <2>2. CASE s # <<>>
    <3>1. Len(s) \in S
      BY <2>2, EmptySeq
    <3> QED BY <1>9, <1>11, <2>2, <3>1
  <2> QED BY <2>1, <2>2
<1> QED BY <1>10, <1>11, <1>12, <1>13
---------------------------------------------------------------------------
(* The words of a line.                                                      *)
LEMMA LeastNumber ==
  ASSUME NEW S \in SUBSET Nat, S # {}
  PROVE  \E k \in S : \A l \in S : k <= l
<1>1. PICK k \in S : \A l \in S : ~(<<l, k>> \in OpToRel(<, Nat))
  BY NatLessThanWellFounded, WFMin
<1>2. ASSUME NEW l \in S
      PROVE  k <= l
  <2>1. <<l, k>> \in Nat \X Nat /\ ~(<<l, k>>[1] < <<l, k>>[2])
    BY <1>1 DEF OpToRel
  <2> QED BY <2>1
<1> QED BY <1>2

LEMMA LeadingIs ==
  ASSUME NEW A, NEW s \in Seq(A), NEW c
  PROVE  /\ Leading(s, c) \in 0 .. Len(s)
         /\ \A i \in 1 .. Leading(s, c) : s[i] = c
         /\ Leading(s, c) < Len(s) => s[Leading(s, c) + 1] # c
<1> DEFINE Ending == {n \in Nat : n <= Len(s) /\ (n < Len(s) => s[n + 1] # c)}
<1>1. Len(s) \in Nat /\ Len(s) \in Ending
  OBVIOUS
<1>2. PICK k \in Ending : \A l \in Ending : k <= l
  <2>1. Ending \in SUBSET Nat /\ Ending # {}
    BY <1>1
  <2> HIDE DEF Ending
  <2> QED BY <2>1, LeastNumber
<1>3. ASSUME NEW i \in 1 .. k
      PROVE  s[i] = c
  <2>1. i - 1 \in Nat /\ i - 1 < k /\ (i - 1) + 1 = i
    BY <1>2
  <2>2. i - 1 \notin Ending
    <3>1. Ending \subseteq Nat
      OBVIOUS
    <3> HIDE DEF Ending
    <3> QED BY <1>2, <2>1, <3>1
  <2> QED BY <2>1, <2>2
<1>4. k \in 0 .. Len(s) /\ (\A i \in 1 .. k : s[i] = c) /\ (k < Len(s) => s[k + 1] # c)
  BY <1>2, <1>3
<1>5. \E n \in 0 .. Len(s) : (\A i \in 1 .. n : s[i] = c) /\ (n < Len(s) => s[n + 1] # c)
  BY <1>4
<1> QED BY <1>5, Zenon DEF Leading

LEMMA Reversed ==
  ASSUME NEW A, NEW s \in Seq(A)
  PROVE  Reverse(s) \in Seq(A) /\ Len(Reverse(s)) = Len(s)
<1>1. \A i \in 1 .. Len(s) : (Len(s) - i) + 1 \in 1 .. Len(s)
  OBVIOUS
<1>2. \A i \in 1 .. Len(s) : s[(Len(s) - i) + 1] \in A
  BY <1>1, ElementOfSeq
<1> QED BY <1>2 DEF Reverse

LEMMA WordsOfField ==
  ASSUME NEW A, "(" \in A, ")" \in A, NEW field \in Seq(A)
  PROVE  Words(field) \in Seq(Seq(A))
<1> DEFINE opens == Leading(field, "(")
           rest == SubSeq(field, opens + 1, Len(field))
           closes == Leading(Reverse(rest), ")")
           body == SubSeq(rest, 1, Len(rest) - closes)
           first == [i \in 1 .. opens |-> <<"(">>]
           middle == IF body = <<>> THEN <<>> ELSE <<body>>
           right == [i \in 1 .. closes |-> <<")">>]
<1>1. opens \in Nat /\ opens <= Len(field)
  BY LeadingIs
<1>2. rest \in Seq(A)
  <2>1. \A i \in opens + 1 .. Len(field) : field[i] \in A
    BY <1>1, ElementOfSeq
  <2> QED BY <1>1, <2>1, SubSeqProperties
<1>3. closes \in Nat /\ closes <= Len(rest) /\ Len(rest) \in Nat
  <2> HIDE DEF rest
  <2>1. Reverse(rest) \in Seq(A) /\ Len(Reverse(rest)) = Len(rest) /\ Len(rest) \in Nat
    BY <1>2, Reversed
  <2>2. closes \in 0 .. Len(Reverse(rest))
    BY <2>1, LeadingIs
  <2> HIDE DEF closes
  <2> QED BY <2>1, <2>2
<1>4. body \in Seq(A)
  <2> HIDE DEF rest, closes
  <2>1. \A i \in 1 .. Len(rest) - closes : rest[i] \in A
    <3>1. \A i \in 1 .. Len(rest) - closes : i \in 1 .. Len(rest)
      BY <1>3
    <3> QED BY <1>2, <3>1, ElementOfSeq
  <2> QED BY <1>2, <1>3, <2>1, SubSeqProperties
<1>5. <<"(">> \in Seq(A) /\ <<")">> \in Seq(A)
  OBVIOUS
<1>6. first \in Seq(Seq(A)) /\ right \in Seq(Seq(A))
  <2> HIDE DEF opens, closes
  <2> QED BY <1>1, <1>3, <1>5
<1>7. middle \in Seq(Seq(A))
  <2> HIDE DEF body
  <2> QED BY <1>4
<1>8. Words(field) = first \o middle \o right
  BY DEF Words
<1> HIDE DEF first, middle, right
<1> QED BY <1>6, <1>7, <1>8, ConcatProperties

LEMMA TokensOfLine ==
  ASSUME NEW A, "(" \in A, ")" \in A, NEW fields \in Seq(Seq(A))
  PROVE  /\ Tokens(fields) \in Seq(Seq(A)) /\ Len(Tokens(fields)) \in Nat
         /\ [i \in DOMAIN fields |-> Words(fields[i])] \in Seq(Seq(Seq(A)))
<1>1. \A i \in 1 .. Len(fields) : Words(fields[i]) \in Seq(Seq(A))
  BY ElementOfSeq, WordsOfField
<1>2. [i \in DOMAIN fields |-> Words(fields[i])] \in Seq(Seq(Seq(A)))
  <2>1. DOMAIN fields = 1 .. Len(fields) /\ Len(fields) \in Nat
    OBVIOUS
  <2> QED BY <1>1, <2>1
<1>3. Tokens(fields) \in Seq(Seq(A))
  BY <1>2, Flattened DEF Tokens
<1> QED BY <1>2, <1>3
---------------------------------------------------------------------------
(* What has been typed is a sequence of words or, of a key, of symbols.      *)
Pieces(k) == UNION {Range(piece) : piece \in Alphabet[k]}
SymbolsOf(k) == {"(", ")"} \cup UNION {Range(word) : word \in Pieces(k)}

Typed == kind \in Kinds /\ line \in Seq(Pieces(kind))

LEMMA WiderSeq ==
  ASSUME NEW A, NEW B, A \subseteq B, NEW s \in Seq(A)
  PROVE  s \in Seq(B)
OBVIOUS

LEMMA PieceTyped ==
  ASSUME NEW k \in Kinds, NEW piece \in Alphabet[k]
  PROVE  piece \in Seq(Pieces(k))
<1>1. piece \in Seq(Range(piece)) /\ Range(piece) \subseteq Pieces(k)
  BY AlphabetAssumption DEF Pieces
<1> HIDE DEF Pieces
<1> QED BY <1>1, WiderSeq

LEMMA WordTyped ==
  ASSUME NEW k \in Kinds, k # "key", NEW word \in Pieces(k)
  PROVE  word \in Seq(SymbolsOf(k)) /\ word # <<>>
<1>1. PICK piece \in Alphabet[k] : word \in Range(piece)
  BY DEF Pieces
<1>2. word \in Seq(Range(word)) /\ word # <<>>
  BY <1>1, AlphabetAssumption
<1>3. Range(word) \subseteq SymbolsOf(k)
  BY DEF SymbolsOf
<1> QED BY <1>2, <1>3, WiderSeq

(* What has been typed is always a sequence of words or, of a key, of        *)
(* symbols: Exec is never asked about anything else.                         *)
THEOREM AllTyped == Spec => []Typed
<1>1. Init => Typed
  BY EmptySeq DEF Init, Typed
<1>2. Typed /\ [Next]_vars => Typed'
  <2> SUFFICES ASSUME Typed, [Next]_vars
               PROVE  Typed'
    OBVIOUS
  <2>1. CASE UNCHANGED vars
    BY <2>1 DEF vars, Typed
  <2>2. ASSUME NEW piece \in Alphabet[kind], Type(piece)
        PROVE  Typed'
    <3>1. piece \in Seq(Pieces(kind)) /\ line \in Seq(Pieces(kind)) /\ kind \in Kinds
      BY PieceTyped DEF Typed
    <3>2. line \o piece \in Seq(Pieces(kind))
      BY <3>1, ConcatProperties
    <3> QED BY <2>2, <3>1, <3>2 DEF Type, Typed
  <2> QED BY <2>1, <2>2 DEF Next
<1> QED BY <1>1, <1>2, PTL DEF Spec

LEMMA LineOfWords ==
  ASSUME Typed, kind # "key"
  PROVE  line \in Seq(Seq(SymbolsOf(kind))) /\ "(" \in SymbolsOf(kind) /\ ")" \in SymbolsOf(kind)
<1>1. Pieces(kind) \subseteq Seq(SymbolsOf(kind))
  BY WordTyped DEF Typed
<1> QED BY <1>1, WiderSeq DEF Typed, SymbolsOf
---------------------------------------------------------------------------
(* An expression means what the grammar says, and one thing only.            *)
LEMMA FilterIsMeaning ==
  ASSUME NEW fields, Len(Tokens(fields)) \in Nat
  PROVE  AtoFilter(fields) = Meanings(fields) /\ Once(AtoFilter(fields))
<1> DEFINE words == Tokens(fields)
           last == Len(words) + 1
           returned == Parse(words)[<<"or", 1>>]
<1>0. 1 \in 1 .. last /\ last \in 1 .. last
  OBVIOUS
<1>1. AtoFilter(fields) = {f[1] : f \in {g \in returned : g[2] = last}}
  BY DEF AtoFilter
<1>2. returned \subseteq Outcomes(words, 1)
  BY <1>0, ParseAt
<1>3. Ends(words, "or", last)
  BY DEF Ends, Current
<1>4. \A F : <<F, last>> \in returned <=> F \in Grammar(words)[<<"or", 1, last>>]
  BY <1>0, <1>3, Agree DEF AgreeAt
<1>5. Once(returned)
  BY <1>0, Ranks, ReturnsOnce
<1>6. Meanings(fields) = Grammar(words)[<<"or", 1, last>>]
  BY DEF Meanings
<1> HIDE DEF words, last, returned
<1>7. \A f \in returned : f[2] = last => f = <<f[1], last>>
  BY <1>2 DEF Outcomes
<1>8. \A F : F \in AtoFilter(fields) <=> <<F, last>> \in returned
  BY <1>1, <1>7
<1>9. Once(AtoFilter(fields))
  BY <1>1, <1>5 DEF Once
<1> QED BY <1>4, <1>6, <1>8, <1>9

(* An expression is accepted exactly when the grammar has a meaning for it,  *)
(* which is then the only one, and the filter that AtoFilter makes matches   *)
(* the objects it means: OR, AND, NOT and parentheses, glued to words or     *)
(* not, bind as documented, for expressions of any length.                   *)
THEOREM FilterTheorem == Spec => []FiltersMeanGrammar
<1>1. Typed => FiltersMeanGrammar
  <2> SUFFICES ASSUME Typed, kind = "filter"
               PROVE  AtoFilter(line) = Meanings(line) /\ \A f, g \in AtoFilter(line) : f = g
    BY DEF FiltersMeanGrammar
  <2>1. Len(Tokens(line)) \in Nat
    BY LineOfWords, TokensOfLine
  <2> QED BY <2>1, FilterIsMeaning DEF Once
<1> QED BY <1>1, AllTyped, PTL
---------------------------------------------------------------------------
(* Comparisons. What is not a text is a NaN or a whole number.               *)
LEMMA DenotesIs ==
  ASSUME NEW word
  PROVE  IsNumber(Denotes(word)) =>
           Denotes(word) = NaN \/ Content(Denotes(word)) \in Int
<1>1. CASE word \in DOMAIN Numbers
  BY <1>1, NumbersAssumption DEF Denotes
<1>2. CASE word \notin DOMAIN Numbers
  BY <1>2 DEF Denotes, Text, Leaf, IsNumber, Kind
<1> QED BY <1>1, <1>2

LEMMA RoundedIs ==
  ASSUME NEW n \in Int
  PROVE  Rounded(n) \in Int
BY DEF Rounded

LEMMA OrderIs ==
  ASSUME NEW a, NEW b, IsNumber(a) => a = NaN \/ Content(a) \in Int,
         IsNumber(b) => b = NaN \/ Content(b) \in Int
  PROVE  /\ ~(Above(a, b) /\ Above(b, a)) /\ ~(Above(a, b) /\ Level(a, b))
         /\ Level(a, b) <=> Level(b, a)
         /\ ~(Above(b, a) /\ Level(a, b))
         /\ Ordered(a, b) <=> Above(a, b) \/ Above(b, a) \/ Level(a, b)
<1>1. CASE Ordered(a, b)
  <2>1. Content(a) \in Int /\ Content(b) \in Int
    BY <1>1 DEF Ordered
  <2>2. Rounded(Content(a)) \in Int /\ Rounded(Content(b)) \in Int
    BY <2>1, RoundedIs
  <2>3. Ordered(b, a)
    BY <1>1 DEF Ordered
  <2> QED BY <1>1, <2>2, <2>3 DEF Above, Level
<1>2. CASE ~Ordered(a, b)
  <2>1. ~Ordered(b, a)
    BY <1>2 DEF Ordered
  <2> QED BY <1>2, <2>1 DEF Above, Level
<1> QED BY <1>1, <1>2

LEMMA MatchIs ==
  ASSUME NEW a, NEW b
  PROVE  /\ Match(a, "EqualTo", b) <=> a = b
         /\ Match(a, "NotEqualTo", b) <=> a # b
         /\ Match(a, "GreaterThan", b) <=> Above(a, b)
         /\ Match(a, "GreaterThanOrEqualTo", b) <=> Above(a, b) \/ Level(a, b)
         /\ Match(a, "LessThan", b) <=> Above(b, a)
         /\ Match(a, "LessThanOrEqualTo", b) <=> Above(b, a) \/ Level(a, b)
<1>1. Match(a, "EqualTo", b) <=> a = b
  BY DEF Match
<1>2. Match(a, "NotEqualTo", b) <=> a # b
  BY DEF Match
<1>3. Match(a, "GreaterThan", b) <=> Above(a, b)
  BY DEF Match
<1>4. Match(a, "GreaterThanOrEqualTo", b) <=> Above(a, b) \/ Level(a, b)
  BY DEF Match
<1>5. Match(a, "LessThan", b) <=> Above(b, a)
  BY DEF Match
<1>6. Match(a, "LessThanOrEqualTo", b) <=> Above(b, a) \/ Level(a, b)
  BY DEF Match
<1> QED BY <1>1, <1>2, <1>3, <1>4, <1>5, <1>6

(* The operators of a filter agree with each other on any two words, numbers *)
(* or not: no two orders hold at once, '>=' and '<=' are what they say, and  *)
(* what is no number or not a number has no order (operation.go, Match).     *)
THEOREM ComparisonTheorem == Spec => []ComparisonsAgree
<1>1. ComparisonsAgree
  <2> DEFINE a == Denotes(line[1])
             b == Denotes(line[2])
             Is(op) == Match(a, op, b)
             both == Is("GreaterThanOrEqualTo") /\ Is("LessThanOrEqualTo")
  <2>1. /\ IsNumber(a) => a = NaN \/ Content(a) \in Int
        /\ IsNumber(b) => b = NaN \/ Content(b) \in Int
    BY DenotesIs
  <2>2. /\ Is("EqualTo") <=> a = b
        /\ Is("NotEqualTo") <=> a # b
        /\ Is("GreaterThan") <=> Above(a, b)
        /\ Is("GreaterThanOrEqualTo") <=> Above(a, b) \/ Level(a, b)
        /\ Is("LessThan") <=> Above(b, a)
        /\ Is("LessThanOrEqualTo") <=> Above(b, a) \/ Level(a, b)
    BY MatchIs
  <2>3. a = b /\ IsNumber(a) /\ a # NaN => Level(a, b)
    BY DEF Level, Ordered
  <2> HIDE DEF a, b
  <2>4. /\ ~(Above(a, b) /\ Above(b, a)) /\ ~(Above(a, b) /\ Level(a, b))
        /\ Level(a, b) <=> Level(b, a)
        /\ ~(Above(b, a) /\ Level(a, b))
        /\ Ordered(a, b) <=> Above(a, b) \/ Above(b, a) \/ Level(a, b)
    BY <2>1, OrderIs
  <2> HIDE DEF Is
  <2>5. /\ ~(Is("GreaterThan") /\ Is("LessThan"))
        /\ Is("GreaterThanOrEqualTo") <=> Is("GreaterThan") \/ both
        /\ Is("LessThanOrEqualTo") <=> Is("LessThan") \/ both
        /\ Ordered(a, b) <=> Is("GreaterThan") \/ Is("LessThan") \/ both
        /\ Is("EqualTo") /\ IsNumber(a) /\ a # NaN => both
        /\ Is("NotEqualTo") <=> ~Is("EqualTo")
    BY <2>2, <2>3, <2>4
  <2> QED BY <2>5 DEF ComparisonsAgree, a, b, Is
<1> QED BY <1>1, PTL
---------------------------------------------------------------------------
(* The key and the field that a word names.                                  *)
NameAt(word) == [i \in DOMAIN word |-> IF word[i] = "." THEN <<>> ELSE <<word[i]>>]

LEMMA NameAtTyped ==
  ASSUME NEW A, NEW word \in Seq(A)
  PROVE  /\ NameAt(word) \in Seq(Seq(A)) /\ Len(NameAt(word)) = Len(word)
         /\ \A i \in 1 .. Len(word) :
              NameAt(word)[i] = IF word[i] = "." THEN <<>> ELSE <<word[i]>>
<1>1. DOMAIN word = 1 .. Len(word) /\ Len(word) \in Nat
  OBVIOUS
<1>2. \A i \in 1 .. Len(word) : <<>> \in Seq(A) /\ <<word[i]>> \in Seq(A)
  BY ElementOfSeq
<1> QED BY <1>1, <1>2 DEF NameAt

LEMMA NoNames == Names(<<>>) = <<>>
<1>1. NameAt(<<>>) = <<>>
  BY DEF NameAt
<1> QED BY <1>1 DEF Names, NameAt, FlattenSeq

LEMMA SomeNames ==
  ASSUME NEW A, NEW word \in Seq(A), NEW k \in 1 .. Len(word), word[k] # "."
  PROVE  Names(word) # <<>>
<1> DEFINE s == NameAt(word)
           Good(f) == {n \in Nat : n + k <= Len(word) => f[n + k] # <<>>}
<1>1. /\ s \in Seq(Seq(A)) /\ Len(s) = Len(word)
      /\ \A i \in 1 .. Len(word) : s[i] = IF word[i] = "." THEN <<>> ELSE <<word[i]>>
  BY NameAtTyped
<1>2. Names(word) = FlattenSeq(s)
  BY DEF Names, NameAt
<1> HIDE DEF s
<1>3. PICK f \in [1 .. Len(s) -> Seq(A)] :
        /\ s # <<>> => f[1] = s[1] /\ FlattenSeq(s) = f[Len(s)]
        /\ \A i \in 2 .. Len(s) : f[i] = f[i - 1] \o s[i]
  <2>1. s \in Seq(Seq(A))
    BY <1>1
  <2> QED BY ONLY <2>1, Flattened
<1>4. s # <<>> /\ Len(word) \in Nat /\ k \in Nat /\ k <= Len(word)
  BY <1>1
<1>5. 0 \in Good(f)
  <2>1. s[k] = <<word[k]>> /\ word[k] \in A
    BY <1>1, ElementOfSeq
  <2>2. CASE k = 1
    <3>1. f[k] = s[k]
      BY <2>2, <1>3, <1>4
    <3>2. f[k] # <<>>
      BY <2>1, <3>1
    <3> QED BY <3>2
  <2>3. CASE k # 1
    <3>1. k - 1 \in 1 .. Len(s) /\ k \in 2 .. Len(s)
      BY <2>3, <1>1, <1>4
    <3>2. f[k] = f[k - 1] \o s[k] /\ f[k - 1] \in Seq(A)
      BY <1>3, <3>1
    <3>3. f[k] # <<>>
      BY <2>1, <3>2
    <3> QED BY <3>3
  <2>4. 0 + k = k
    BY <1>4
  <2> QED BY <2>2, <2>3, <2>4
<1>6. ASSUME NEW n \in Nat, n \in Good(f)
      PROVE  n + 1 \in Good(f)
  <2>1. ASSUME (n + 1) + k <= Len(word)
        PROVE  f[(n + 1) + k] # <<>>
    <3>1. (n + 1) + k \in 2 .. Len(s) /\ ((n + 1) + k) - 1 = n + k /\ n + k \in 1 .. Len(s)
      BY <2>1, <1>1, <1>4
    <3>2. f[(n + 1) + k] = f[n + k] \o s[(n + 1) + k]
      BY <1>3, <3>1
    <3>3. f[n + k] # <<>> /\ f[n + k] \in Seq(A)
      <4>1. n + k <= Len(word)
        BY <3>1, <1>1, <1>4
      <4>2. f[n + k] # <<>>
        BY <1>6, <4>1
      <4> QED BY <4>2, <1>3, <3>1
    <3>4. s[(n + 1) + k] \in Seq(A)
      <4>1. (n + 1) + k \in 1 .. Len(s)
        BY <3>1
      <4> QED BY <4>1, <1>1, ElementOfSeq
    <3> QED BY <3>2, <3>3, <3>4, ConcatEqualIffEmpty
  <2> QED BY <2>1
<1>7. \A n \in Nat : n \in Good(f)
  <2>1. Good(f) \in SUBSET Nat
    OBVIOUS
  <2> HIDE DEF Good
  <2> QED BY <1>5, <1>6, <2>1, Induction
<1>8. Len(word) - k \in Nat /\ (Len(word) - k) + k = Len(word)
  BY <1>4
<1>9. f[Len(word)] # <<>>
  BY <1>7, <1>8
<1> QED BY <1>1, <1>2, <1>3, <1>4, <1>9

LEMMA NamesAfterDot ==
  ASSUME NEW A, NEW word \in Seq(A), NEW rest \in Seq(A), Len(word) = Len(rest) + 1,
         word[1] = ".", \A i \in 1 .. Len(rest) : rest[i] = word[i + 1]
  PROVE  Names(word) = Names(rest)
<1> DEFINE s == NameAt(word)
           t == NameAt(rest)
           Good(f, g) == {n \in Nat : n + 1 <= Len(rest) => f[n + 2] = g[n + 1]}
<1>1. /\ s \in Seq(Seq(A)) /\ Len(s) = Len(word)
      /\ \A i \in 1 .. Len(word) : s[i] = IF word[i] = "." THEN <<>> ELSE <<word[i]>>
  BY NameAtTyped
<1>2. /\ t \in Seq(Seq(A)) /\ Len(t) = Len(rest)
      /\ \A i \in 1 .. Len(rest) : t[i] = IF rest[i] = "." THEN <<>> ELSE <<rest[i]>>
  BY NameAtTyped
<1>3. Names(word) = FlattenSeq(s) /\ Names(rest) = FlattenSeq(t)
  BY DEF Names, NameAt
<1>4. Len(rest) \in Nat /\ Len(word) \in Nat
  OBVIOUS
<1> HIDE DEF s, t
<1>5. s[1] = <<>>
  <2>1. 1 \in 1 .. Len(word)
    BY <1>4
  <2> QED BY <2>1, <1>1
<1>6. ASSUME NEW i \in 1 .. Len(rest)
      PROVE  i + 1 \in 1 .. Len(word) /\ t[i] = s[i + 1]
  <2>1. i + 1 \in 1 .. Len(word)
    BY <1>4
  <2>2. s[i + 1] = IF word[i + 1] = "." THEN <<>> ELSE <<word[i + 1]>>
    BY <2>1, <1>1
  <2>3. t[i] = IF word[i + 1] = "." THEN <<>> ELSE <<word[i + 1]>>
    BY <1>2
  <2> QED BY <2>1, <2>2, <2>3
<1>7. PICK f \in [1 .. Len(s) -> Seq(A)] :
        /\ s # <<>> => f[1] = s[1] /\ FlattenSeq(s) = f[Len(s)]
        /\ \A i \in 2 .. Len(s) : f[i] = f[i - 1] \o s[i]
  <2>1. s \in Seq(Seq(A))
    BY <1>1
  <2> QED BY ONLY <2>1, Flattened
<1>8. PICK g \in [1 .. Len(t) -> Seq(A)] :
        /\ t # <<>> => g[1] = t[1] /\ FlattenSeq(t) = g[Len(t)]
        /\ \A i \in 2 .. Len(t) : g[i] = g[i - 1] \o t[i]
  <2>1. t \in Seq(Seq(A))
    BY <1>2
  <2> QED BY ONLY <2>1, Flattened
<1>9. s # <<>>
  BY <1>1, <1>4
<1>10. CASE rest = <<>>
  <2>1. t = <<>> /\ Len(s) = 1
    BY <1>1, <1>2, <1>10
  <2>2. FlattenSeq(t) = <<>>
    BY <1>2, <2>1, Flattened
  <2>3. FlattenSeq(s) = s[1]
    BY <1>7, <1>9, <2>1
  <2> QED BY <1>3, <1>5, <2>2, <2>3
<1>11. CASE rest # <<>>
  <2>0. t # <<>> /\ Len(rest) >= 1
    BY <1>2, <1>4, <1>11
  <2>1. 0 \in Good(f, g)
    <3>1. 2 \in 2 .. Len(s) /\ 2 - 1 = 1 /\ 1 \in 1 .. Len(rest) /\ 1 + 1 = 2
      BY <1>1, <1>4, <2>0
    <3>2. f[2] = f[1] \o s[2] /\ f[1] = s[1] /\ g[1] = t[1] /\ s[2] = t[1]
      BY <1>6, <1>7, <1>8, <1>9, <2>0, <3>1
    <3>3. f[2] = t[1]
      <4>1. t[1] \in Seq(A)
        BY <1>2, <3>1, ElementOfSeq
      <4> QED BY <3>2, <1>5, <4>1, ConcatEmptySeq
    <3>4. 0 + 1 = 1 /\ 0 + 2 = 2
      OBVIOUS
    <3> QED BY <3>2, <3>3, <3>4
  <2>2. ASSUME NEW n \in Nat, n \in Good(f, g)
        PROVE  n + 1 \in Good(f, g)
    <3>1. ASSUME (n + 1) + 1 <= Len(rest)
          PROVE  f[(n + 1) + 2] = g[(n + 1) + 1]
      <4>1. /\ (n + 1) + 2 \in 2 .. Len(s) /\ ((n + 1) + 2) - 1 = n + 2
            /\ (n + 1) + 1 \in 2 .. Len(t) /\ ((n + 1) + 1) - 1 = n + 1
            /\ (n + 1) + 1 \in 1 .. Len(rest) /\ ((n + 1) + 1) + 1 = (n + 1) + 2
            /\ n + 1 <= Len(rest)
        <5>1. Len(s) = Len(rest) + 1 /\ Len(t) = Len(rest)
          BY <1>1, <1>2
        <5> QED BY <5>1, <3>1, <1>4
      <4>2. f[(n + 1) + 2] = f[n + 2] \o s[(n + 1) + 2]
        BY <1>7, <4>1
      <4>3. g[(n + 1) + 1] = g[n + 1] \o t[(n + 1) + 1]
        BY <1>8, <4>1
      <4>4. f[n + 2] = g[n + 1]
        BY <2>2, <4>1
      <4>5. t[(n + 1) + 1] = s[(n + 1) + 2]
        BY <1>6, <4>1
      <4> QED BY <4>2, <4>3, <4>4, <4>5
    <3> QED BY <3>1
  <2>3. \A n \in Nat : n \in Good(f, g)
    <3>1. Good(f, g) \in SUBSET Nat
      OBVIOUS
    <3> HIDE DEF Good
    <3> QED BY <2>1, <2>2, <3>1, Induction
  <2>4. Len(rest) - 1 \in Nat /\ (Len(rest) - 1) + 1 = Len(rest) /\ (Len(rest) - 1) + 2 = Len(word)
    BY <1>4, <2>0
  <2>5. f[Len(word)] = g[Len(rest)]
    <3> DEFINE n == Len(rest) - 1
    <3>1. n \in Good(f, g)
      BY <2>3, <2>4
    <3>2. n + 1 = Len(rest) /\ n + 2 = Len(word) /\ n + 1 <= Len(rest)
      BY <2>4, <1>4
    <3> HIDE DEF n
    <3> QED BY <3>1, <3>2
  <2> QED BY <1>1, <1>2, <1>3, <1>7, <1>8, <1>9, <2>0, <2>5
<1> QED BY <1>10, <1>11

(* The first dot of a word, or its end.                                      *)
FirstDot(word, cut) ==
  /\ cut \in 0 .. Len(word)
  /\ cut < Len(word) => word[cut + 1] = "."
  /\ \A j \in 1 .. cut : word[j] # "."

LEMMA SplitKeyIs ==
  ASSUME NEW A, NEW word \in Seq(A), NEW cut, FirstDot(word, cut)
  PROVE  /\ SplitKey(word) = <<SubSeq(word, 1, cut), Names(SubSeq(word, cut + 1, Len(word)))>>
         /\ cut = Len(word) => SplitKey(word) = <<word, <<>>>> /\ "." \notin Range(word)
<1>0. /\ DOMAIN word = 1 .. Len(word) /\ Len(word) \in Nat /\ cut \in Nat /\ cut <= Len(word)
      /\ cut < Len(word) => word[cut + 1] = "."
      /\ \A j \in 1 .. cut : word[j] # "."
  BY DEF FirstDot
<1> DEFINE dots == {i \in DOMAIN word : word[i] = "."}
<1>1. CASE cut = Len(word)
  <2>1. dots = {}
    BY <1>0, <1>1
  <2>2. SplitKey(word) = <<word, <<>>>>
    BY <2>1 DEF SplitKey
  <2>3. SubSeq(word, 1, cut) = word /\ SubSeq(word, cut + 1, Len(word)) = <<>>
    <3>1. cut + 1 \in Int /\ Len(word) < cut + 1
      BY <1>0, <1>1
    <3> QED BY <1>1, <1>0, <3>1, SubSeqFull, SubSeqEmpty
  <2>4. "." \notin Range(word)
    BY <1>0, <2>1 DEF Range
  <2> QED BY <2>2, <2>3, <2>4, NoNames
<1>2. CASE cut # Len(word)
  <2> DEFINE first == CHOOSE i \in dots : \A j \in dots : i <= j
  <2>1. cut < Len(word) /\ cut + 1 \in 1 .. Len(word) /\ word[cut + 1] = "."
    <3>1. Len(word) \in Int /\ cut \in Int /\ cut <= Len(word) /\ cut >= 0
      BY <1>0
    <3>2. cut < Len(word) /\ cut + 1 \in 1 .. Len(word)
      BY <3>1, <1>2
    <3> QED BY <3>2, <1>0
  <2>2. cut + 1 \in dots /\ \A j \in dots : cut + 1 <= j
    BY <1>0, <2>1
  <2>3. first = cut + 1
    <3>1. first \in dots /\ \A j \in dots : first <= j
      BY <2>2
    <3>2. first \in Int /\ cut + 1 \in Int
      BY <3>1, <1>0
    <3> HIDE DEF dots, first
    <3>3. first <= cut + 1 /\ cut + 1 <= first
      BY <3>1, <2>2
    <3> QED BY <3>2, <3>3
  <2>4. dots # {}
    BY <2>2
  <2>5. SplitKey(word) = <<SubSeq(word, 1, (cut + 1) - 1), Names(SubSeq(word, (cut + 1) + 1, Len(word)))>>
    BY <2>3, <2>4 DEF SplitKey
  <2>6. Names(SubSeq(word, cut + 1, Len(word))) = Names(SubSeq(word, (cut + 1) + 1, Len(word)))
    <3> DEFINE whole == SubSeq(word, cut + 1, Len(word))
               rest == SubSeq(word, (cut + 1) + 1, Len(word))
    <3>1. \A i \in cut + 1 .. Len(word) : word[i] \in A
      BY <1>0, ElementOfSeq
    <3>2. /\ whole \in Seq(A) /\ Len(whole) = Len(word) - cut
          /\ \A i \in 1 .. Len(word) - cut : whole[i] = word[cut + i]
      BY <1>0, <2>1, <3>1
    <3>3. /\ rest \in Seq(A) /\ Len(rest) = (Len(word) - cut) - 1
          /\ \A i \in 1 .. (Len(word) - cut) - 1 : rest[i] = word[cut + (i + 1)]
      <4>1. \A i \in (cut + 1) + 1 .. Len(word) : word[i] \in A
        BY <1>0, <3>1
      <4>2. (cut + 1) + 1 \in Int /\ Len(word) \in Int
        BY <1>0
      <4>3. /\ rest \in Seq(A)
            /\ Len(rest) = IF (cut + 1) + 1 <= Len(word) THEN (Len(word) - ((cut + 1) + 1)) + 1 ELSE 0
            /\ \A i \in 1 .. (Len(word) - ((cut + 1) + 1)) + 1 : rest[i] = word[(((cut + 1) + 1) + i) - 1]
        BY <4>1, <4>2, SubSeqProperties
      <4>4. \A i \in 1 .. (Len(word) - cut) - 1 : (((cut + 1) + 1) + i) - 1 = cut + (i + 1)
        BY <1>0
      <4>5. (Len(word) - ((cut + 1) + 1)) + 1 = (Len(word) - cut) - 1
        BY <1>0
      <4>6. Len(rest) = (Len(word) - cut) - 1
        <5> HIDE DEF rest
        <5>1. Len(word) \in Int /\ cut \in Int /\ cut < Len(word)
          BY <1>0, <2>1
        <5> QED BY <4>3, <5>1
      <4>7. \A i \in 1 .. (Len(word) - cut) - 1 : rest[i] = word[cut + (i + 1)]
        <5> HIDE DEF rest
        <5> QED BY <4>3, <4>4, <4>5
      <4> QED BY <4>3, <4>6, <4>7
    <3> HIDE DEF whole, rest
    <3>4. whole[1] = "."
      BY <3>2, <2>1, <1>0
    <3>5. Len(whole) = Len(rest) + 1 /\ \A i \in 1 .. Len(rest) : rest[i] = whole[i + 1]
      BY <3>2, <3>3, <2>1, <1>0
    <3>6. Names(whole) = Names(rest)
      BY <3>2, <3>3, <3>4, <3>5, NamesAfterDot
    <3> QED BY <3>6 DEF whole, rest
  <2>7. (cut + 1) - 1 = cut
    BY <1>0
  <2> QED BY <2>5, <2>6, <2>7, <1>2
<1> QED BY <1>1, <1>2

LEMMA SecondAndThird ==
  ASSUME NEW a, NEW b, NEW c, NEW d
  PROVE  SubSeq(<<a, b, c, d>>, 2, 3) = <<b, c>>
<1> DEFINE call == <<a, b, c, d>>
           S == {a, b, c, d}
<1>1. call[2] = b /\ call[3] = c
  OBVIOUS
<1>2. \A i \in 2 .. 3 : call[i] \in S
  <2>1. \A i \in 2 .. 3 : i = 2 \/ i = 3
    OBVIOUS
  <2> QED BY <1>1, <2>1
<1> HIDE DEF call, S
<1>3. /\ SubSeq(call, 2, 3) \in Seq(S) /\ Len(SubSeq(call, 2, 3)) = 2
      /\ \A i \in 1 .. 2 : SubSeq(call, 2, 3)[i] = call[(2 + i) - 1]
  BY <1>2, SubSeqProperties
<1>4. SubSeq(call, 2, 3)[1] = b /\ SubSeq(call, 2, 3)[2] = c
  <2>1. (2 + 1) - 1 = 2 /\ (2 + 2) - 1 = 3 /\ 1 \in 1 .. 2 /\ 2 \in 1 .. 2
    OBVIOUS
  <2> QED BY <1>1, <1>3, <2>1
<1>5. SubSeq(call, 2, 3) = <<b, c>>
  <2>1. b \in S /\ c \in S
    BY DEF S
  <2>2. <<b, c>> \in Seq(S) /\ Len(<<b, c>>) = 2 /\ <<b, c>>[1] = b /\ <<b, c>>[2] = c
    BY <2>1
  <2>3. \A i \in 1 .. 2 : SubSeq(call, 2, 3)[i] = <<b, c>>[i]
    <3>1. \A i \in 1 .. 2 : i = 1 \/ i = 2
      OBVIOUS
    <3> QED BY <1>4, <2>2, <3>1
  <2> QED BY <1>3, <2>2, <2>3, SeqEqual
<1> QED BY <1>5 DEF call

LEMMA KeyCommands == DOMAIN OnKey = {"TTL", "PERSIST", "KEYS", "VGET"}
BY DEF OnKey

LEMMA ExecOnWord ==
  ASSUME NEW word, NEW key, NEW path, SplitKey(word) = <<key, path>>,
         NEW cmd \in {"GET", "EXIST", "TYPE", "INCR"}
  PROVE  SubSeq(Exec(cmd, <<word>>), 2, 3) = <<key, path>>
<1> DEFINE name == OnField[cmd][IF path # <<>> THEN 2 ELSE 1]
           args == <<word>>
<1>1. Len(args) = 1 /\ args[1] = word
  OBVIOUS
<1> HIDE DEF args
<1>2. CASE cmd \in {"GET", "EXIST", "TYPE"}
  <2>1. Exec(cmd, args) = <<name, key, path, <<>>>>
    BY <1>1, <1>2, KeyCommands DEF Exec
  <2> HIDE DEF name
  <2> QED BY <2>1, SecondAndThird DEF args
<1>3. CASE cmd = "INCR"
  <2>1. Exec(cmd, args) = <<name, key, path, Num(1)>>
    BY <1>1, <1>3, KeyCommands DEF Exec
  <2> HIDE DEF name
  <2> QED BY <2>1, SecondAndThird DEF args
<1> QED BY <1>2, <1>3

LEMMA ExecDel ==
  ASSUME NEW word, NEW key, NEW path, SplitKey(word) = <<key, path>>
  PROVE  SubSeq(Exec("DEL", <<word>>), 2, 3) = IF path # <<>> THEN <<key, path>> ELSE <<word, <<>>>>
<1> DEFINE args == <<word>>
<1>1. Len(args) = 1 /\ args[1] = word
  OBVIOUS
<1> HIDE DEF args
<1>2. CASE path # <<>>
  <2>1. Exec("DEL", args) = <<"DelField", key, path, <<>>>>
    BY <1>1, <1>2, KeyCommands DEF Exec
  <2> QED BY <1>2, <2>1, SecondAndThird DEF args
<1>3. CASE path = <<>>
  <2>1. Exec("DEL", args) = <<"Del", word, <<>>, Tail(args)>>
    BY <1>1, <1>3, KeyCommands DEF Exec
  <2> QED BY <1>3, <2>1, SecondAndThird DEF args
<1> QED BY <1>2, <1>3

LEMMA ValueAlone ==
  ASSUME NEW args, Len(args) = 1
  PROVE  ParseSetArgs(args)[4] = FALSE
<1> DEFINE vector == Len(args) >= 2 /\ Last(args) = <<"VECTOR">>
           a == Peel(args, vector)
           timed == Len(a) >= 2 /\ Positive(Last(a))
           seconds == IF timed THEN IntOf(Last(a)) ELSE 0
           b == Peel(a, timed)
           flagged == Len(b) >= 2 /\ Last(b) \in {<<"NX">>, <<"XX">>}
           flag == IF flagged THEN Last(b)[1] ELSE ""
           value == Peel(b, flagged)
<1>1. ParseSetArgs(args) = <<value, flag, seconds, vector>>
  BY DEF ParseSetArgs
<1> HIDE DEF value, flag, seconds
<1>2. vector = FALSE
  OBVIOUS
<1> HIDE DEF vector
<1> QED BY <1>1, <1>2

LEMMA ExecSet ==
  ASSUME NEW word, NEW key, NEW path, SplitKey(word) = <<key, path>>
  PROVE  SubSeq(Exec("SET", <<word, <<"v">>>>), 2, 3) = IF path # <<>> THEN <<key, path>> ELSE <<word, <<>>>>
<1> DEFINE args == <<word, <<"v">>>>
           set == ParseSetArgs(Tail(args))
<1>1. Len(args) = 2 /\ args[1] = word /\ Len(Tail(args)) = 1
  OBVIOUS
<1>2. set[4] = FALSE
  <2> HIDE DEF args
  <2> QED BY <1>1, ValueAlone
<1> HIDE DEF args, set
<1>3. CASE path # <<>>
  <2>1. Exec("SET", args) = <<"SetField", key, path, set>>
    BY <1>1, <1>2, <1>3 DEF Exec, set
  <2> QED BY <1>3, <2>1, SecondAndThird DEF args
<1>4. CASE path = <<>>
  <2>1. Exec("SET", args) = <<"Set", word, <<>>, set>>
    BY <1>1, <1>2, <1>4 DEF Exec, set
  <2> QED BY <1>4, <2>1, SecondAndThird DEF args
<1> QED BY <1>3, <1>4
LEMMA Joined ==
  ASSUME NEW a, NEW b
  PROVE  <<a>> \o <<>> = <<a>> /\ <<a>> \o <<b>> = <<a, b>>
<1>1. <<a>> \in Seq({a})
  OBVIOUS
<1>2. <<a>> \o <<>> = <<a>>
  BY <1>1, ConcatEmptySeq
<1>3. <<a>> \o <<b>> = <<a, b>>
  <2> DEFINE S == {a, b}
             both == <<a>> \o <<b>>
  <2>1. /\ <<a>> \in Seq(S) /\ Len(<<a>>) = 1 /\ <<b>> \in Seq(S) /\ Len(<<b>>) = 1
        /\ <<a, b>> \in Seq(S) /\ Len(<<a, b>>) = 2
    OBVIOUS
  <2> HIDE DEF S
  <2>2. /\ both \in Seq(S) /\ Len(both) = 2
        /\ \A i \in 1 .. 2 : both[i] = IF i <= 1 THEN <<a>>[i] ELSE <<b>>[i - 1]
    BY <2>1, ConcatProperties
  <2> HIDE DEF both
  <2>3. \A i \in 1 .. 2 : both[i] = <<a, b>>[i]
    <3>1. \A i \in 1 .. 2 : i = 1 \/ i = 2
      OBVIOUS
    <3>2. both[1] = a /\ both[2] = b
      BY <2>2
    <3> QED BY <3>1, <3>2
  <2>4. both = <<a, b>>
    BY <2>1, <2>2, <2>3, SeqEqual
  <2> QED BY <2>4 DEF both
<1> QED BY <1>2, <1>3

LEMMA FirstDotExists ==
  ASSUME NEW A, NEW word \in Seq(A)
  PROVE  \E cut : FirstDot(word, cut)
<1> DEFINE Ending == {n \in Nat : n <= Len(word) /\ (n < Len(word) => word[n + 1] = ".")}
<1>1. Len(word) \in Nat /\ Len(word) \in Ending
  OBVIOUS
<1>2. PICK k \in Ending : \A l \in Ending : k <= l
  <2>1. Ending \in SUBSET Nat /\ Ending # {}
    BY <1>1
  <2> HIDE DEF Ending
  <2> QED BY <2>1, LeastNumber
<1>3. ASSUME NEW i \in 1 .. k
      PROVE  word[i] # "."
  <2>1. i - 1 \in Nat /\ i - 1 < k /\ (i - 1) + 1 = i /\ k <= Len(word)
    BY <1>2
  <2>2. i - 1 \notin Ending
    <3>1. Ending \subseteq Nat
      OBVIOUS
    <3> HIDE DEF Ending
    <3> QED BY <1>2, <2>1, <3>1
  <2>3. i - 1 <= Len(word)
    BY <1>1, <2>1
  <2> QED BY <2>1, <2>2, <2>3
<1>4. FirstDot(word, k)
  BY <1>2, <1>3 DEF FirstDot
<1> QED BY <1>4

LEMMA FieldNamed ==
  ASSUME NEW A, NEW word \in Seq(A), NEW cut, FirstDot(word, cut), NamesField(word)
  PROVE  Names(SubSeq(word, cut + 1, Len(word))) # <<>>
<1>1. PICK i \in DOMAIN word, j \in DOMAIN word : i < j /\ word[i] = "." /\ word[j] # "."
  BY DEF NamesField
<1>2. /\ i \in 1 .. Len(word) /\ j \in 1 .. Len(word) /\ Len(word) \in Nat
      /\ cut \in Nat /\ cut <= Len(word)
  BY <1>1 DEF FirstDot
<1>3. cut < i
  BY <1>1, <1>2 DEF FirstDot
<1> DEFINE rest == SubSeq(word, cut + 1, Len(word))
<1>4. /\ rest \in Seq(A) /\ Len(rest) = Len(word) - cut
      /\ \A k \in 1 .. Len(word) - cut : rest[k] = word[cut + k]
  <2>1. \A k \in cut + 1 .. Len(word) : word[k] \in A
    BY <1>2, ElementOfSeq
  <2>2. cut + 1 \in Int /\ cut + 1 <= Len(word)
    BY <1>2, <1>3, <1>1
  <2> QED BY <1>2, <2>1, <2>2
<1> HIDE DEF rest
<1>5. j - cut \in 1 .. Len(rest) /\ cut + (j - cut) = j
  BY <1>1, <1>2, <1>3, <1>4
<1>6. rest[j - cut] # "."
  BY <1>1, <1>4, <1>5
<1>7. Names(rest) # <<>>
  BY <1>4, <1>5, <1>6, SomeNames
<1> QED BY <1>7 DEF rest

(* A word without a dot, or with one and a name behind it, names the same    *)
(* key and the same field to SET, GET, EXIST, TYPE, INCR and DEL: the key    *)
(* ends at the first dot, and the names are what stands between the dots     *)
(* behind it.                                                                *)
THEOREM TargetTheorem == Spec => []OneTarget
<1>1. Typed => OneTarget
  <2> DEFINE cut == CHOOSE i \in 0 .. Len(line) :
                      /\ i < Len(line) => line[i + 1] = "."
                      /\ \A j \in 1 .. i : line[j] # "."
             key == SubSeq(line, 1, cut)
             path == Names(SubSeq(line, cut + 1, Len(line)))
             Target(cmd, more) == SubSeq(Exec(cmd, <<line>> \o more), 2, 3)
  <2> SUFFICES ASSUME Typed, kind = "key", line # <<>>, "." \in Range(line) => NamesField(line)
               PROVE  /\ \A cmd \in {"GET", "EXIST", "TYPE", "INCR", "DEL"} :
                           Target(cmd, <<>>) = Target("SET", <<<<"v">>>>)
                      /\ Target("GET", <<>>) = <<key, path>>
    BY DEF OneTarget
  <2>1. line \in Seq(Pieces(kind))
    BY DEF Typed
  <2>2. FirstDot(line, cut)
    <3>1. \E i \in 0 .. Len(line) : (i < Len(line) => line[i + 1] = ".") /\ \A j \in 1 .. i : line[j] # "."
      BY <2>1, FirstDotExists DEF FirstDot
    <3> QED BY <3>1 DEF FirstDot
  <2> HIDE DEF cut
  <2>3. /\ SplitKey(line) = <<key, path>>
        /\ cut = Len(line) => SplitKey(line) = <<line, <<>>>> /\ "." \notin Range(line)
    BY <2>1, <2>2, SplitKeyIs
  <2>4. cut # Len(line) => path # <<>>
    <3>1. ASSUME cut # Len(line)
          PROVE  "." \in Range(line)
      <4>1. cut + 1 \in 1 .. Len(line) /\ line[cut + 1] = "."
        BY <2>1, <2>2, <3>1 DEF FirstDot
      <4> QED BY <2>1, <4>1 DEF Range
    <3> QED BY <2>1, <2>2, <3>1, FieldNamed
  <2> HIDE DEF key, path
  <2>5. path = <<>> => key = line
    BY <2>3, <2>4
  <2>6. <<line>> \o <<>> = <<line>> /\ <<line>> \o <<<<"v">>>> = <<line, <<"v">>>>
    BY Joined
  <2>7. Target("SET", <<<<"v">>>>) = <<key, path>>
    <3>1. SubSeq(Exec("SET", <<line, <<"v">>>>), 2, 3) = IF path # <<>> THEN <<key, path>> ELSE <<line, <<>>>>
      BY <2>3, ExecSet
    <3> QED BY <2>5, <2>6, <3>1, Zenon
  <2>8. Target("DEL", <<>>) = <<key, path>>
    <3>1. SubSeq(Exec("DEL", <<line>>), 2, 3) = IF path # <<>> THEN <<key, path>> ELSE <<line, <<>>>>
      BY <2>3, ExecDel
    <3> QED BY <2>5, <2>6, <3>1, Zenon
  <2>9. \A cmd \in {"GET", "EXIST", "TYPE", "INCR"} : Target(cmd, <<>>) = <<key, path>>
    BY <2>3, <2>6, ExecOnWord
  <2> QED BY <2>7, <2>8, <2>9
<1> QED BY <1>1, AllTyped, PTL
---------------------------------------------------------------------------
(* What is peeled off the end of a sequence.                                 *)
LEMMA EndOf ==
  ASSUME NEW A, NEW x \in Seq(A), NEW w \in A
  PROVE  /\ x \o <<w>> \in Seq(A) /\ Len(x \o <<w>>) = Len(x) + 1
         /\ Last(x \o <<w>>) = w /\ Front(x \o <<w>>) = x
<1> DEFINE z == x \o <<w>>
<1>1. <<w>> \in Seq(A) /\ Len(<<w>>) = 1 /\ <<w>>[1] = w /\ Len(x) \in Nat
  OBVIOUS
<1>2. /\ z \in Seq(A) /\ Len(z) = Len(x) + 1
      /\ \A i \in 1 .. Len(x) + 1 : z[i] = IF i <= Len(x) THEN x[i] ELSE <<w>>[i - Len(x)]
  BY <1>1, ConcatProperties
<1> HIDE DEF z
<1>3. Last(z) = w
  <2>1. Len(x) + 1 \in 1 .. Len(x) + 1 /\ ~(Len(x) + 1 <= Len(x)) /\ (Len(x) + 1) - Len(x) = 1
    BY <1>1
  <2>2. z[Len(x) + 1] = w
    BY <1>1, <1>2, <2>1
  <2> QED BY <1>2, <2>2 DEF Last
<1>4. Front(z) = x
  <2>1. (Len(x) + 1) - 1 = Len(x)
    BY <1>1
  <2>2. Front(z) = SubSeq(z, 1, Len(x))
    BY <1>2, <2>1 DEF Front
  <2>3. \A i \in 1 .. Len(x) : i \in 1 .. Len(x) + 1 /\ z[i] = x[i] /\ x[i] \in A
    BY <1>1, <1>2, ElementOfSeq
  <2>4. /\ Front(z) \in Seq(A) /\ Len(Front(z)) = Len(x)
        /\ \A i \in 1 .. Len(x) : Front(z)[i] = x[i]
    BY <1>1, <2>2, <2>3
  <2> QED BY <2>4, SeqEqual
<1> QED BY <1>2, <1>3, <1>4 DEF z

LEMMA FrontAndLast ==
  ASSUME NEW A, NEW z \in Seq(A), Len(z) >= 1
  PROVE  /\ Front(z) \in Seq(A) /\ Last(z) \in A /\ Len(Front(z)) = Len(z) - 1
         /\ z = Front(z) \o <<Last(z)>>
<1>1. z # <<>>
  BY EmptySeq
<1>2. PICK x \in Seq(A), w \in A : z = Append(x, w)
  BY <1>1, SequenceEmptyOrAppend
<1>3. z = x \o <<w>>
  BY <1>2, AppendIsConcat
<1>4. Last(z) = w /\ Front(z) = x /\ Len(z) = Len(x) + 1
  BY <1>3, EndOf
<1>5. Len(x) \in Nat
  OBVIOUS
<1> QED BY <1>3, <1>4, <1>5

(* A sequence begins with another.                                           *)
Begins(x, z) == Len(x) <= Len(z) /\ \A i \in 1 .. Len(x) : x[i] = z[i]

LEMMA BeginsWith ==
  ASSUME NEW A, NEW x \in Seq(A), NEW z \in Seq(A)
  PROVE  /\ Begins(x, x)
         /\ Begins(x, z) => SubSeq(z, 1, Len(x)) = x
         /\ \A y \in Seq(A) : Begins(x, y) /\ Begins(y, z) => Begins(x, z)
<1>1. Len(x) \in Nat /\ Len(z) \in Nat
  OBVIOUS
<1>2. Begins(x, x)
  BY <1>1 DEF Begins
<1>3. Begins(x, z) => SubSeq(z, 1, Len(x)) = x
  <2> SUFFICES ASSUME Begins(x, z)
               PROVE  SubSeq(z, 1, Len(x)) = x
    OBVIOUS
  <2>1. \A i \in 1 .. Len(x) : z[i] = x[i] /\ x[i] \in A
    BY ElementOfSeq DEF Begins
  <2>2. /\ SubSeq(z, 1, Len(x)) \in Seq(A) /\ Len(SubSeq(z, 1, Len(x))) = Len(x)
        /\ \A i \in 1 .. Len(x) : SubSeq(z, 1, Len(x))[i] = x[i]
    BY <1>1, <2>1
  <2> QED BY <2>2, SeqEqual
<1>4. ASSUME NEW y \in Seq(A), Begins(x, y), Begins(y, z)
      PROVE  Begins(x, z)
  <2>1. Len(y) \in Nat
    OBVIOUS
  <2> QED BY <1>1, <1>4, <2>1 DEF Begins
<1> QED BY <1>2, <1>3, <1>4

LEMMA PeelIs ==
  ASSUME NEW A, NEW z \in Seq(A), NEW taken, taken => Len(z) >= 2
  PROVE  /\ Peel(z, taken) \in Seq(A) /\ Begins(Peel(z, taken), z)
         /\ taken => Last(z) \in A /\ Last(z) \in Range(z) /\ z = Peel(z, taken) \o <<Last(z)>>
                     /\ Len(Peel(z, taken)) = Len(z) - 1
         /\ ~taken => Peel(z, taken) = z
<1>1. CASE ~taken
  BY <1>1, BeginsWith DEF Peel
<1>2. CASE taken
  <2>1. Peel(z, taken) = Front(z)
    BY <1>2 DEF Peel
  <2>2. /\ Front(z) \in Seq(A) /\ Last(z) \in A /\ Len(Front(z)) = Len(z) - 1
        /\ z = Front(z) \o <<Last(z)>>
    <3>1. Len(z) \in Nat /\ Len(z) >= 2
      BY <1>2
    <3>2. Len(z) >= 1
      BY <3>1
    <3> QED BY <3>2, FrontAndLast
  <2>3. Begins(Front(z), z)
    <3>1. Len(z) - 1 \in Nat /\ Len(z) \in Nat
      BY <1>2
    <3>2. \A i \in 1 .. Len(z) - 1 : Front(z)[i] = z[i]
      <4>1. \A i \in 1 .. Len(z) - 1 : z[i] \in A
        BY <3>1, ElementOfSeq
      <4> QED BY <3>1, <4>1 DEF Front
    <3> QED BY <2>2, <3>1, <3>2 DEF Begins
  <2>4. Last(z) \in Range(z)
    <3>1. Len(z) \in 1 .. Len(z) /\ DOMAIN z = 1 .. Len(z)
      BY <1>2
    <3> QED BY <3>1 DEF Last, Range
  <2> QED BY <1>2, <2>1, <2>2, <2>3, <2>4
<1> QED BY <1>1, <1>2
---------------------------------------------------------------------------
(* The words after the key of SET.                                           *)
SetWords == Pieces(kind) \cup {<<"NX">>, <<"XX">>, <<"VECTOR">>}

LEMMA NoKeyword ==
  ASSUME NEW w, Positive(w)
  PROVE  w \notin {<<"NX">>, <<"XX">>, <<"VECTOR">>} /\ IntOf(w) \in Int /\ IntOf(w) > 0
<1>1. w \in DOMAIN Numbers /\ Numbers[w] # NaN /\ IntOf(w) > 0
  BY DEF Positive, IsInt
<1>2. w[1] \notin {"NX", "XX", "VECTOR"} /\ IntOf(w) \in Int
  BY <1>1, NumbersAssumption DEF IntOf
<1>3. <<"NX">>[1] = "NX" /\ <<"XX">>[1] = "XX" /\ <<"VECTOR">>[1] = "VECTOR"
  OBVIOUS
<1> QED BY <1>1, <1>2, <1>3

(* What is peeled, and what was there before.                                *)
Peeled(args, value, flagged, flag, timed, number, vector) ==
  /\ value \in Seq(SetWords) /\ Len(value) >= 1 /\ Begins(value, args)
  /\ flagged \in BOOLEAN /\ timed \in BOOLEAN /\ vector \in BOOLEAN
  /\ flagged => flag \in {"NX", "XX"}
  /\ ~flagged => flag = ""
  /\ timed => number \in Range(args) /\ Positive(number)
  /\ args = value \o (IF flagged THEN <<<<flag>>>> ELSE <<>>)
                  \o (IF timed THEN <<number>> ELSE <<>>)
                  \o (IF vector THEN <<<<"VECTOR">>>> ELSE <<>>)

LEMMA SetReturns ==
  ASSUME NEW args \in Seq(SetWords), Len(args) >= 1
  PROVE  LET vector == Len(args) >= 2 /\ Last(args) = <<"VECTOR">>
             a == Peel(args, vector)
             timed == Len(a) >= 2 /\ Positive(Last(a))
             b == Peel(a, timed)
             flagged == Len(b) >= 2 /\ Last(b) \in {<<"NX">>, <<"XX">>}
             value == Peel(b, flagged)
             flag == IF flagged THEN Last(b)[1] ELSE ""
         IN  /\ ParseSetArgs(args) = <<value, flag, IF timed THEN IntOf(Last(a)) ELSE 0, vector>>
             /\ Peeled(args, value, flagged, flag, timed, Last(a), vector)
             /\ a \in Seq(SetWords) /\ b \in Seq(SetWords)
             /\ vector => args = a \o <<<<"VECTOR">>>> /\ Len(a) = Len(args) - 1
             /\ timed => a = b \o <<Last(a)>> /\ Len(b) = Len(a) - 1
             /\ ~vector => a = args
             /\ ~timed => b = a
             /\ Len(value) = Len(b) - (IF flagged THEN 1 ELSE 0)
<1> DEFINE vector == Len(args) >= 2 /\ Last(args) = <<"VECTOR">>
           a == Peel(args, vector)
           timed == Len(a) >= 2 /\ Positive(Last(a))
           b == Peel(a, timed)
           flagged == Len(b) >= 2 /\ Last(b) \in {<<"NX">>, <<"XX">>}
           value == Peel(b, flagged)
           flag == IF flagged THEN Last(b)[1] ELSE ""
           F == IF flagged THEN <<<<flag>>>> ELSE <<>>
           S == IF timed THEN <<Last(a)>> ELSE <<>>
           V == IF vector THEN <<<<"VECTOR">>>> ELSE <<>>
<1>1. ParseSetArgs(args) = <<value, flag, IF timed THEN IntOf(Last(a)) ELSE 0, vector>>
  BY DEF ParseSetArgs
<1>2. /\ a \in Seq(SetWords) /\ Begins(a, args) /\ Len(a) >= 1 /\ args = a \o V
      /\ vector => args = a \o <<<<"VECTOR">>>> /\ Len(a) = Len(args) - 1
      /\ ~vector => a = args
  <2>0. vector => Len(args) >= 2 /\ Last(args) = <<"VECTOR">>
    OBVIOUS
  <2> HIDE DEF vector
  <2>1. /\ a \in Seq(SetWords) /\ Begins(a, args) /\ (~vector => a = args)
        /\ vector => args = a \o <<<<"VECTOR">>>> /\ Len(a) = Len(args) - 1
    BY <2>0, PeelIs
  <2>2. args \o <<>> = args
    BY ConcatEmptySeq
  <2> HIDE DEF a
  <2>3. Len(a) >= 1
    BY <2>0, <2>1
  <2> QED BY <2>1, <2>2, <2>3
<1>3. /\ b \in Seq(SetWords) /\ Begins(b, a) /\ Len(b) >= 1 /\ a = b \o S
      /\ timed => a = b \o <<Last(a)>> /\ Len(b) = Len(a) - 1 /\ Last(a) \in Range(a) /\ Positive(Last(a))
      /\ ~timed => b = a
  <2>0. timed => Len(a) >= 2 /\ Positive(Last(a))
    OBVIOUS
  <2> HIDE DEF timed, a
  <2>1. /\ b \in Seq(SetWords) /\ Begins(b, a) /\ (~timed => b = a)
        /\ timed => a = b \o <<Last(a)>> /\ Len(b) = Len(a) - 1 /\ Last(a) \in Range(a)
    BY <1>2, <2>0, PeelIs
  <2>2. a \o <<>> = a
    BY <1>2, ConcatEmptySeq
  <2> HIDE DEF b
  <2>3. Len(b) >= 1
    BY <1>2, <2>0, <2>1
  <2> QED BY <2>0, <2>1, <2>2, <2>3
<1>4. /\ value \in Seq(SetWords) /\ Begins(value, b) /\ Len(value) >= 1 /\ b = value \o F
      /\ Len(value) = Len(b) - (IF flagged THEN 1 ELSE 0)
      /\ flagged => flag \in {"NX", "XX"} /\ <<flag>> = Last(b)
  <2>0. flagged => Len(b) >= 2 /\ Last(b) \in {<<"NX">>, <<"XX">>}
    OBVIOUS
  <2>1. flagged => flag \in {"NX", "XX"} /\ <<flag>> = Last(b)
    <3> HIDE DEF b
    <3> QED BY <2>0
  <2> HIDE DEF flagged, b, flag
  <2>2. /\ value \in Seq(SetWords) /\ Begins(value, b) /\ (~flagged => value = b)
        /\ flagged => b = value \o <<Last(b)>> /\ Len(value) = Len(b) - 1
    BY <1>3, <2>0, PeelIs
  <2>3. b \o <<>> = b
    BY <1>3, ConcatEmptySeq
  <2> HIDE DEF value
  <2>4. Len(value) >= 1 /\ Len(value) = Len(b) - (IF flagged THEN 1 ELSE 0)
    BY <1>3, <2>0, <2>2
  <2> QED BY <2>1, <2>2, <2>3, <2>4
<1>5. vector \in BOOLEAN /\ timed \in BOOLEAN /\ flagged \in BOOLEAN /\ (~flagged => flag = "")
  OBVIOUS
<1> HIDE DEF vector, a, timed, b, flagged, value, flag
<1>6. Begins(value, args)
  BY <1>2, <1>3, <1>4, BeginsWith
<1>7. timed => Last(a) \in Range(args)
  <2>1. ASSUME timed
        PROVE  Last(a) \in Range(args)
    <3>1. Len(a) \in 1 .. Len(a) /\ Last(a) = a[Len(a)]
      BY <1>2 DEF Last
    <3>2. Last(a) = args[Len(a)] /\ Len(a) \in 1 .. Len(args) /\ DOMAIN args = 1 .. Len(args)
      BY <1>2, <3>1 DEF Begins
    <3> QED BY <3>2 DEF Range
  <2> QED BY <2>1
<1>8. Peeled(args, value, flagged, flag, timed, Last(a), vector)
  BY <1>2, <1>3, <1>4, <1>5, <1>6, <1>7, Zenon DEF Peeled
<1> QED BY <1>1, <1>2, <1>3, <1>4, <1>8 DEF vector, a, timed, b, flagged, value, flag

(* The words read as a value x and what follows it.                          *)
Reads(args, x, flag, sec, vec) ==
  /\ Len(x) >= 1 /\ flag \in {"", "NX", "XX"} /\ vec \in BOOLEAN
  /\ sec = <<>> \/ \E w \in Range(args) : Positive(w) /\ sec = <<w>>
  /\ args = x \o (IF flag = "" THEN <<>> ELSE <<<<flag>>>>) \o sec
              \o (IF vec THEN <<<<"VECTOR">>>> ELSE <<>>)

LEMMA MostPeeled ==
  ASSUME NEW args \in Seq(SetWords), NEW x \in Seq(SetWords), NEW flag, NEW sec, NEW vec,
         Reads(args, x, flag, sec, vec), Len(args) >= 1
  PROVE  Len(ParseSetArgs(args)[1]) <= Len(x)
<1> DEFINE vector == Len(args) >= 2 /\ Last(args) = <<"VECTOR">>
           a == Peel(args, vector)
           timed == Len(a) >= 2 /\ Positive(Last(a))
           b == Peel(a, timed)
           flagged == Len(b) >= 2 /\ Last(b) \in {<<"NX">>, <<"XX">>}
           value == Peel(b, flagged)
           c == x \o (IF flag = "" THEN <<>> ELSE <<<<flag>>>>)
           d == c \o sec
<1>0. /\ ParseSetArgs(args) = <<value, IF flagged THEN Last(b)[1] ELSE "",
                                IF timed THEN IntOf(Last(a)) ELSE 0, vector>>
      /\ Peeled(args, value, flagged, IF flagged THEN Last(b)[1] ELSE "", timed, Last(a), vector)
      /\ a \in Seq(SetWords) /\ b \in Seq(SetWords)
      /\ vector => args = a \o <<<<"VECTOR">>>> /\ Len(a) = Len(args) - 1
      /\ timed => a = b \o <<Last(a)>> /\ Len(b) = Len(a) - 1
      /\ ~vector => a = args
      /\ ~timed => b = a
      /\ Len(value) = Len(b) - (IF flagged THEN 1 ELSE 0)
  BY SetReturns
<1>2. /\ vector <=> Len(args) >= 2 /\ Last(args) = <<"VECTOR">>
      /\ timed <=> Len(a) >= 2 /\ Positive(Last(a))
      /\ flagged <=> Len(b) >= 2 /\ Last(b) \in {<<"NX">>, <<"XX">>}
  OBVIOUS
<1> HIDE DEF vector, a, timed, b, flagged, value
<1>1. /\ ParseSetArgs(args)[1] = value
      /\ Len(value) = Len(b) - (IF flagged THEN 1 ELSE 0)
      /\ value \in Seq(SetWords) /\ a \in Seq(SetWords) /\ b \in Seq(SetWords)
      /\ vector => args = a \o <<<<"VECTOR">>>> /\ Len(a) = Len(args) - 1
      /\ timed => a = b \o <<Last(a)>> /\ Len(b) = Len(a) - 1
      /\ ~vector => a = args
      /\ ~timed => b = a
  <2>1. ParseSetArgs(args)[1] = value
    <3> DEFINE mark == IF flagged THEN Last(b)[1] ELSE ""
               number == IF timed THEN IntOf(Last(a)) ELSE 0
    <3>1. ParseSetArgs(args) = <<value, mark, number, vector>>
      BY <1>0
    <3> HIDE DEF mark, number
    <3> QED BY ONLY <3>1
  <2>2. value \in Seq(SetWords)
    BY <1>0, Zenon DEF Peeled
  <2> QED BY <1>0, <2>1, <2>2, Zenon
<1>11. Len(value) \in Nat /\ Len(b) \in Nat /\ Len(a) \in Nat /\ Len(args) \in Nat /\ Len(x) \in Nat
  BY <1>1, LenProperties
<1>3. Len(value) <= Len(b) /\ Len(b) <= Len(a) /\ Len(a) <= Len(args)
  BY <1>1, <1>11
<1>4. /\ c \in Seq(SetWords) /\ Len(c) >= 1
      /\ flag = "" => c = x
      /\ flag # "" => Last(c) = <<flag>> /\ Len(c) = Len(x) + 1
  <2>1. CASE flag = ""
    <3>1. c = x
      BY <2>1, ConcatEmptySeq
    <3> QED BY <2>1, <3>1 DEF Reads
  <2>2. CASE flag # ""
    <3>1. <<flag>> \in SetWords
      BY <2>2 DEF SetWords, Reads
    <3>2. c = x \o <<<<flag>>>>
      BY <2>2
    <3> HIDE DEF c
    <3>3. c \in Seq(SetWords) /\ Last(c) = <<flag>> /\ Len(c) = Len(x) + 1
      BY <3>1, <3>2, EndOf
    <3>4. Len(c) >= 1
      BY ONLY <1>11, <3>3
    <3> QED BY <2>2, <3>3, <3>4
  <2> QED BY <2>1, <2>2
<1>5. Len(c) \in Nat
  <2> HIDE DEF c
  <2> QED BY <1>4, LenProperties
<1> HIDE DEF c
<1>6. /\ d \in Seq(SetWords) /\ Len(d) >= 1
      /\ sec = <<>> => d = c
      /\ sec # <<>> => Positive(Last(d)) /\ Front(d) = c /\ Len(d) = Len(c) + 1
  <2>1. CASE sec = <<>>
    <3>1. d = c
      BY <1>4, <2>1, ConcatEmptySeq
    <3> QED BY <1>4, <2>1, <3>1
  <2>2. CASE sec # <<>>
    <3>1. PICK w \in Range(args) : Positive(w) /\ sec = <<w>>
      BY <2>2 DEF Reads
    <3>2. w \in SetWords
      BY <3>1, RangeOfSeq
    <3>3. d = c \o <<w>>
      BY <3>1
    <3> HIDE DEF d
    <3>4. d \in Seq(SetWords) /\ Last(d) = w /\ Len(d) = Len(c) + 1 /\ Front(d) = c
      BY <1>4, <3>2, <3>3, EndOf
    <3>5. Len(d) >= 1
      BY <1>5, <3>4
    <3> QED BY <2>2, <3>1, <3>4, <3>5
  <2> QED BY <2>1, <2>2
<1>7. args = d \o (IF vec THEN <<<<"VECTOR">>>> ELSE <<>>)
  BY DEF c, Reads
<1> HIDE DEF d
<1>8. a = d \/ Len(value) <= Len(x)
  <2>1. CASE vec
    <3>1. args = d \o <<<<"VECTOR">>>> /\ <<"VECTOR">> \in SetWords
      BY <1>7, <2>1 DEF SetWords
    <3>2. Last(args) = <<"VECTOR">> /\ Len(args) = Len(d) + 1 /\ Front(args) = d
      BY <1>6, <3>1, EndOf
    <3>3. Len(d) \in Nat
      BY <1>6, LenProperties
    <3>4. Len(args) >= 2
      BY <1>6, <3>2, <3>3
    <3>5. vector
      BY <1>2, <3>2, <3>4
    <3> QED BY <3>2, <3>5 DEF a, Peel
  <2>2. CASE ~vec /\ vector
    <3>1. args = d
      BY <1>6, <1>7, <2>2, ConcatEmptySeq
    <3>2. Last(d) = <<"VECTOR">>
      BY <1>2, <2>2, <3>1
    <3>3. sec = <<>>
      BY <1>6, <3>2, NoKeyword
    <3>4. flag = ""
      <4>1. d = c
        BY <1>6, <3>3
      <4>2. flag # "" => <<flag>> = <<"VECTOR">>
        BY <1>4, <3>2, <4>1
      <4>3. <<flag>>[1] = flag /\ <<"VECTOR">>[1] = "VECTOR"
        OBVIOUS
      <4>4. flag # "VECTOR"
        BY DEF Reads
      <4> QED BY <4>2, <4>3, <4>4
    <3>5. x = args
      BY <1>4, <1>6, <3>1, <3>3, <3>4
    <3> QED BY <1>3, <1>11, <3>5
  <2>3. CASE ~vec /\ ~vector
    BY <1>1, <1>6, <1>7, <2>3, ConcatEmptySeq
  <2> QED BY <2>1, <2>2, <2>3
<1>9. ASSUME a = d
      PROVE  b = c \/ Len(value) <= Len(x)
  <2>1. CASE sec # <<>>
    <3>2. Len(a) = Len(c) + 1 /\ Len(c) >= 1 /\ Positive(Last(a))
      BY <1>4, <1>6, <1>9, <2>1
    <3>3. Len(a) >= 2
      BY ONLY <1>5, <3>2
    <3>0. Len(a) >= 2 /\ Positive(Last(a))
      BY <3>2, <3>3
    <3>1. timed
      BY <1>2, <3>0
    <3>4. b = Front(a)
      BY <3>1 DEF b, Peel
    <3> QED BY <1>6, <1>9, <2>1, <3>4
  <2>2. CASE sec = <<>> /\ timed
    <3>1. d = c /\ Positive(Last(c))
      BY <1>2, <1>6, <1>9, <2>2
    <3>2. flag = ""
      BY <1>4, <3>1, NoKeyword DEF Reads
    <3>3. x = a
      BY <1>4, <1>9, <3>1, <3>2
    <3> QED BY <1>3, <1>11, <3>3
  <2>3. CASE sec = <<>> /\ ~timed
    BY <1>1, <1>6, <1>9, <2>3
  <2> QED BY <2>1, <2>2, <2>3
<1>10. ASSUME b = c
       PROVE  Len(value) <= Len(x)
  <2>1. CASE flag = ""
    BY <1>1, <1>3, <1>4, <1>10, <2>1
  <2>2. CASE flag # ""
    <3>1. Last(b) = <<flag>> /\ Len(b) = Len(x) + 1 /\ <<flag>> \in {<<"NX">>, <<"XX">>}
      BY <1>4, <1>10, <2>2 DEF Reads
    <3>2. Len(b) >= 2
      <4>1. Len(x) >= 1
        BY DEF Reads
      <4> QED BY ONLY <1>11, <3>1, <4>1
    <3>3. flagged
      BY <1>2, <3>1, <3>2
    <3> QED BY <1>1, <1>11, <3>1, <3>3
  <2> QED BY <2>1, <2>2
<1> QED BY <1>1, <1>8, <1>9, <1>10

LEMMA ReadingReads ==
  ASSUME NEW args \in Seq(SetWords), NEW r \in SetReadings(args)
  PROVE  r[1] \in Seq(SetWords) /\ \E sec : Reads(args, r[1], r[2], sec, r[4])
<1> DEFINE Values == {SubSeq(args, 1, n) : n \in 1 .. Len(args)}
           Seconds == {0} \cup {IntOf(w) : w \in {v \in Range(args) : Positive(v)}}
<1>1. /\ r \in Values \X {"", "NX", "XX"} \X Seconds \X BOOLEAN
      /\ \E sec \in {<<>>} \cup {<<w>> : w \in Range(args)} :
           /\ IF sec = <<>> THEN r[3] = 0 ELSE Positive(sec[1]) /\ IntOf(sec[1]) = r[3]
           /\ args = r[1] \o (IF r[2] = "" THEN <<>> ELSE <<<<r[2]>>>>) \o sec
                     \o (IF r[4] THEN <<<<"VECTOR">>>> ELSE <<>>)
  BY DEF SetReadings
<1>2. r[1] \in Values /\ r[2] \in {"", "NX", "XX"} /\ r[4] \in BOOLEAN
  <2> HIDE DEF Values, Seconds
  <2> QED BY <1>1
<1>3. r[1] \in Seq(SetWords) /\ Len(r[1]) >= 1
  <2>1. PICK n \in 1 .. Len(args) : r[1] = SubSeq(args, 1, n)
    BY <1>2
  <2>2. \A i \in 1 .. n : args[i] \in SetWords
    BY <2>1, ElementOfSeq
  <2>3. SubSeq(args, 1, n) \in Seq(SetWords) /\ Len(SubSeq(args, 1, n)) = n
    BY <2>1, <2>2
  <2> QED BY <2>1, <2>3
<1>4. PICK sec \in {<<>>} \cup {<<w>> : w \in Range(args)} :
        /\ IF sec = <<>> THEN r[3] = 0 ELSE Positive(sec[1]) /\ IntOf(sec[1]) = r[3]
        /\ args = r[1] \o (IF r[2] = "" THEN <<>> ELSE <<<<r[2]>>>>) \o sec
                  \o (IF r[4] THEN <<<<"VECTOR">>>> ELSE <<>>)
  BY <1>1
<1>5. sec = <<>> \/ \E w \in Range(args) : Positive(w) /\ sec = <<w>>
  <2>1. CASE sec = <<>>
    BY <2>1
  <2>2. CASE sec # <<>>
    <3>1. PICK w \in Range(args) : sec = <<w>>
      BY <2>2
    <3>2. sec[1] = w /\ Positive(sec[1])
      BY <1>4, <2>2, <3>1
    <3> QED BY <3>1, <3>2
  <2> QED BY <2>1, <2>2
<1>6. Reads(args, r[1], r[2], sec, r[4])
  BY <1>2, <1>3, <1>4, <1>5, Zenon DEF Reads
<1> QED BY <1>3, <1>6

LEMMA ReadIsReading ==
  ASSUME NEW args \in Seq(SetWords), Len(args) >= 1
  PROVE  ParseSetArgs(args) \in SetReadings(args)
<1> DEFINE vector == Len(args) >= 2 /\ Last(args) = <<"VECTOR">>
           a == Peel(args, vector)
           timed == Len(a) >= 2 /\ Positive(Last(a))
           b == Peel(a, timed)
           flagged == Len(b) >= 2 /\ Last(b) \in {<<"NX">>, <<"XX">>}
           value == Peel(b, flagged)
           flag == IF flagged THEN Last(b)[1] ELSE ""
           number == IF timed THEN IntOf(Last(a)) ELSE 0
           r == <<value, flag, number, vector>>
<1>1. ParseSetArgs(args) = r /\ Peeled(args, value, flagged, flag, timed, Last(a), vector)
  BY SetReturns
<1> HIDE DEF vector, a, timed, b, flagged, value, flag
<1> DEFINE Values == {SubSeq(args, 1, n) : n \in 1 .. Len(args)}
           Seconds == {0} \cup {IntOf(w) : w \in {v \in Range(args) : Positive(v)}}
           sec == IF timed THEN <<Last(a)>> ELSE <<>>
<1>2. value \in Values
  <2>1. value \in Seq(SetWords) /\ Begins(value, args) /\ Len(value) >= 1
    BY <1>1, Zenon DEF Peeled
  <2>2. SubSeq(args, 1, Len(value)) = value
    BY <2>1, BeginsWith
  <2>3. Len(value) \in 1 .. Len(args)
    <3>1. Len(value) \in Nat /\ Len(args) \in Nat
      BY <2>1, LenProperties
    <3> QED BY <2>1, <3>1 DEF Begins
  <2> QED BY <2>2, <2>3
<1>3. flag \in {"", "NX", "XX"} /\ vector \in BOOLEAN
  BY <1>1 DEF Peeled
<1>4. number \in Seconds
  BY <1>1 DEF Peeled
<1>5. sec \in {<<>>} \cup {<<w>> : w \in Range(args)}
  BY <1>1 DEF Peeled
<1>6. IF sec = <<>> THEN number = 0 ELSE Positive(sec[1]) /\ IntOf(sec[1]) = number
  <2>1. CASE timed
    <3>1. sec = <<Last(a)>> /\ number = IntOf(Last(a)) /\ Positive(Last(a))
      BY <1>1, <2>1, Zenon DEF Peeled
    <3>2. sec # <<>> /\ sec[1] = Last(a)
      BY <3>1
    <3> QED BY <3>1, <3>2
  <2>2. CASE ~timed
    BY <2>2
  <2> QED BY <2>1, <2>2
<1>7. args = value \o (IF flag = "" THEN <<>> ELSE <<<<flag>>>>) \o sec
             \o (IF vector THEN <<<<"VECTOR">>>> ELSE <<>>)
  <2>1. args = value \o (IF flagged THEN <<<<flag>>>> ELSE <<>>) \o sec
               \o (IF vector THEN <<<<"VECTOR">>>> ELSE <<>>)
    BY <1>1, Zenon DEF Peeled
  <2>2. (IF flagged THEN <<<<flag>>>> ELSE <<>>) = (IF flag = "" THEN <<>> ELSE <<<<flag>>>>)
    BY <1>1 DEF Peeled
  <2> QED BY <2>1, <2>2, Zenon
<1> HIDE DEF sec, number, Values, Seconds
<1>8. r[1] = value /\ r[2] = flag /\ r[3] = number /\ r[4] = vector
  OBVIOUS
<1>9. r \in Values \X {"", "NX", "XX"} \X Seconds \X BOOLEAN
  BY <1>2, <1>3, <1>4
<1> HIDE DEF r
<1>10. \E s \in {<<>>} \cup {<<w>> : w \in Range(args)} :
         /\ IF s = <<>> THEN r[3] = 0 ELSE Positive(s[1]) /\ IntOf(s[1]) = r[3]
         /\ args = r[1] \o (IF r[2] = "" THEN <<>> ELSE <<<<r[2]>>>>) \o s
                   \o (IF r[4] THEN <<<<"VECTOR">>>> ELSE <<>>)
  BY <1>5, <1>6, <1>7, <1>8, Zenon
<1>11. r \in SetReadings(args)
  BY <1>9, <1>10, Zenon DEF SetReadings, Values, Seconds
<1> QED BY <1>1, <1>11

(* What follows the key of SET is read as one of the forms that the          *)
(* documents give, the one with the most options, and the value always keeps *)
(* a word: parseSetArgs peels from the right in the one order that allows    *)
(* this.                                                                     *)
THEOREM SetTheorem == Spec => []SetWordsRead
<1>1. Typed => SetWordsRead
  <2> SUFFICES ASSUME Typed, kind = "set", line # <<>>
               PROVE  /\ ParseSetArgs(line) \in SetReadings(line)
                      /\ \A r \in SetReadings(line) : Len(ParseSetArgs(line)[1]) <= Len(r[1])
    BY DEF SetWordsRead
  <2>1. line \in Seq(SetWords)
    <3>1. line \in Seq(Pieces(kind)) /\ Pieces(kind) \subseteq SetWords
      BY DEF Typed, SetWords
    <3> QED BY <3>1, WiderSeq
  <2>2. Len(line) >= 1
    <3>1. Len(line) \in Nat \ {0}
      BY <2>1, EmptySeq
    <3> QED BY <3>1
  <2>3. ParseSetArgs(line) \in SetReadings(line)
    BY <2>1, <2>2, ReadIsReading
  <2>4. ASSUME NEW r \in SetReadings(line)
        PROVE  Len(ParseSetArgs(line)[1]) <= Len(r[1])
    BY <2>1, <2>2, ReadingReads, MostPeeled
  <2> QED BY <2>3, <2>4
<1> QED BY <1>1, AllTyped, PTL
---------------------------------------------------------------------------
(* An expression ends with a condition or with ")", never with a limit.      *)
LEMMA GrammarEnds ==
  ASSUME NEW words, Len(words) \in Nat, NEW j \in 1 .. Len(words) + 1,
         words[j - 1] # <<")">>, ~IsOperator(words[j - 2])
  PROVE  \A i \in 1 .. Len(words) + 1 : Grammar(words)[<<"or", i, j>>] = {}
<1> DEFINE means == Grammar(words)
           Nothing(i) == \A m \in {"or", "and", "not"} : means[<<m, i, j>>] = {}
           Good == {n \in Nat : \A i \in 1 .. Len(words) + 1 : j - i <= n => Nothing(i)}
<1>1. 0 \in Good
  <2>1. ASSUME NEW i \in 1 .. Len(words) + 1, j - i <= 0
        PROVE  Nothing(i)
    <3>1. i >= j
      BY <2>1
    <3> QED BY <3>1, GrammarAt
  <2> QED BY <2>1
<1>2. ASSUME NEW n \in Nat, n \in Good
      PROVE  n + 1 \in Good
  <2>0. \A k \in 1 .. Len(words) + 1 : j - k <= n => Nothing(k)
    BY <1>2
  <2>1. ASSUME NEW i \in 1 .. Len(words) + 1, j - i <= n + 1, i < j
        PROVE  Nothing(i)
    <3>1. /\ means[<<"or", i, j>>] = OrMeans(words, means, i, j)
          /\ means[<<"and", i, j>>] = AndMeans(words, means, i, j)
          /\ means[<<"not", i, j>>] = NotMeans(words, means, i, j)
      BY <2>1, GrammarAt
    <3> HIDE DEF means
    <3>2. i + 1 \in 1 .. Len(words) + 1 /\ j - (i + 1) <= n
      BY <2>1
    <3>3. \A k \in i + 1 .. j - 1 : k + 1 \in 1 .. Len(words) + 1 /\ j - (k + 1) <= n
      BY <2>1
    <3>4. means[<<"not", i + 1, j>>] = {} /\ \A k \in i + 1 .. j - 1 :
            means[<<"and", k + 1, j>>] = {} /\ means[<<"or", k + 1, j>>] = {}
      BY <2>0, <3>2, <3>3
    <3>5. NotMeans(words, means, i, j) = {}
      <4>1. CASE words[i] = <<"NOT">>
        BY <3>4, <4>1 DEF NotMeans
      <4>2. CASE words[i] = <<"(">>
        BY <4>2 DEF NotMeans
      <4>3. CASE words[i] \notin {<<"(">>, <<"NOT">>}
        <5>1. j = i + 3 => ~IsOperator(words[i + 1])
          <6>1. j = i + 3 => i + 1 = j - 2
            OBVIOUS
          <6> QED BY <6>1
        <5> QED BY <4>3, <5>1 DEF NotMeans
      <4> QED BY <4>1, <4>2, <4>3
    <3>6. AndMeans(words, means, i, j) = means[<<"not", i, j>>]
      <4> DEFINE Places == {l \in i + 1 .. j - 1 : words[l] = <<"AND">>}
                 Of(k) == {f \cap g : f \in means[<<"not", i, k>>], g \in means[<<"and", k + 1, j>>]}
      <4>1. AndMeans(words, means, i, j) = means[<<"not", i, j>>] \cup UNION {Of(k) : k \in Places}
        BY DEF AndMeans
      <4>2. ASSUME NEW k \in Places
            PROVE  Of(k) = {}
        <5>1. means[<<"and", k + 1, j>>] = {}
          BY <3>4
        <5>2. ~\E g : g \in means[<<"and", k + 1, j>>]
          BY <5>1
        <5>3. ASSUME NEW x \in Of(k)
              PROVE  FALSE
          BY <5>2, <5>3
        <5> HIDE DEF Of
        <5> QED BY <5>3
      <4> HIDE DEF Of, Places
      <4> QED BY <4>1, <4>2
    <3>7. OrMeans(words, means, i, j) = means[<<"and", i, j>>]
      <4> DEFINE Places == {l \in i + 1 .. j - 1 : words[l] = <<"OR">>}
                 Of(k) == {f \cup g : f \in means[<<"and", i, k>>], g \in means[<<"or", k + 1, j>>]}
      <4>1. OrMeans(words, means, i, j) = means[<<"and", i, j>>] \cup UNION {Of(k) : k \in Places}
        BY DEF OrMeans
      <4>2. ASSUME NEW k \in Places
            PROVE  Of(k) = {}
        <5>1. means[<<"or", k + 1, j>>] = {}
          BY <3>4
        <5>2. ~\E g : g \in means[<<"or", k + 1, j>>]
          BY <5>1
        <5>3. ASSUME NEW x \in Of(k)
              PROVE  FALSE
          BY <5>2, <5>3
        <5> HIDE DEF Of
        <5> QED BY <5>3
      <4> HIDE DEF Of, Places
      <4> QED BY <4>1, <4>2
    <3> QED BY <3>1, <3>5, <3>6, <3>7
  <2>2. ASSUME NEW i \in 1 .. Len(words) + 1, i >= j
        PROVE  Nothing(i)
    BY <2>2, GrammarAt
  <2>3. \A i \in 1 .. Len(words) + 1 : j - i <= n + 1 => Nothing(i)
    <3> HIDE DEF Nothing
    <3>1. \A i \in 1 .. Len(words) + 1 : i < j \/ i >= j
      OBVIOUS
    <3> QED BY <2>1, <2>2, <3>1
  <2> QED BY <2>3
<1>3. \A n \in Nat : n \in Good
  <2>1. Good \in SUBSET Nat
    OBVIOUS
  <2> HIDE DEF Good
  <2> QED BY <1>1, <1>2, <2>1, Induction
<1>4. ASSUME NEW i \in 1 .. Len(words) + 1
      PROVE  Nothing(i)
  <2>1. Len(words) + 1 \in Nat /\ j - i <= Len(words) + 1
    OBVIOUS
  <2>2. Len(words) + 1 \in Good
    <3> HIDE DEF Good
    <3> QED BY <1>3, <2>1
  <2> HIDE DEF Nothing
  <2> QED BY <2>1, <2>2
<1> QED BY <1>4

LEMMA WordsOfSymbol ==
  ASSUME NEW c, c \notin {"(", ")"}
  PROVE  Words(<<c>>) = <<<<c>>>>
<1> DEFINE A == {c, "(", ")"}
           field == <<c>>
<1>1. field \in Seq(A) /\ Len(field) = 1 /\ field[1] = c
  OBVIOUS
<1> HIDE DEF A, field
<1>2. \A d \in {"(", ")"} : Leading(field, d) = 0
  <2>1. ASSUME NEW d \in {"(", ")"}
        PROVE  Leading(field, d) = 0
    <3> DEFINE n == Leading(field, d)
    <3>1. n \in 0 .. 1 /\ \A i \in 1 .. n : field[i] = d
      BY <1>1, LeadingIs
    <3> HIDE DEF n
    <3>2. n # 1
      BY <1>1, <3>1
    <3>3. n = 0
      BY <3>1, <3>2
    <3> QED BY <3>3 DEF n
  <2> QED BY <2>1
<1>3. SubSeq(field, 0 + 1, Len(field)) = field /\ SubSeq(field, 1, Len(field) - 0) = field
  <2>1. 0 + 1 = 1 /\ Len(field) - 0 = Len(field)
    BY <1>1
  <2> QED BY <1>1, <2>1, SubSeqFull
<1>4. Reverse(field) = field
  <2>1. Reverse(field) \in Seq(A) /\ Len(Reverse(field)) = 1
    BY <1>1, Reversed
  <2>2. Reverse(field)[1] = field[(1 - 1) + 1]
    BY <1>1 DEF Reverse
  <2> QED BY <1>1, <2>1, <2>2
<1>5. field # <<>>
  BY <1>1
<1>6. [i \in 1 .. 0 |-> <<"(">>] = <<>> /\ [i \in 1 .. 0 |-> <<")">>] = <<>>
  OBVIOUS
<1>7. Words(field) = <<>> \o <<field>> \o <<>>
  BY <1>2, <1>3, <1>4, <1>5, <1>6, Zenon DEF Words
<1>8. <<>> \o <<field>> \o <<>> = <<field>>
  <2>1. <<field>> \in Seq({field})
    OBVIOUS
  <2> QED BY <2>1, ConcatEmptySeq
<1> QED BY <1>7, <1>8 DEF field

LEMMA NumberIsSymbol ==
  ASSUME NEW w, Positive(w)
  PROVE  w = <<w[1]>> /\ w[1] \notin {"(", ")"}
BY NumbersAssumption DEF Positive, IsInt

LEMMA LastTwoWords ==
  ASSUME NEW A, "(" \in A, ")" \in A, NEW fields \in Seq(Seq(A)), Limited(fields)
  PROVE  /\ Tokens(fields) \in Seq(Seq(A)) /\ Len(Tokens(fields)) >= 2
         /\ Tokens(fields)[Len(Tokens(fields)) - 1] = <<"LIMIT">>
         /\ Positive(Tokens(fields)[Len(Tokens(fields))])
<1> DEFINE n == Len(fields)
           w == fields[n]
           ws == [i \in DOMAIN fields |-> Words(fields[i])]
           limit == <<"LIMIT">>
<1>1. n \in Nat /\ n >= 2 /\ fields[n - 1] = limit /\ Positive(w)
  BY DEF Limited, EndsWith, Last
<1>2. ws \in Seq(Seq(Seq(A))) /\ Tokens(fields) = FlattenSeq(ws) /\ Tokens(fields) \in Seq(Seq(A))
  BY TokensOfLine DEF Tokens
<1>3. Len(ws) = n /\ ws[n - 1] = <<limit>> /\ ws[n] = <<w>>
  <2>1. DOMAIN fields = 1 .. n /\ n - 1 \in 1 .. n /\ n \in 1 .. n
    BY <1>1
  <2>2. Words(limit) = <<limit>>
    BY WordsOfSymbol
  <2>3. Words(w) = <<w>>
    <3>1. w = <<w[1]>> /\ w[1] \notin {"(", ")"}
      BY <1>1, NumberIsSymbol
    <3> HIDE DEF w
    <3>2. Words(<<w[1]>>) = <<<<w[1]>>>>
      BY <3>1, WordsOfSymbol
    <3> QED BY <3>1, <3>2
  <2>4. ws[n - 1] = Words(fields[n - 1]) /\ ws[n] = Words(fields[n])
    BY <2>1
  <2>5. Len(ws) = n
    BY <1>1, <2>1
  <2> QED BY <1>1, <2>2, <2>3, <2>4, <2>5
<1>4. w \in Seq(A) /\ limit \in Seq(A)
  <2>1. n \in 1 .. n /\ n - 1 \in 1 .. n
    BY <1>1
  <2>2. fields[n] \in Seq(A) /\ fields[n - 1] \in Seq(A)
    BY <2>1, ElementOfSeq
  <2> QED BY <1>1, <2>2
<1> HIDE DEF ws, n, w, limit
<1>5. PICK f \in [1 .. Len(ws) -> Seq(Seq(A))] :
        /\ ws # <<>> => f[1] = ws[1] /\ FlattenSeq(ws) = f[Len(ws)]
        /\ \A i \in 2 .. Len(ws) : f[i] = f[i - 1] \o ws[i]
  BY ONLY <1>2, Flattened
<1>6. ws # <<>>
  BY <1>1, <1>3
<1>7. Tokens(fields) = f[n - 1] \o <<w>>
  <2>1. n \in 2 .. Len(ws)
    BY <1>1, <1>3
  <2> QED BY <1>2, <1>3, <1>5, <1>6, <2>1
<1>8. PICK x \in Seq(Seq(A)) : f[n - 1] = x \o <<limit>>
  <2>1. CASE n = 2
    <3>1. f[n - 1] = <<limit>>
      BY <1>3, <1>5, <1>6, <2>1
    <3>2. <<limit>> \in Seq(Seq(A)) /\ <<>> \in Seq(Seq(A))
      BY <1>4
    <3>3. <<>> \o <<limit>> = <<limit>>
      BY <3>2, ConcatEmptySeq
    <3> QED BY <3>1, <3>2, <3>3
  <2>2. CASE n # 2
    <3>1. n - 1 \in 2 .. Len(ws) /\ (n - 1) - 1 \in 1 .. Len(ws)
      BY <1>1, <1>3, <2>2
    <3>2. f[n - 1] = f[(n - 1) - 1] \o <<limit>> /\ f[(n - 1) - 1] \in Seq(Seq(A))
      BY <1>3, <1>5, <3>1
    <3> QED BY <3>2
  <2> QED BY <2>1, <2>2
<1> DEFINE y == x \o <<limit>>
           t == y \o <<w>>
<1>9. y \in Seq(Seq(A)) /\ Len(y) = Len(x) + 1 /\ Last(y) = limit
  BY <1>4, EndOf
<1>10. Len(y) \in Nat /\ Len(y) >= 1
  <2>1. Len(x) \in Nat
    OBVIOUS
  <2> HIDE DEF y
  <2> QED BY <1>9, <2>1
<1> HIDE DEF y
<1>11. /\ t \in Seq(Seq(A)) /\ Len(t) = Len(y) + 1 /\ Last(t) = w /\ t[Len(y)] = limit
  <2>1. t \in Seq(Seq(A)) /\ Len(t) = Len(y) + 1 /\ Last(t) = w
    BY <1>4, <1>9, EndOf
  <2>2. <<w>> \in Seq(Seq(A)) /\ Len(<<w>>) = 1
    BY <1>4
  <2>3. Len(y) \in 1 .. Len(y) + 1
    BY <1>10
  <2>4. t[Len(y)] = y[Len(y)]
    BY <1>9, <1>10, <2>2, <2>3, ConcatProperties
  <2> QED BY <1>9, <2>1, <2>4 DEF Last
<1> HIDE DEF t
<1>12. Tokens(fields) = t
  BY <1>7, <1>8 DEF t, y
<1>13. Len(t) - 1 = Len(y) /\ t[Len(t)] = w /\ Len(t) >= 2
  BY <1>10, <1>11 DEF Last
<1> QED BY <1>1, <1>11, <1>12, <1>13 DEF limit

LEMMA LimitedMeansNothing ==
  ASSUME NEW A, "(" \in A, ")" \in A, NEW fields \in Seq(Seq(A)), Limited(fields)
  PROVE  AtoFilter(fields) = {}
<1> DEFINE words == Tokens(fields)
           last == Len(words) + 1
<1>1. /\ Len(words) \in Nat /\ Len(words) >= 2
      /\ words[Len(words) - 1] = <<"LIMIT">> /\ Positive(words[Len(words)])
  BY LastTwoWords
<1>2. AtoFilter(fields) = Grammar(words)[<<"or", 1, last>>]
  BY <1>1, FilterIsMeaning DEF Meanings
<1> HIDE DEF words
<1>3. last - 1 = Len(words) /\ last - 2 = Len(words) - 1 /\ last \in 1 .. Len(words) + 1
      /\ 1 \in 1 .. Len(words) + 1
  BY <1>1
<1>4. words[last - 1] # <<")">>
  <2>1. words[last - 1][1] \notin {"(", ")"}
    BY <1>1, <1>3, NumberIsSymbol
  <2>2. <<")">>[1] = ")"
    OBVIOUS
  <2> QED BY <2>1, <2>2
<1>5. ~IsOperator(words[last - 2])
  <2>1. <<"LIMIT">>[1] = "LIMIT" /\ "LIMIT" \notin DOMAIN Operator
    BY DEF Operator
  <2> QED BY <1>1, <1>3, <2>1 DEF IsOperator
<1>6. Grammar(words)[<<"or", 1, last>>] = {}
  <2> HIDE DEF last
  <2> QED BY <1>1, <1>3, <1>4, <1>5, GrammarEnds
<1> QED BY <1>2, <1>6

LEMMA ExecQuery ==
  ASSUME NEW args, NEW rest, NEW limit, Len(args) # 0, ParseLimit(args) = <<rest, limit>>,
         AtoFilter(rest) # {}
  PROVE  Exec("QUERY", args) = <<"Query", AtoFilter(rest), <<>>, limit>>
<1>1. Exec("QUERY", args) = ExecSearch("QUERY", args)
  BY KeyCommands DEF Exec
<1>2. ParseLimit(args)[1] = rest /\ ParseLimit(args)[2] = limit
  OBVIOUS
<1>3. ExecSearch("QUERY", args) = <<"Query", AtoFilter(rest), <<>>, limit>>
  BY <1>2 DEF ExecSearch
<1> QED BY <1>1, <1>3

LEMMA LimitAdded ==
  ASSUME NEW A, NEW args \in Seq(A), <<"LIMIT">> \in A, NEW w \in A, Positive(w), Len(args) # 0
  PROVE  /\ ParseLimit(args \o <<<<"LIMIT">>, w>>) = <<args, IntOf(w)>>
         /\ Len(args \o <<<<"LIMIT">>, w>>) # 0
<1> DEFINE limit == <<"LIMIT">>
           tail == <<limit, w>>
           z == args \o tail
           n == Len(args)
<1>1. tail \in Seq(A) /\ Len(tail) = 2 /\ tail[1] = limit /\ tail[2] = w /\ n \in Nat
  OBVIOUS
<1> HIDE DEF tail, limit
<1>2. /\ z \in Seq(A) /\ Len(z) = n + 2
      /\ \A i \in 1 .. n + 2 : z[i] = IF i <= n THEN args[i] ELSE tail[i - n]
  <2>1. /\ z \in Seq(A) /\ Len(z) = Len(args) + Len(tail)
        /\ \A i \in 1 .. Len(args) + Len(tail) : z[i] = IF i <= Len(args) THEN args[i] ELSE tail[i - Len(args)]
    BY <1>1, ConcatProperties
  <2> QED BY <1>1, <2>1
<1> HIDE DEF z
<1>3. z[n + 1] = limit /\ z[n + 2] = w
  <2>1. /\ n + 1 \in 1 .. n + 2 /\ n + 2 \in 1 .. n + 2 /\ ~(n + 1 <= n) /\ ~(n + 2 <= n)
        /\ (n + 1) - n = 1 /\ (n + 2) - n = 2
    BY <1>1
  <2> QED BY <1>1, <1>2, <2>1
<1>4. Len(z) >= 2 /\ Len(z) - 1 = n + 1 /\ Len(z) - 2 = n /\ Len(z) # 0
  BY <1>1, <1>2
<1>5. SubSeq(z, 1, n) = args
  <2>1. Begins(args, z)
    <3>1. \A i \in 1 .. n : i \in 1 .. n + 2 /\ i <= n
      BY <1>1
    <3>2. n <= Len(z)
      BY <1>1, <1>2
    <3> QED BY <1>2, <3>1, <3>2 DEF Begins
  <2> QED BY <1>2, <2>1, BeginsWith
<1>6. Last(z) = w
  BY <1>2, <1>3 DEF Last
<1>7. Limited(z)
  BY <1>3, <1>4, <1>6 DEF Limited, EndsWith, limit
<1>8. ParseLimit(z) = <<args, IntOf(w)>>
  BY <1>4, <1>5, <1>6, <1>7 DEF ParseLimit
<1> QED BY <1>4, <1>8 DEF z, tail, limit

(* QUERY takes a LIMIT and its number off the end and nothing else: an       *)
(* expression that is complete is read in full without them and the same     *)
(* with them, because none of its own last words can be mistaken for a       *)
(* limit.                                                                    *)
THEOREM LimitTheorem == Spec => []LimitKeepsExpression
<1>1. Typed => LimitKeepsExpression
  <2> DEFINE filter == AtoFilter(line)
  <2> SUFFICES ASSUME Typed, kind = "filter", filter # {}
               PROVE  /\ Exec("QUERY", line) = <<"Query", filter, <<>>, 0>>
                      /\ \A w \in DOMAIN Numbers : Positive(w) =>
                           Exec("QUERY", line \o <<<<"LIMIT">>, w>>) = <<"Query", filter, <<>>, IntOf(w)>>
    BY DEF LimitKeepsExpression
  <2> DEFINE A == SymbolsOf(kind) \cup {"LIMIT"} \cup {w[1] : w \in DOMAIN Numbers}
  <2>1. line \in Seq(Seq(A)) /\ "(" \in A /\ ")" \in A /\ <<"LIMIT">> \in Seq(A)
    <3>1. line \in Seq(Seq(SymbolsOf(kind))) /\ "(" \in SymbolsOf(kind) /\ ")" \in SymbolsOf(kind)
      BY LineOfWords
    <3>2. SymbolsOf(kind) \subseteq A /\ "LIMIT" \in A
      OBVIOUS
    <3> HIDE DEF A
    <3>3. Seq(SymbolsOf(kind)) \subseteq Seq(A)
      BY <3>2, WiderSeq
    <3>4. line \in Seq(Seq(A))
      BY <3>1, <3>3, WiderSeq
    <3>5. <<"LIMIT">> \in Seq(A)
      BY <3>2
    <3> QED BY <3>1, <3>2, <3>4, <3>5
  <2>2. \A w \in DOMAIN Numbers : w \in Seq(A)
    <3>1. ASSUME NEW w \in DOMAIN Numbers
          PROVE  w \in Seq(A)
      <4>1. w = <<w[1]>> /\ w[1] \in A
        BY NumbersAssumption
      <4> HIDE DEF A
      <4>2. <<w[1]>> \in Seq(A)
        BY <4>1
      <4> QED BY <4>1, <4>2
    <3> QED BY <3>1
  <2> HIDE DEF A
  <2>3. Len(line) # 0
    <3>1. ASSUME Len(line) = 0
          PROVE  FALSE
      <4>1. line = <<>>
        BY <2>1, <3>1
      <4>2. Tokens(line) = <<>>
        <5>1. [i \in DOMAIN line |-> Words(line[i])] = <<>>
          BY <4>1
        <5> QED BY <5>1 DEF Tokens, FlattenSeq
      <4>3. Len(Tokens(line)) = 0 /\ 1 \in 1 .. Len(Tokens(line)) + 1
        BY <4>2
      <4>4. filter = Grammar(Tokens(line))[<<"or", 1, 1>>]
        BY <4>3, FilterIsMeaning DEF Meanings
      <4>5. Grammar(Tokens(line))[<<"or", 1, 1>>] = {}
        <5> DEFINE words == Tokens(line)
        <5>1. Len(words) \in Nat /\ 1 \in 1 .. Len(words) + 1 /\ 1 >= 1 /\ "or" \in {"or", "and", "not"}
          BY <4>3
        <5> HIDE DEF words
        <5>2. \A m \in {"or", "and", "not"} : Grammar(words)[<<m, 1, 1>>] = {}
          BY <5>1, GrammarAt
        <5> QED BY <5>1, <5>2 DEF words
      <4> QED BY <4>4, <4>5
    <3> QED BY <3>1
  <2>4. ~Limited(line)
    BY <2>1, LimitedMeansNothing
  <2>5. ParseLimit(line) = <<line, 0>>
    BY <2>4 DEF ParseLimit
  <2>6. Exec("QUERY", line) = <<"Query", filter, <<>>, 0>>
    BY <2>3, <2>5, ExecQuery
  <2>7. ASSUME NEW w \in DOMAIN Numbers, Positive(w)
        PROVE  Exec("QUERY", line \o <<<<"LIMIT">>, w>>) = <<"Query", filter, <<>>, IntOf(w)>>
    <3> DEFINE z == line \o <<<<"LIMIT">>, w>>
    <3>1. ParseLimit(z) = <<line, IntOf(w)>> /\ Len(z) # 0
      BY <2>1, <2>2, <2>3, <2>7, LimitAdded
    <3> HIDE DEF z
    <3>2. Exec("QUERY", z) = <<"Query", filter, <<>>, IntOf(w)>>
      BY <3>1, ExecQuery
    <3> QED BY <3>2 DEF z
  <2> QED BY <2>6, <2>7
<1> QED BY <1>1, AllTyped, PTL
---------------------------------------------------------------------------
(* The options of VSEARCH. With h of them at the end, the others end here.   *)
WordsLeft(args, h) == Len(args) - 2 * h

OptionAt(args, k) ==      \* the option before which k - 1 have been peeled
  \/ args[WordsLeft(args, k) + 1] = <<"MATCH">>
  \/ args[WordsLeft(args, k) + 1] = <<"LIMIT">> /\ Positive(args[WordsLeft(args, k) + 2])

LEMMA RestIs ==
  ASSUME NEW A, NEW args \in Seq(A), NEW h \in Nat, 2 * h <= Len(args)
  PROVE  /\ WordsLeft(args, h) \in 0 .. Len(args) /\ (Len(args) - WordsLeft(args, h)) \div 2 = h
         /\ (Len(args) - WordsLeft(args, h)) % 2 = 0
<1>1. Len(args) \in Nat
  OBVIOUS
<1>2. WordsLeft(args, h) \in 0 .. Len(args) /\ Len(args) - WordsLeft(args, h) = 2 * h
  BY <1>1 DEF WordsLeft
<1>3. (2 * h) \div 2 = h /\ (2 * h) % 2 = 0
  OBVIOUS
<1> QED BY <1>2, <1>3

LEMMA OptionsAre ==
  ASSUME NEW A, NEW args \in Seq(A), NEW h \in Nat, 2 * h <= Len(args)
  PROVE  Options(args, WordsLeft(args, h)) =
           {<<args[WordsLeft(args, h) + 2 * i - 1], args[WordsLeft(args, h) + 2 * i], i>> : i \in 1 .. h}
BY RestIs DEF Options

LEMMA FirstOfNone ==
  ASSUME NEW A, NEW args \in Seq(A), NEW h \in Nat, 2 * h <= Len(args), NEW word,
         \A i \in 1 .. h : args[WordsLeft(args, h) + 2 * i - 1] # word
  PROVE  FirstOf(Options(args, WordsLeft(args, h)), word) = <<>>
<1> DEFINE options == Options(args, WordsLeft(args, h))
<1>1. \A o \in options : o[1] # word
  BY OptionsAre
<1> HIDE DEF options
<1>2. {o \in options : o[1] = word} = {}
  BY <1>1
<1>3. FirstOf(options, word) = <<>>
  BY <1>2 DEF FirstOf
<1> QED BY <1>3 DEF options

LEMMA FirstOfSome ==
  ASSUME NEW A, NEW args \in Seq(A), NEW h \in Nat, 2 * h <= Len(args), NEW word,
         NEW i \in 1 .. h, args[WordsLeft(args, h) + 2 * i - 1] = word,
         \A j \in 1 .. h : args[WordsLeft(args, h) + 2 * j - 1] = word => i <= j
  PROVE  FirstOf(Options(args, WordsLeft(args, h)), word) = args[WordsLeft(args, h) + 2 * i]
<1> DEFINE options == Options(args, WordsLeft(args, h))
           At(j) == <<args[WordsLeft(args, h) + 2 * j - 1], args[WordsLeft(args, h) + 2 * j], j>>
           some == {o \in options : o[1] = word}
           first == CHOOSE o \in some : \A p \in some : o[3] <= p[3]
<1>1. options = {At(j) : j \in 1 .. h}
  BY OptionsAre
<1>2. \A j : At(j)[1] = args[WordsLeft(args, h) + 2 * j - 1] /\ At(j)[2] = args[WordsLeft(args, h) + 2 * j] /\ At(j)[3] = j
  OBVIOUS
<1> HIDE DEF options, At
<1>3. At(i) \in some
  BY <1>1, <1>2
<1>4. \A o \in some : \E j \in 1 .. h : o = At(j) /\ i <= j /\ o[3] = j
  BY <1>1, <1>2
<1> HIDE DEF some
<1>5. first \in some /\ \A p \in some : first[3] <= p[3]
  <2>1. At(i)[3] = i /\ \A p \in some : i <= p[3]
    BY <1>2, <1>4
  <2>2. \E o \in some : \A p \in some : o[3] <= p[3]
    BY <1>3, <2>1
  <2> QED BY <2>2
<1> HIDE DEF first
<1>6. first = At(i)
  <2>1. PICK j \in 1 .. h : first = At(j) /\ i <= j /\ first[3] = j
    BY <1>4, <1>5
  <2>2. j <= i
    BY <1>2, <1>3, <1>5, <2>1
  <2>3. j = i
    BY <2>1, <2>2
  <2> QED BY <2>1, <2>3
<1>7. FirstOf(options, word) = first[2]
  <2>1. some # {}
    BY <1>3
  <2> QED BY <2>1 DEF FirstOf, some, first
<1> QED BY <1>2, <1>6, <1>7 DEF options

(* One more option in front of those.                                        *)
LEMMA FirstOfMore ==
  ASSUME NEW A, NEW args \in Seq(A), NEW h \in Nat, 2 * (h + 1) <= Len(args), NEW word
  PROVE  FirstOf(Options(args, WordsLeft(args, h + 1)), word) =
           IF args[WordsLeft(args, h + 1) + 1] = word THEN args[WordsLeft(args, h + 1) + 2]
           ELSE FirstOf(Options(args, WordsLeft(args, h)), word)
<1> DEFINE m == WordsLeft(args, h)
           l == WordsLeft(args, h + 1)
           At(n, i) == args[n + 2 * i - 1]
<1>1. h + 1 \in Nat /\ 2 * h <= Len(args) /\ Len(args) \in Nat /\ m \in Int /\ l \in Int /\ m = l + 2
  <2>1. Len(args) \in Nat
    OBVIOUS
  <2> QED BY <2>1 DEF WordsLeft
<1>2. \A i \in 1 .. h : i + 1 \in 1 .. h + 1 /\ At(l, i + 1) = At(m, i) /\ l + 2 * (i + 1) = m + 2 * i
  <2>1. \A i \in 1 .. h : i + 1 \in 1 .. h + 1 /\ l + 2 * (i + 1) = m + 2 * i
    BY <1>1
  <2> HIDE DEF m, l
  <2>2. ASSUME NEW i \in 1 .. h
        PROVE  At(l, i + 1) = At(m, i)
    <3>1. l + 2 * (i + 1) = m + 2 * i
      BY <2>1
    <3> QED BY <1>1, <3>1
  <2> HIDE DEF At
  <2> QED BY <2>1, <2>2
<1>3. At(l, 1) = args[l + 1] /\ l + 2 * 1 = l + 2 /\ 1 \in 1 .. h + 1
  <2>1. (l + 2 * 1) - 1 = l + 1 /\ l + 2 * 1 = l + 2
    BY <1>1
  <2> HIDE DEF l
  <2> QED BY <1>1, <2>1
<1>4. \A j \in 1 .. h + 1 : j = 1 \/ (j - 1 \in 1 .. h /\ (j - 1) + 1 = j)
  OBVIOUS
<1>5. CASE args[l + 1] = word
  <2>1. \A j \in 1 .. h + 1 : 1 <= j
    OBVIOUS
  <2> HIDE DEF l
  <2>2. FirstOf(Options(args, l), word) = args[l + 2 * 1]
    BY <1>1, <1>3, <1>5, <2>1, FirstOfSome DEF l
  <2> QED BY <1>3, <1>5, <2>2 DEF l
<1>6. CASE args[l + 1] # word /\ \A i \in 1 .. h : At(m, i) # word
  <2>1. \A j \in 1 .. h + 1 : At(l, j) # word
    <3> HIDE DEF m, l
    <3>1. ASSUME NEW j \in 1 .. h + 1
          PROVE  At(l, j) # word
      <4>1. CASE j = 1
        BY <1>3, <1>6, <4>1
      <4>2. CASE j # 1
        <5>1. j - 1 \in 1 .. h /\ (j - 1) + 1 = j
          BY <1>4, <4>2
        <5>2. At(l, (j - 1) + 1) = At(m, j - 1)
          BY <1>2, <5>1
        <5> HIDE DEF At
        <5> QED BY <1>6, <5>1, <5>2
      <4> QED BY <4>1, <4>2
    <3> QED BY <3>1
  <2>2. FirstOf(Options(args, l), word) = <<>>
    BY <1>1, <2>1, FirstOfNone
  <2>3. FirstOf(Options(args, m), word) = <<>>
    BY <1>1, <1>6, FirstOfNone
  <2> QED BY <1>6, <2>2, <2>3
<1>7. CASE args[l + 1] # word /\ \E i \in 1 .. h : At(m, i) = word
  <2> DEFINE Places == {i \in 1 .. h : At(m, i) = word}
  <2>1. PICK i \in Places : \A j \in Places : i <= j
    <3>1. Places \in SUBSET Nat
      OBVIOUS
    <3>2. Places # {}
      <4> HIDE DEF At
      <4> QED BY <1>7
    <3> HIDE DEF Places
    <3> QED BY <3>1, <3>2, LeastNumber
  <2>2. i \in 1 .. h /\ At(m, i) = word /\ \A j \in 1 .. h : At(m, j) = word => i <= j
    BY <2>1
  <2>3. FirstOf(Options(args, m), word) = args[m + 2 * i]
    BY <1>1, <2>2, FirstOfSome
  <2> HIDE DEF Places
  <2>4. \A j \in 1 .. h + 1 : At(l, j) = word => i + 1 <= j
    <3> HIDE DEF m, l
    <3>1. ASSUME NEW j \in 1 .. h + 1, At(l, j) = word
          PROVE  i + 1 <= j
      <4>1. j # 1
        BY <1>3, <1>7, <3>1
      <4>2. j - 1 \in 1 .. h /\ (j - 1) + 1 = j
        BY <1>4, <4>1
      <4>3. At(l, (j - 1) + 1) = At(m, j - 1)
        BY <1>2, <4>2
      <4> HIDE DEF At
      <4>4. At(m, j - 1) = word
        BY <3>1, <4>2, <4>3
      <4>5. i <= j - 1
        BY <2>2, <4>2, <4>4
      <4> QED BY <2>2, <4>2, <4>5
    <3> QED BY <3>1
  <2>5. i + 1 \in 1 .. h + 1 /\ At(l, i + 1) = word /\ l + 2 * (i + 1) = m + 2 * i
    <3> HIDE DEF m, l, At
    <3> QED BY <1>2, <2>2
  <2>6. FirstOf(Options(args, l), word) = args[l + 2 * (i + 1)]
    <3>1. h + 1 \in Nat /\ 2 * (h + 1) <= Len(args) /\ WordsLeft(args, h + 1) = l
      BY <1>1
    <3>2. args[l + 2 * (i + 1) - 1] = word /\ \A j \in 1 .. h + 1 : args[l + 2 * j - 1] = word => i + 1 <= j
      BY <2>4, <2>5
    <3> HIDE DEF l
    <3> QED BY <2>5, <3>1, <3>2, FirstOfSome
  <2> QED BY <1>7, <2>3, <2>5, <2>6
<1> QED BY <1>5, <1>6, <1>7

(* What has been read when h options have been peeled.                       *)
ReadAt(args, h) ==
  LET options == Options(args, WordsLeft(args, h))
      limit == FirstOf(options, <<"LIMIT">>)
  IN  <<SubSeq(args, 1, WordsLeft(args, h)), FirstOf(options, <<"MATCH">>),
        IF limit = <<>> THEN 0 ELSE IntOf(limit)>>

OneMore(args, h) == 2 * (h + 1) <= Len(args) /\ OptionAt(args, h + 1)

LEMMA PeelOption ==
  ASSUME NEW A, NEW args \in Seq(A), NEW h \in Nat, 2 * h <= Len(args)
  PROVE  PeelVSearch(ReadAt(args, h)) = IF OneMore(args, h) THEN ReadAt(args, h + 1) ELSE ReadAt(args, h)
<1> DEFINE n == WordsLeft(args, h)
           l == WordsLeft(args, h + 1)
           a == SubSeq(args, 1, n)
           pattern == FirstOf(Options(args, n), <<"MATCH">>)
           limit == FirstOf(Options(args, n), <<"LIMIT">>)
           number == IF limit = <<>> THEN 0 ELSE IntOf(limit)
           Search(x) == FirstOf(Options(args, l), x)
<1>1. n \in 0 .. Len(args) /\ Len(args) \in Nat /\ l = n - 2 /\ (2 * (h + 1) <= Len(args) <=> n >= 2)
  BY RestIs DEF WordsLeft
<1>2. ReadAt(args, h) = <<a, pattern, number>>
  BY DEF ReadAt
<1>3. ReadAt(args, h + 1) = <<SubSeq(args, 1, l), Search(<<"MATCH">>),
                              IF Search(<<"LIMIT">>) = <<>> THEN 0 ELSE IntOf(Search(<<"LIMIT">>))>>
  BY DEF ReadAt
<1>4. n >= 2 => \A x : Search(x) = IF args[l + 1] = x THEN args[l + 2] ELSE FirstOf(Options(args, n), x)
  BY <1>1, FirstOfMore
<1>5. OneMore(args, h) <=> /\ n >= 2
                           /\ \/ args[l + 1] = <<"MATCH">>
                              \/ args[l + 1] = <<"LIMIT">> /\ Positive(args[l + 2])
  BY <1>1 DEF OneMore, OptionAt
<1> HIDE DEF n, l
<1>6. a \in Seq(A) /\ Len(a) = n /\ \A i \in 1 .. n : a[i] = args[i]
  <2>1. \A i \in 1 .. n : args[i] \in A
    BY <1>1, ElementOfSeq
  <2> QED BY <1>1, <2>1
<1> HIDE DEF a
<1>7. n >= 2 => a[n - 1] = args[l + 1] /\ Last(a) = args[l + 2] /\ SubSeq(a, 1, n - 2) = SubSeq(args, 1, l)
  <2> SUFFICES ASSUME n >= 2
               PROVE  a[n - 1] = args[l + 1] /\ Last(a) = args[l + 2] /\ SubSeq(a, 1, n - 2) = SubSeq(args, 1, l)
    OBVIOUS
  <2>1. n - 1 \in 1 .. n /\ n \in 1 .. n /\ n - 1 = l + 1 /\ n = l + 2 /\ n - 2 = l /\ l \in 0 .. n
    BY <1>1
  <2>2. a[n - 1] = args[l + 1] /\ Last(a) = args[l + 2]
    BY <1>6, <2>1 DEF Last
  <2>3. SubSeq(a, 1, l) = SubSeq(args, 1, l)
    <3>1. \A i \in 1 .. l : i \in 1 .. n /\ a[i] \in A /\ args[i] \in A /\ a[i] = args[i]
      <4>1. \A i \in 1 .. l : i \in 1 .. n /\ i \in 1 .. Len(args)
        BY <1>1, <2>1
      <4> QED BY <1>6, <4>1, ElementOfSeq
    <3>2. /\ SubSeq(a, 1, l) \in Seq(A) /\ Len(SubSeq(a, 1, l)) = l
          /\ \A i \in 1 .. l : SubSeq(a, 1, l)[i] = a[i]
      BY <2>1, <3>1
    <3>3. /\ SubSeq(args, 1, l) \in Seq(A) /\ Len(SubSeq(args, 1, l)) = l
          /\ \A i \in 1 .. l : SubSeq(args, 1, l)[i] = args[i]
      BY <2>1, <3>1
    <3> QED BY <3>1, <3>2, <3>3, SeqEqual
  <2> QED BY <2>1, <2>2, <2>3
<1>8. \A x : EndsWith(a, x) <=> n >= 2 /\ args[l + 1] = x
  BY <1>6, <1>7 DEF EndsWith
<1>9. Limited(a) <=> n >= 2 /\ args[l + 1] = <<"LIMIT">> /\ Positive(args[l + 2])
  BY <1>7, <1>8 DEF Limited
<1>10. <<"LIMIT">> # <<"MATCH">>
  <2>1. <<"LIMIT">>[1] # <<"MATCH">>[1]
    OBVIOUS
  <2> QED BY <2>1
<1> DEFINE read == <<a, pattern, number>>
<1>11. read[1] = a /\ read[2] = pattern /\ read[3] = number
  OBVIOUS
<1> HIDE DEF read, pattern, number
<1>12. CASE Limited(a)
  <2>1. n >= 2 /\ args[l + 1] = <<"LIMIT">> /\ Positive(args[l + 2]) /\ ~EndsWith(a, <<"MATCH">>)
    BY <1>8, <1>9, <1>10, <1>12
  <2>2. ParseLimit(a)[1] = SubSeq(args, 1, l)
    BY <1>6, <1>7, <1>12, <2>1 DEF ParseLimit
  <2>3. PeelVSearch(read) = <<SubSeq(args, 1, l), pattern, IntOf(args[l + 2])>>
    BY <1>7, <1>11, <1>12, <2>1, <2>2 DEF PeelVSearch
  <2>4. Search(<<"MATCH">>) = pattern /\ Search(<<"LIMIT">>) = args[l + 2]
    BY <1>4, <1>10, <2>1 DEF pattern
  <2>5. args[l + 2] # <<>>
    <3>1. args[l + 2] = <<args[l + 2][1]>>
      BY <2>1, NumberIsSymbol
    <3> QED BY <3>1
  <2>6. ReadAt(args, h + 1) = <<SubSeq(args, 1, l), pattern, IntOf(args[l + 2])>>
    <3> HIDE DEF Search
    <3> QED BY <1>3, <2>4, <2>5
  <2> QED BY <1>2, <1>5, <2>1, <2>3, <2>6 DEF read
<1>13. CASE EndsWith(a, <<"MATCH">>)
  <2>1. n >= 2 /\ args[l + 1] = <<"MATCH">> /\ ~Limited(a)
    BY <1>8, <1>9, <1>10, <1>13
  <2>2. PeelVSearch(read) = <<SubSeq(args, 1, l), args[l + 2], number>>
    BY <1>6, <1>7, <1>11, <1>13, <2>1 DEF PeelVSearch
  <2>3. Search(<<"MATCH">>) = args[l + 2] /\ Search(<<"LIMIT">>) = limit
    BY <1>4, <1>10, <2>1
  <2>4. ReadAt(args, h + 1) = <<SubSeq(args, 1, l), args[l + 2], number>>
    <3> HIDE DEF Search, limit
    <3> QED BY <1>3, <2>3 DEF number
  <2> QED BY <1>2, <1>5, <2>1, <2>2, <2>4 DEF read
<1>14. CASE ~Limited(a) /\ ~EndsWith(a, <<"MATCH">>)
  <2>1. ~OneMore(args, h)
    BY <1>5, <1>8, <1>9, <1>14
  <2>2. PeelVSearch(read) = read
    BY <1>11, <1>14 DEF PeelVSearch
  <2> QED BY <1>2, <2>1, <2>2 DEF read
<1> QED BY <1>12, <1>13, <1>14

LEMMA OptionsCounted ==
  ASSUME NEW A, NEW args \in Seq(A)
  PROVE  \E h \in 0 .. Len(args) :
           2 * h <= Len(args) /\ ~OneMore(args, h) /\ \A k \in Nat : k < h => OneMore(args, k)
<1> DEFINE Stops == {h \in Nat : ~OneMore(args, h)}
<1>1. Len(args) \in Nat
  OBVIOUS
<1>2. Len(args) \in Stops
  BY <1>1 DEF OneMore
<1>3. PICK h \in Stops : \A k \in Stops : h <= k
  <2>1. Stops \in SUBSET Nat /\ Stops # {}
    BY <1>2
  <2> HIDE DEF Stops
  <2> QED BY <2>1, LeastNumber
<1>4. h \in Nat /\ h <= Len(args) /\ ~OneMore(args, h)
  BY <1>2, <1>3
<1>5. \A k \in Nat : k < h => OneMore(args, k)
  <2>1. ASSUME NEW k \in Nat, k < h, ~OneMore(args, k)
        PROVE  FALSE
    <3>1. k \in Stops
      BY <2>1
    <3>2. h <= k
      BY <1>3, <3>1
    <3> QED BY <1>4, <2>1, <3>2
  <2> QED BY <2>1
<1>6. 2 * h <= Len(args)
  <2>1. CASE h = 0
    BY <1>1, <2>1
  <2>2. CASE h # 0
    <3>1. h - 1 \in Nat /\ h - 1 < h /\ (h - 1) + 1 = h
      BY <1>4, <2>2
    <3>2. OneMore(args, h - 1)
      BY <1>5, <3>1
    <3> QED BY <3>1, <3>2 DEF OneMore
  <2> QED BY <2>1, <2>2
<1> QED BY <1>1, <1>4, <1>5, <1>6

LEMMA NothingPeeled ==
  ASSUME NEW A, NEW args \in Seq(A)
  PROVE  ReadAt(args, 0) = <<args, <<>>, 0>>
<1>1. WordsLeft(args, 0) = Len(args) /\ 2 * 0 <= Len(args) /\ 0 \in Nat
  BY DEF WordsLeft
<1>2. SubSeq(args, 1, Len(args)) = args
  BY SubSeqFull
<1>3. \A word : FirstOf(Options(args, WordsLeft(args, 0)), word) = <<>>
  <2>1. \A i \in 1 .. 0 : FALSE
    OBVIOUS
  <2> QED BY <1>1, <2>1, FirstOfNone
<1> DEFINE n == WordsLeft(args, 0)
           pattern == FirstOf(Options(args, n), <<"MATCH">>)
           limit == FirstOf(Options(args, n), <<"LIMIT">>)
<1>4. ReadAt(args, 0) = <<SubSeq(args, 1, n), pattern, IF limit = <<>> THEN 0 ELSE IntOf(limit)>>
  BY DEF ReadAt
<1>5. pattern = <<>> /\ limit = <<>> /\ SubSeq(args, 1, n) = args
  BY <1>1, <1>2, <1>3
<1> HIDE DEF n, pattern, limit
<1> QED BY <1>4, <1>5

LEMMA VSearchReads ==
  ASSUME NEW A, NEW args \in Seq(A), NEW h \in 0 .. Len(args), 2 * h <= Len(args),
         ~OneMore(args, h), \A k \in Nat : k < h => OneMore(args, k)
  PROVE  ParseVSearchArgs(args) = ReadAt(args, h)
<1> DEFINE S == 0 .. Len(args)
           Round(f, n) == IF n = 0 THEN <<args, <<>>, 0>> ELSE PeelVSearch(f[n - 1])
           At(n) == ReadAt(args, IF n <= h THEN n ELSE h)
           peeled == CHOOSE f : f = [n \in S |-> Round(f, n)]
<1>1. Len(args) \in Nat /\ h \in Nat /\ h <= Len(args)
  OBVIOUS
<1>2. At(0) = <<args, <<>>, 0>>
  BY <1>1, NothingPeeled
<1>3. ASSUME NEW n \in Nat, n # 0
      PROVE  At(n) = PeelVSearch(At(n - 1))
  <2>1. n - 1 \in Nat /\ (n - 1) + 1 = n
    BY <1>3
  <2>2. CASE n <= h
    <3>1. n - 1 < h /\ n - 1 <= h /\ 2 * (n - 1) <= Len(args)
      BY <1>1, <1>3, <2>1, <2>2
    <3>2. OneMore(args, n - 1)
      BY <2>1, <3>1
    <3>3. PeelVSearch(ReadAt(args, n - 1)) = ReadAt(args, n)
      BY <2>1, <3>1, <3>2, PeelOption
    <3> QED BY <2>2, <3>1, <3>3
  <2>3. CASE ~(n <= h)
    <3>1. PeelVSearch(ReadAt(args, h)) = ReadAt(args, h)
      BY <1>1, PeelOption
    <3>2. At(n) = ReadAt(args, h)
      BY <2>3
    <3>3. At(n - 1) = ReadAt(args, h)
      <4>1. n - 1 <= h => n - 1 = h
        BY <1>1, <1>3, <2>1, <2>3
      <4> QED BY <4>1
    <3> QED BY <3>1, <3>2, <3>3
  <2> QED BY <2>2, <2>3
<1> HIDE DEF At
<1>4. [n \in S |-> At(n)] = [n \in S |-> Round([k \in S |-> At(k)], n)]
  <2> DEFINE f == [k \in S |-> At(k)]
  <2>1. ASSUME NEW n \in S
        PROVE  At(n) = Round(f, n)
    <3>1. CASE n = 0
      BY <1>2, <3>1
    <3>2. CASE n # 0
      <4>1. n - 1 \in S /\ n \in Nat
        BY <1>1, <3>2
      <4>2. f[n - 1] = At(n - 1)
        BY <4>1
      <4> HIDE DEF f
      <4> QED BY <1>3, <3>2, <4>1, <4>2
    <3> QED BY <3>1, <3>2
  <2> HIDE DEF Round
  <2> QED BY <2>1
<1>5. peeled = [n \in S |-> Round(peeled, n)]
  <2>1. \E f : f = [n \in S |-> Round(f, n)]
    <3> HIDE DEF Round
    <3> QED BY <1>4, Zenon
  <2> HIDE DEF Round
  <2> QED BY <2>1, Zenon
<1>6. ParseVSearchArgs(args) = peeled[Len(args)]
  BY DEF ParseVSearchArgs
<1> HIDE DEF peeled
<1> DEFINE Good == {n \in Nat : n \in S => peeled[n] = At(n)}
<1>7. 0 \in Good
  <2>1. 0 \in S
    BY <1>1
  <2>2. peeled[0] = Round(peeled, 0)
    <3> HIDE DEF Round
    <3> QED BY <1>5, <2>1
  <2> QED BY <1>2, <2>2
<1>8. ASSUME NEW n \in Nat, n \in Good
      PROVE  n + 1 \in Good
  <2>1. ASSUME n + 1 \in S
        PROVE  peeled[n + 1] = At(n + 1)
    <3>1. n \in S /\ n + 1 # 0 /\ (n + 1) - 1 = n /\ n + 1 \in Nat
      BY <1>1, <2>1
    <3>2. peeled[n + 1] = Round(peeled, n + 1)
      <4> HIDE DEF Round
      <4> QED BY <1>5, <2>1
    <3>3. peeled[n] = At(n)
      BY <1>8, <3>1
    <3>4. peeled[n + 1] = PeelVSearch(peeled[n])
      BY <3>1, <3>2
    <3>5. At(n + 1) = PeelVSearch(At(n))
      BY <1>3, <3>1
    <3> QED BY <3>3, <3>4, <3>5
  <2> QED BY <2>1
<1>9. \A n \in Nat : n \in Good
  <2>1. Good \in SUBSET Nat
    OBVIOUS
  <2> HIDE DEF Good
  <2> QED BY <1>7, <1>8, <2>1, Induction
<1>10. peeled[Len(args)] = At(Len(args))
  <2>1. Len(args) \in S
    BY <1>1
  <2> QED BY <1>1, <1>9, <2>1
<1>11. At(Len(args)) = ReadAt(args, h)
  <2>1. Len(args) <= h => Len(args) = h
    BY <1>1
  <2> QED BY <2>1 DEF At
<1> QED BY <1>6, <1>10, <1>11

(* The words after the first n are options, and no more of them are.         *)
IsStart(args, n) ==
  /\ n \in 0 .. Len(args) /\ (Len(args) - n) % 2 = 0
  /\ \A o \in Options(args, n) : IsSearchOption(o)

LEMMA StartsThere ==
  ASSUME NEW A, NEW args \in Seq(A), NEW h \in Nat, 2 * h <= Len(args),
         \A k \in Nat : k < h => OneMore(args, k)
  PROVE  IsStart(args, WordsLeft(args, h))
<1> DEFINE n == WordsLeft(args, h)
<1>1. n \in 0 .. Len(args) /\ (Len(args) - n) % 2 = 0
  BY RestIs
<1>2. ASSUME NEW o \in Options(args, n)
      PROVE  IsSearchOption(o)
  <2>1. PICK i \in 1 .. h : o = <<args[n + 2 * i - 1], args[n + 2 * i], i>>
    BY OptionsAre
  <2>2. h - i \in Nat /\ h - i < h
    BY <2>1
  <2>3. OptionAt(args, (h - i) + 1)
    BY <2>2 DEF OneMore
  <2>4. /\ WordsLeft(args, (h - i) + 1) + 1 = n + 2 * i - 1
        /\ WordsLeft(args, (h - i) + 1) + 2 = n + 2 * i
    <3>1. Len(args) \in Nat
      OBVIOUS
    <3> QED BY <2>1, <3>1 DEF WordsLeft
  <2> HIDE DEF n
  <2>5. o[1] = args[n + 2 * i - 1] /\ o[2] = args[n + 2 * i]
    <3> DEFINE first == args[n + 2 * i - 1]
               second == args[n + 2 * i]
    <3>1. o = <<first, second, i>>
      BY <2>1, Zenon
    <3> HIDE DEF first, second
    <3>2. o[1] = first /\ o[2] = second
      BY ONLY <3>1
    <3> QED BY <3>2 DEF first, second
  <2> QED BY <2>3, <2>4, <2>5 DEF OptionAt, IsSearchOption
<1> QED BY <1>1, <1>2 DEF IsStart

LEMMA NoneBefore ==
  ASSUME NEW A, NEW args \in Seq(A), NEW h \in Nat, 2 * h <= Len(args), ~OneMore(args, h),
         NEW m, IsStart(args, m)
  PROVE  WordsLeft(args, h) <= m
<1>1. /\ Len(args) \in Nat /\ m \in 0 .. Len(args) /\ (Len(args) - m) % 2 = 0
      /\ \A o \in Options(args, m) : IsSearchOption(o)
  BY DEF IsStart
<1>2. SUFFICES ASSUME m < WordsLeft(args, h)
               PROVE  FALSE
  <2>1. WordsLeft(args, h) \in Int
    BY <1>1 DEF WordsLeft
  <2> QED BY <1>1, <2>1
<1> DEFINE g == (Len(args) - m) \div 2
           i == g - h
<1>3. g \in Nat /\ Len(args) - m = 2 * g
  BY <1>1
<1>4. i \in 1 .. g /\ 2 * (h + 1) <= Len(args) /\ m + 2 * i - 1 = WordsLeft(args, h + 1) + 1
      /\ m + 2 * i = WordsLeft(args, h + 1) + 2
  <2> HIDE DEF g
  <2>1. g \in Int /\ m \in Int /\ 0 <= m /\ Len(args) - m = 2 * g /\ m < Len(args) - 2 * h
    BY <1>1, <1>2, <1>3 DEF WordsLeft
  <2> QED BY <1>1, <2>1 DEF WordsLeft
<1>5. <<args[m + 2 * i - 1], args[m + 2 * i], i>> \in Options(args, m)
  BY <1>4 DEF Options
<1> DEFINE o == <<args[m + 2 * i - 1], args[m + 2 * i], i>>
<1>6. IsSearchOption(o)
  BY <1>1, <1>5
<1> HIDE DEF g, i
<1>7. o[1] = args[m + 2 * i - 1] /\ o[2] = args[m + 2 * i]
  <2> DEFINE first == args[m + 2 * i - 1]
             second == args[m + 2 * i]
  <2>1. o = <<first, second, i>>
    BY Zenon
  <2> HIDE DEF o, first, second
  <2>2. o[1] = first /\ o[2] = second
    BY ONLY <2>1
  <2> QED BY <2>2 DEF first, second
<1> HIDE DEF o
<1>8. OptionAt(args, h + 1)
  BY <1>4, <1>6, <1>7 DEF OptionAt, IsSearchOption
<1> QED BY <1>2, <1>4, <1>8 DEF OneMore

(* VSEARCH reads the options at the end of its words, as many as there are,  *)
(* in any order and repeated; of two of a kind it keeps the first, although  *)
(* it reads them from the right.                                             *)
THEOREM SearchTheorem == Spec => []SearchWordsRead
<1>1. Typed => SearchWordsRead
  <2> DEFINE starts == {n \in 0 .. Len(line) : (Len(line) - n) % 2 = 0
                                               /\ \A o \in Options(line, n) : IsSearchOption(o)}
             start == CHOOSE i \in starts : \A j \in starts : i <= j
             limit == FirstOf(Options(line, start), <<"LIMIT">>)
  <2> SUFFICES ASSUME Typed, kind = "vsearch"
               PROVE  ParseVSearchArgs(line) =
                        <<SubSeq(line, 1, start), FirstOf(Options(line, start), <<"MATCH">>),
                          IF limit = <<>> THEN 0 ELSE IntOf(limit)>>
    BY DEF SearchWordsRead
  <2>1. line \in Seq(Pieces(kind)) /\ Len(line) \in Nat
    BY DEF Typed
  <2>2. PICK h \in 0 .. Len(line) :
          2 * h <= Len(line) /\ ~OneMore(line, h) /\ \A k \in Nat : k < h => OneMore(line, k)
    BY <2>1, OptionsCounted
  <2>3. ParseVSearchArgs(line) = ReadAt(line, h)
    BY <2>1, <2>2, VSearchReads
  <2>4. WordsLeft(line, h) \in starts
    BY <2>1, <2>2, StartsThere DEF IsStart
  <2>5. \A j \in starts : WordsLeft(line, h) <= j
    BY <2>1, <2>2, NoneBefore DEF IsStart
  <2>6. \A j \in starts : j \in Int
    OBVIOUS
  <2> HIDE DEF starts
  <2>7. start = WordsLeft(line, h)
    <3>1. start \in starts /\ \A j \in starts : start <= j
      BY <2>4, <2>5
    <3>2. start <= WordsLeft(line, h) /\ WordsLeft(line, h) <= start
      BY <2>4, <2>5, <3>1
    <3>3. start \in Int /\ WordsLeft(line, h) \in Int
      BY <2>4, <2>6, <3>1
    <3> HIDE DEF start
    <3> QED BY <3>2, <3>3
  <2> HIDE DEF start
  <2> QED BY <2>3, <2>7 DEF ReadAt
<1> QED BY <1>1, AllTyped, PTL
============================================================================
