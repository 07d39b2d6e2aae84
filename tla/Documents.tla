----------------------------- MODULE Documents -----------------------------
(* JSON values as Go holds them, the paths that lead into them, and what     *)
(* writing one as text and reading it back does (src/core/utils/utils.go,    *)
(* src/core/store/set.go, setField.go).                                      *)
(*                                                                           *)
(* A value is a tree: a function from its places, each the path that leads   *)
(* there, to what stands there. The members of an array are named by their   *)
(* positions, "0", "1" and on: the other spellings that strconv.Atoi takes,  *)
(* "01" or "+1", are left out.                                               *)
(*                                                                           *)
(* A number is a whole number: int64, as Atov reads it, and float64, as      *)
(* json.Unmarshal does, print the same, so what is left of the two types is  *)
(* that a float64 is exact only up to Exact (2^53 in the code) and even      *)
(* above it. NaN stands for the floats that JSON text cannot hold: NaN and   *)
(* the infinities.                                                           *)
EXTENDS SequencesExt

CONSTANT Exact   \* bound: whole numbers up to Exact are float64, above it the even ones

ASSUME ExactAssumption == Exact \in Nat /\ Exact % 4 = 0

Object == <<"obj">>
Array == <<"arr">>

Leaf(what) == [p \in {<<>>} |-> what]

Null == Leaf(<<"null">>)
NaN == Leaf(<<"nan">>)
Num(n) == Leaf(<<"num", n>>)
Text(s) == Leaf(<<"text", s>>)
EmptyObj == Leaf(Object)
Absent == Leaf(<<"absent">>)   \* no such value

(* A document of the members it has, a function from their names.            *)
Grown(what, f) ==
  [p \in {<<>>} \cup UNION {{<<g>> \o q : q \in DOMAIN f[g]} : g \in DOMAIN f} |->
     IF p = <<>> THEN what ELSE f[Head(p)][Tail(p)]]

Obj(f) == Grown(Object, f)
Arr(f) == Grown(Array, f)

Kind(v) == v[<<>>][1]
Content(v) == v[<<>>][2]

(* TypeJSON of detectType: an object or an array.                            *)
IsDoc(v) == v[<<>>] \in {Object, Array}
IsNumber(v) == Kind(v) \in {"num", "nan"}

(* Every place hangs beneath an object or an array.                          *)
IsTree(v) ==
  /\ <<>> \in DOMAIN v /\ DOMAIN v \subseteq Seq(STRING)
  /\ \A p \in DOMAIN v :
       /\ p # <<>> => Front(p) \in DOMAIN v /\ v[Front(p)] \in {Object, Array}
       /\ v[p][1] = "num" => v[p] = <<"num", v[p][2]>> /\ v[p][2] \in Int
---------------------------------------------------------------------------
(* What a path leads to, and the places on the way to its last name.         *)
Below(v, path) == {p \in DOMAIN v : IsPrefix(path, p)}
Rest(path, p) == SubSeq(p, Len(path) + 1, Len(p))

WalkKeys(v, path) ==
  IF path \in DOMAIN v THEN [p \in {Rest(path, q) : q \in Below(v, path)} |-> v[path \o p]]
  ELSE Absent

Way(path) == {SubSeq(path, 1, i - 1) : i \in DOMAIN path}

(* walkKeysAndSet. A missing object on the way is created, an element of an  *)
(* array is not, and no other value is walked into; null deletes a field of  *)
(* an object.                                                                *)
CanSetBeyond(v, path) ==            \* mutant: no bound on the index of an array
  \A i \in DOMAIN path :
    LET at == SubSeq(path, 1, i - 1) IN at \in DOMAIN v => v[at] \in {Object, Array}

CanSet(v, path) ==
  \A i \in DOMAIN path :
    LET at == SubSeq(path, 1, i - 1)
    IN  at \in DOMAIN v => \/ v[at] = Object
                           \/ v[at] = Array /\ SubSeq(path, 1, i) \in DOMAIN v

Put(v, path, new) ==
  IF new = Null /\ (Front(path) \in DOMAIN v => v[Front(path)] = Object) THEN {}
  ELSE {path \o p : p \in DOMAIN new}

WalkKeysAndReset(v, path, new) ==   \* mutant: an object on the way is made anew
  LET kept == DOMAIN v \ Below(v, Front(path))
  IN  [p \in kept \cup Way(path) \cup Put(v, path, new) |->
         IF p \in Put(v, path, new) THEN new[Rest(path, p)]
         ELSE IF p \in kept THEN v[p] ELSE Object]

WalkKeysAndSet(v, path, new) ==
  LET kept == DOMAIN v \ Below(v, path)
  IN  [p \in kept \cup Way(path) \cup Put(v, path, new) |->
         IF p \in Put(v, path, new) THEN new[Rest(path, p)]
         ELSE IF p \in kept THEN v[p] ELSE Object]
---------------------------------------------------------------------------
(* float64(n), to the nearest, ties to even.                                 *)
Rounded(n) ==
  IF n <= Exact \/ n % 2 = 0 THEN n ELSE IF n % 4 = 1 THEN n - 1 ELSE n + 1

Plus(v, d) == IF Kind(v) = "nan" THEN NaN ELSE Num(Rounded(Rounded(Content(v)) + d))

(* json.Unmarshal of a text into any: every number becomes a float64.        *)
Parsed(text) ==
  [p \in DOMAIN text |->
     IF text[p][1] = "num" THEN <<"num", Rounded(text[p][2])>> ELSE text[p]]

(* json.Marshal fails on a value that holds a NaN anywhere, and else writes  *)
(* every number in full.                                                     *)
Writable(v) == \A p \in DOMAIN v : v[p] # <<"nan">>

(* Atov: a text that is an object or an array is parsed, an integer is not   *)
(* rounded, "NaN" is a float.                                                *)
Atov(text) == IF IsDoc(text) THEN Parsed(text) ELSE text
============================================================================
