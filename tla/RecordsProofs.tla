--------------------------- MODULE RecordsProofs ---------------------------
(* Theorems about Records and Walks: what an entry holds, what a restart     *)
(* makes of it and what a walk writes, for every document, path and text.    *)
EXTENDS Walks, SequenceTheorems, WellFoundedInduction, TLAPS

---------------------------------------------------------------------------
(* Paths: what it is to lead below another one.                              *)
Path == Seq(STRING)

LEMMA PrefixPointwise ==
  ASSUME NEW p \in Path, NEW q \in Path
  PROVE  IsPrefix(p, q) <=> Len(p) <= Len(q) /\ \A i \in 1 .. Len(p) : p[i] = q[i]
<1>1. SubSeq(p, 1, Len(p)) = p
  BY SubSeqFull DEF Path
<1>2. CASE Len(p) <= Len(q)
  <2> DEFINE u == SubSeq(q, 1, Len(p))
  <2>1. Len(p) \in Nat /\ Len(q) \in Nat
    BY LenProperties DEF Path
  <2>2. u \in Seq(STRING) /\ Len(u) = Len(p) /\ \A i \in 1 .. Len(p) : u[i] = q[i]
    BY <1>2, <2>1, SubSeqProperties DEF Path
  <2>3. p = u <=> \A i \in 1 .. Len(p) : p[i] = u[i]
    BY <2>2, SeqEqual DEF Path
  <2> QED BY <1>1, <1>2, <2>2, <2>3 DEF IsPrefix
<1>3. CASE ~(Len(p) <= Len(q))
  BY <1>3 DEF IsPrefix
<1> QED BY <1>2, <1>3

LEMMA PrefixTransitive ==
  ASSUME NEW p \in Path, NEW q \in Path, NEW r \in Path, IsPrefix(p, q), IsPrefix(q, r)
  PROVE  IsPrefix(p, r)
<1>1. Len(p) \in Nat /\ Len(q) \in Nat /\ Len(r) \in Nat
  BY LenProperties DEF Path
<1>2. Len(p) <= Len(q) /\ \A i \in 1 .. Len(p) : p[i] = q[i]
  BY PrefixPointwise
<1>3. Len(q) <= Len(r) /\ \A i \in 1 .. Len(q) : q[i] = r[i]
  BY PrefixPointwise
<1> QED BY <1>1, <1>2, <1>3, PrefixPointwise

LEMMA PrefixesComparable ==
  ASSUME NEW p \in Path, NEW q \in Path, NEW r \in Path, IsPrefix(p, r), IsPrefix(q, r)
  PROVE  IsPrefix(p, q) \/ IsPrefix(q, p)
<1>1. Len(p) \in Nat /\ Len(q) \in Nat /\ Len(r) \in Nat
  BY LenProperties DEF Path
<1>2. Len(p) <= Len(r) /\ \A i \in 1 .. Len(p) : p[i] = r[i]
  BY PrefixPointwise
<1>3. Len(q) <= Len(r) /\ \A i \in 1 .. Len(q) : q[i] = r[i]
  BY PrefixPointwise
<1> QED BY <1>1, <1>2, <1>3, PrefixPointwise

LEMMA Joined ==
  ASSUME NEW p \in Path, NEW q \in Path
  PROVE  /\ p \o q \in Path /\ IsPrefix(p, p \o q) /\ Rest(p, p \o q) = q
         /\ Len(p \o q) = Len(p) + Len(q)
<1> DEFINE r == p \o q
<1>1. Len(p) \in Nat /\ Len(q) \in Nat
  BY LenProperties DEF Path
<1>2. /\ r \in Path /\ Len(r) = Len(p) + Len(q)
      /\ \A i \in 1 .. Len(r) : r[i] = IF i <= Len(p) THEN p[i] ELSE q[i - Len(p)]
  BY ConcatProperties DEF Path
<1> HIDE DEF r
<1>3. IsPrefix(p, r)
  BY <1>1, <1>2, PrefixPointwise
<1> DEFINE u == SubSeq(r, Len(p) + 1, Len(r))
<1>4. /\ u \in Path /\ Len(u) = Len(q)
      /\ \A i \in 1 .. Len(q) : u[i] = r[Len(p) + i]
  <2>1. \A i \in Len(p) + 1 .. Len(r) : i \in 1 .. Len(r)
    BY <1>1, <1>2
  <2>2. r \in Seq(STRING) /\ Len(p) + 1 \in Nat /\ Len(r) \in Nat
    BY <1>1, <1>2 DEF Path
  <2> QED BY <1>1, <1>2, <2>1, <2>2, SubSeqProperties DEF Path
<1> HIDE DEF u
<1>5. \A i \in 1 .. Len(q) : u[i] = q[i]
  BY <1>1, <1>2, <1>4
<1>6. u = q
  BY <1>4, <1>5, SeqEqual DEF Path
<1> QED BY <1>2, <1>3, <1>6 DEF Rest, r, u

LEMMA Split ==
  ASSUME NEW p \in Path, NEW r \in Path, IsPrefix(p, r)
  PROVE  Rest(p, r) \in Path /\ r = p \o Rest(p, r)
<1>1. Len(p) \in Nat /\ Len(r) \in Nat /\ Len(p) <= Len(r)
  BY LenProperties DEF Path, IsPrefix
<1> DEFINE u == SubSeq(r, Len(p) + 1, Len(r))
<1>2. /\ u \in Path /\ Len(u) = Len(r) - Len(p)
      /\ \A i \in 1 .. Len(u) : u[i] = r[Len(p) + i]
  <2>1. \A i \in Len(p) + 1 .. Len(r) : i \in 1 .. Len(r)
    BY <1>1
  <2> QED BY <1>1, <2>1, SubSeqProperties DEF Path
<1> HIDE DEF u
<1> DEFINE w == p \o u
<1>3. /\ w \in Path /\ Len(w) = Len(p) + Len(u)
      /\ \A i \in 1 .. Len(w) : w[i] = IF i <= Len(p) THEN p[i] ELSE u[i - Len(p)]
  BY <1>2, ConcatProperties DEF Path
<1> HIDE DEF w
<1>4. \A i \in 1 .. Len(p) : p[i] = r[i]
  BY PrefixPointwise
<1>5. Len(w) = Len(r) /\ \A i \in 1 .. Len(r) : w[i] = r[i]
  BY <1>1, <1>2, <1>3, <1>4
<1>6. w = r
  BY <1>3, <1>5, SeqEqual DEF Path
<1> QED BY <1>2, <1>6 DEF Rest, u, w

LEMMA FrontPoints ==
  ASSUME NEW p \in Path, p # <<>>
  PROVE  /\ Len(p) \in Nat \ {0} /\ Front(p) \in Path /\ Len(Front(p)) = Len(p) - 1
         /\ \A i \in 1 .. Len(p) - 1 : Front(p)[i] = p[i]
<1>1. Len(p) \in Nat /\ Len(p) # 0 /\ DOMAIN p = 1 .. Len(p)
  BY LenProperties, EmptySeq DEF Path
<1>2. \A i \in 1 .. Len(p) - 1 : p[i] \in STRING
  BY <1>1, ElementOfSeq DEF Path
<1>3. 1 \in Int /\ Len(p) - 1 \in Int
  BY <1>1
<1>4. \A i \in 1 .. Len(p) - 1 : 1 + i - 1 = i
  BY <1>1
<1> QED BY <1>1, <1>2, <1>3, <1>4, SubSeqProperties DEF Path, Front

LEMMA FrontOf ==
  ASSUME NEW p \in Path, p # <<>>
  PROVE  Front(p) \in Path /\ IsPrefix(Front(p), p)
BY FrontPoints, PrefixPointwise

LEMMA FrontJoined ==
  ASSUME NEW p \in Path, NEW q \in Path, q # <<>>
  PROVE  p \o q # <<>> /\ Front(p \o q) = p \o Front(q)
<1> DEFINE r == p \o q
<1>1. Len(p) \in Nat /\ Len(q) \in Nat \ {0} /\ Front(q) \in Path /\ Len(Front(q)) = Len(q) - 1
  BY FrontPoints, LenProperties DEF Path
<1>2. /\ r \in Path /\ Len(r) = Len(p) + Len(q)
      /\ \A i \in 1 .. Len(r) : r[i] = IF i <= Len(p) THEN p[i] ELSE q[i - Len(p)]
  BY ConcatProperties DEF Path
<1> HIDE DEF r
<1>3. r # <<>>
  BY <1>1, <1>2, EmptySeq DEF Path
<1>4. /\ Front(r) \in Path /\ Len(Front(r)) = Len(r) - 1
      /\ \A i \in 1 .. Len(r) - 1 : Front(r)[i] = r[i]
  BY <1>2, <1>3, FrontPoints
<1>5. \A i \in 1 .. Len(q) - 1 : Front(q)[i] = q[i]
  BY FrontPoints
<1> DEFINE w == p \o Front(q)
<1>6. /\ w \in Path /\ Len(w) = Len(p) + (Len(q) - 1)
      /\ \A i \in 1 .. Len(w) : w[i] = IF i <= Len(p) THEN p[i] ELSE Front(q)[i - Len(p)]
  BY <1>1, ConcatProperties DEF Path
<1> HIDE DEF w
<1>7. ASSUME NEW i \in 1 .. Len(w)
      PROVE  Front(r)[i] = w[i]
  <2>1. i \in 1 .. Len(r) - 1 /\ i \in 1 .. Len(r)
    BY <1>1, <1>2, <1>6
  <2>2. Front(r)[i] = IF i <= Len(p) THEN p[i] ELSE q[i - Len(p)]
    BY <1>2, <1>4, <2>1
  <2>3. w[i] = IF i <= Len(p) THEN p[i] ELSE Front(q)[i - Len(p)]
    BY <1>6
  <2>4. ~(i <= Len(p)) => i - Len(p) \in 1 .. Len(q) - 1
    BY <1>1, <1>6
  <2> QED BY <1>5, <2>2, <2>3, <2>4
<1>8. Front(r) = w
  <2>1. Len(Front(r)) = Len(w) /\ Front(r) \in Seq(STRING) /\ w \in Seq(STRING)
    BY <1>1, <1>2, <1>4, <1>6 DEF Path
  <2> QED BY <1>7, <2>1, SeqEqual
<1> QED BY <1>3, <1>8 DEF r, w

(* A path to which a name is added leads nowhere else below another one.     *)
LEMMA NotBelowFront ==
  ASSUME NEW p \in Path, NEW q \in Path, q # <<>>, ~IsPrefix(p, q)
  PROVE  ~IsPrefix(p, Front(q))
BY FrontOf, PrefixTransitive

(* The places on the way to a path.                                          *)
LEMMA OnTheWay ==
  ASSUME NEW path \in Path, NEW at \in Way(path)
  PROVE  /\ at \in Path /\ IsPrefix(at, path) /\ ~IsPrefix(path, at)
         /\ at # <<>> => Front(at) \in Way(path)
<1>1. PICK i \in DOMAIN path : at = SubSeq(path, 1, i - 1)
  BY DEF Way
<1>2. Len(path) \in Nat /\ i \in 1 .. Len(path) /\ DOMAIN path = 1 .. Len(path)
  BY LenProperties DEF Path
<1>3. \A j \in 1 .. i - 1 : j \in DOMAIN path /\ path[j] \in STRING
  BY <1>2, ElementOfSeq DEF Path
<1>4. at \in Path /\ Len(at) = i - 1 /\ \A j \in 1 .. i - 1 : at[j] = path[j]
  <2>1. 1 \in Int /\ i - 1 \in Int
    BY <1>2
  <2> QED BY <1>1, <1>2, <1>3, <2>1, SubSeqProperties DEF Path
<1>5. IsPrefix(at, path)
  BY <1>2, <1>4, PrefixPointwise
<1>6. ~IsPrefix(path, at)
  BY <1>2, <1>4, PrefixPointwise
<1>7. ASSUME at # <<>> PROVE Front(at) \in Way(path)
  <2> DEFINE up == SubSeq(path, 1, (i - 1) - 1)
  <2>1. i - 1 \in DOMAIN path
    BY <1>2, <1>4, <1>7, EmptySeq DEF Path
  <2>2. up \in Path /\ Len(up) = i - 2 /\ \A j \in 1 .. i - 2 : up[j] = path[j]
    <3>1. 1 \in Int /\ (i - 1) - 1 \in Int /\ \A j \in 1 .. (i - 1) - 1 : path[j] \in STRING
      BY <1>2, <1>3
    <3> QED BY <1>2, <2>1, <3>1, SubSeqProperties DEF Path
  <2>3. up \in Way(path)
    BY <2>1 DEF Way
  <2> HIDE DEF up
  <2>4. /\ Front(at) \in Path /\ Len(Front(at)) = Len(at) - 1
        /\ \A j \in 1 .. Len(at) - 1 : Front(at)[j] = at[j]
    BY <1>4, <1>7, FrontPoints
  <2>5. \A j \in 1 .. Len(up) : Front(at)[j] = up[j]
    BY <1>2, <1>4, <2>2, <2>4
  <2>6. Front(at) = up
    BY <1>2, <1>4, <2>2, <2>4, <2>5, SeqEqual DEF Path
  <2> QED BY <2>3, <2>6
<1> QED BY <1>4, <1>5, <1>6, <1>7

LEMMA LastOnTheWay ==
  ASSUME NEW path \in Path, path # <<>>
  PROVE  /\ Len(path) \in DOMAIN path
         /\ Front(path) = SubSeq(path, 1, Len(path) - 1) /\ Front(path) \in Way(path)
         /\ SubSeq(path, 1, Len(path)) = path
<1>1. Len(path) \in Nat \ {0} /\ DOMAIN path = 1 .. Len(path)
  BY FrontPoints, LenProperties DEF Path
<1>2. Len(path) \in DOMAIN path /\ Front(path) = SubSeq(path, 1, Len(path) - 1)
  BY <1>1 DEF Front
<1>3. Front(path) \in Way(path)
  BY <1>2 DEF Way
<1>4. SubSeq(path, 1, Len(path)) = path
  BY SubSeqFull DEF Path
<1> QED BY <1>2, <1>3, <1>4
---------------------------------------------------------------------------
(* What a write of a field leaves where.                                     *)
Kept(v, path) == DOMAIN v \ Below(v, path)

IsWritten(w, v, path, new) ==
  /\ DOMAIN w = Kept(v, path) \cup Way(path) \cup Put(v, path, new)
  /\ \A p \in Put(v, path, new) : p \in Path /\ IsPrefix(path, p) /\ w[p] = new[Rest(path, p)]
  /\ \A p \in Kept(v, path) : p \in Path /\ ~IsPrefix(path, p) /\ w[p] = v[p]
  /\ \A p \in Way(path) :
       /\ p \in Path /\ ~IsPrefix(path, p) /\ IsPrefix(p, path)
       /\ w[p] = IF p \in DOMAIN v THEN v[p] ELSE Object

LEMMA PlacesWritten ==
  ASSUME NEW v, DOMAIN v \subseteq Path, NEW path \in Path, NEW new, DOMAIN new \subseteq Path
  PROVE  IsWritten(WalkKeysAndSet(v, path, new), v, path, new)
<1> DEFINE w == WalkKeysAndSet(v, path, new)
           kept == Kept(v, path)
           put == Put(v, path, new)
<1>1. \A p \in put : p \in Path /\ IsPrefix(path, p)
  BY Joined DEF Put
<1>2. \A p \in kept : p \in Path /\ ~IsPrefix(path, p)
  BY DEF Below, Kept
<1>3. \A p \in Way(path) : p \in Path /\ ~IsPrefix(path, p) /\ IsPrefix(p, path)
  BY OnTheWay
<1>4. w = [p \in kept \cup Way(path) \cup put |->
             IF p \in put THEN new[Rest(path, p)] ELSE IF p \in kept THEN v[p] ELSE Object]
  BY DEF WalkKeysAndSet, Kept
<1> HIDE DEF w
<1>5. \A p \in Way(path) : p \in kept <=> p \in DOMAIN v
  BY <1>3 DEF Below, Kept
<1> HIDE DEF kept, put
<1>6. \A p \in put : w[p] = new[Rest(path, p)]
  BY <1>4
<1>7. \A p \in kept : w[p] = v[p]
  BY <1>1, <1>2, <1>4
<1>8. \A p \in Way(path) : w[p] = IF p \in DOMAIN v THEN v[p] ELSE Object
  BY <1>1, <1>3, <1>4, <1>5
<1> QED BY <1>1, <1>2, <1>3, <1>4, <1>6, <1>7, <1>8 DEF IsWritten, kept, put, w

(* A write leaves what other paths lead to.                                  *)
LEMMA OthersAsBefore ==
  ASSUME NEW v, DOMAIN v \subseteq Path, NEW path \in Path, NEW new, DOMAIN new \subseteq Path,
         NEW q \in Path, Apart(path, q)
  PROVE  WalkKeys(WalkKeysAndSet(v, path, new), q) = WalkKeys(v, q)
<1> DEFINE w == WalkKeysAndSet(v, path, new)
           kept == Kept(v, path)
           put == Put(v, path, new)
<1>0. w = WalkKeysAndSet(v, path, new)
  OBVIOUS
<1> HIDE DEF w
<1>1. /\ DOMAIN w = kept \cup Way(path) \cup put
      /\ \A p \in put : p \in Path /\ IsPrefix(path, p) /\ w[p] = new[Rest(path, p)]
      /\ \A p \in kept : p \in Path /\ ~IsPrefix(path, p) /\ w[p] = v[p]
      /\ \A p \in Way(path) :
           /\ p \in Path /\ ~IsPrefix(path, p) /\ IsPrefix(p, path)
           /\ w[p] = IF p \in DOMAIN v THEN v[p] ELSE Object
  <2>1. IsWritten(WalkKeysAndSet(v, path, new), v, path, new)
    BY PlacesWritten
  <2> QED BY <1>0, <2>1 DEF IsWritten
<1>2. ~IsPrefix(path, q) /\ ~IsPrefix(q, path)
  BY DEF Apart
<1>3. \A p \in put : ~IsPrefix(q, p)
  BY <1>1, <1>2, PrefixesComparable
<1>4. \A p \in Way(path) : ~IsPrefix(q, p)
  BY <1>1, <1>2, PrefixTransitive
<1>5. \A p \in DOMAIN v : IsPrefix(q, p) => ~IsPrefix(path, p)
  BY <1>2, PrefixesComparable
<1>6. IsPrefix(q, q)
  BY PrefixPointwise
<1>7. Below(w, q) = Below(v, q)
  BY <1>1, <1>3, <1>4, <1>5 DEF Below, Kept
<1>8. q \in DOMAIN w <=> q \in DOMAIN v
  BY <1>6, <1>7 DEF Below
<1>9. \A p \in Below(v, q) : w[p] = v[p]
  BY <1>1, <1>5 DEF Below, Kept
<1>10. \A p \in {Rest(q, r) : r \in Below(v, q)} : w[q \o p] = v[q \o p]
  <2> SUFFICES ASSUME NEW r \in Below(v, q) PROVE w[q \o Rest(q, r)] = v[q \o Rest(q, r)]
    OBVIOUS
  <2>1. r \in Path /\ IsPrefix(q, r)
    BY DEF Below
  <2>2. r = q \o Rest(q, r)
    BY <2>1, Split
  <2> QED BY <1>9, <2>2
<1> QED BY <1>7, <1>8, <1>10 DEF WalkKeys, w

(* A write makes an object of an object.                                     *)
LEMMA WrittenTree ==
  ASSUME NEW v, IsTree(v), v[<<>>] = Object, NEW path \in Path, path # <<>>,
         NEW new, IsTree(new), CanSet(v, path)
  PROVE  IsTree(WalkKeysAndSet(v, path, new)) /\ WalkKeysAndSet(v, path, new)[<<>>] = Object
<1> DEFINE w == WalkKeysAndSet(v, path, new)
           kept == Kept(v, path)
           put == Put(v, path, new)
           Holds(p) == p \in DOMAIN w /\ w[p] \in {Object, Array}
           Sound(p) == w[p][1] = "num" => w[p] = <<"num", w[p][2]>> /\ w[p][2] \in Int
<1>1. DOMAIN v \subseteq Path /\ DOMAIN new \subseteq Path /\ <<>> \in Path
  BY EmptySeq DEF IsTree, Path
<1>0. w = WalkKeysAndSet(v, path, new)
  OBVIOUS
<1> HIDE DEF w
<1>2. /\ DOMAIN w = kept \cup Way(path) \cup put
      /\ \A p \in put : p \in Path /\ IsPrefix(path, p) /\ w[p] = new[Rest(path, p)]
      /\ \A p \in kept : p \in Path /\ ~IsPrefix(path, p) /\ w[p] = v[p]
      /\ \A p \in Way(path) :
           /\ p \in Path /\ ~IsPrefix(path, p) /\ IsPrefix(p, path)
           /\ w[p] = IF p \in DOMAIN v THEN v[p] ELSE Object
  <2>1. IsWritten(WalkKeysAndSet(v, path, new), v, path, new)
    BY <1>1, PlacesWritten
  <2> QED BY <1>0, <2>1 DEF IsWritten
<1>3. ~IsPrefix(path, <<>>)
  <2>1. Len(path) \in Nat /\ Len(path) # 0 /\ Len(<<>>) = 0
    BY LenProperties, EmptySeq DEF Path
  <2> QED BY <1>1, <2>1, PrefixPointwise
<1>4. <<>> \in kept
  BY <1>3 DEF IsTree, Below, Kept
<1>5. \A p \in Way(path) : Holds(p)
  <2> SUFFICES ASSUME NEW i \in DOMAIN path, NEW p, p = SubSeq(path, 1, i - 1)
               PROVE  Holds(p)
    BY DEF Way
  <2>1. p \in Way(path)
    BY DEF Way
  <2>2. p \in DOMAIN v => v[p] \in {Object, Array}
    BY DEF CanSet
  <2> QED BY <1>2, <2>1, <2>2
<1>6. \A p \in put : \/ p = path
                     \/ Rest(path, p) \in DOMAIN new /\ Rest(path, p) # <<>> /\ p = path \o Rest(path, p)
  <2> SUFFICES ASSUME NEW q \in DOMAIN new
               PROVE  LET p == path \o q
                      IN  \/ p = path
                          \/ Rest(path, p) \in DOMAIN new /\ Rest(path, p) # <<>> /\ p = path \o Rest(path, p)
    BY DEF Put
  <2>1. Rest(path, path \o q) = q
    BY <1>1, Joined
  <2>2. q = <<>> => path \o q = path
    BY <1>1, ConcatEmptySeq DEF Path
  <2> QED BY <2>1, <2>2
<1>7. \A p \in kept : p # <<>> => Holds(Front(p))
  <2> SUFFICES ASSUME NEW p \in kept, p # <<>> PROVE Holds(Front(p))
    OBVIOUS
  <2>1. Front(p) \in DOMAIN v /\ v[Front(p)] \in {Object, Array}
    BY DEF IsTree, Kept
  <2>2. Front(p) \in kept
    BY <1>2, <2>1, NotBelowFront DEF Below, Kept
  <2> QED BY <1>2, <2>1, <2>2
<1>8. \A p \in Way(path) : p # <<>> => Holds(Front(p))
  BY <1>5, OnTheWay
<1>9. \A p \in put : p # <<>> => Holds(Front(p))
  <2> SUFFICES ASSUME NEW p \in put PROVE Holds(Front(p))
    OBVIOUS
  <2>1. CASE p = path
    BY <1>5, <2>1, LastOnTheWay
  <2>2. CASE p # path
    <3> DEFINE q == Rest(path, p)
    <3>1. q \in DOMAIN new /\ q # <<>> /\ p = path \o q
      BY <1>6, <2>2
    <3>2. q \in Path /\ Front(q) \in DOMAIN new /\ new[Front(q)] \in {Object, Array}
      BY <1>1, <3>1 DEF IsTree
    <3>3. Front(p) = path \o Front(q)
      BY <3>1, <3>2, FrontJoined
    <3>4. Rest(path, Front(p)) = Front(q)
      BY <1>1, <3>2, <3>3, Joined
    <3>5. put # {}
      OBVIOUS
    <3>6. Front(p) \in put
      BY <3>2, <3>3, <3>5 DEF Put
    <3> QED BY <1>2, <3>2, <3>4, <3>6
  <2> QED BY <2>1, <2>2
<1>10. \A p \in DOMAIN w : Sound(p)
  <2>1. \A p \in kept : Sound(p)
    BY <1>2 DEF IsTree, Kept
  <2>2. \A p \in Way(path) : Sound(p)
    BY <1>5 DEF Object, Array
  <2>3. \A p \in put : Rest(path, p) \in DOMAIN new
    <3>1. Rest(path, path) = <<>>
      <4>1. path \o <<>> = path
        BY ConcatEmptySeq DEF Path
      <4> QED BY <1>1, <4>1, Joined
    <3> QED BY <1>6, <3>1 DEF IsTree
  <2>4. \A p \in put : Sound(p)
    BY <1>2, <2>3 DEF IsTree
  <2> QED BY <1>2, <2>1, <2>2, <2>4
<1>11. DOMAIN w \subseteq Path /\ <<>> \in DOMAIN w /\ w[<<>>] = Object
  BY <1>2, <1>4
<1>12. \A p \in DOMAIN w : p # <<>> => Holds(Front(p))
  BY <1>2, <1>7, <1>8, <1>9
<1> HIDE DEF kept, put
<1> QED BY <1>10, <1>11, <1>12 DEF IsTree, Path, w
---------------------------------------------------------------------------
(* Values: rounding twice is rounding once, and what is made of a tree is a  *)
(* tree.                                                                     *)
LEMMA RoundedTwice ==
  ASSUME NEW n \in Int
  PROVE  Rounded(n) \in Int /\ Rounded(Rounded(n)) = Rounded(n)
<1>1. n % 2 \in {0, 1} /\ n % 4 \in 0 .. 3 /\ (n % 4 = 1 => (n - 1) % 2 = 0)
      /\ (n % 2 # 0 /\ n % 4 # 1 => (n + 1) % 2 = 0)
  OBVIOUS
<1> QED BY <1>1, ExactAssumption DEF Rounded

LEMMA ParsedTree ==
  ASSUME NEW v, IsTree(v)
  PROVE  /\ IsTree(Parsed(v)) /\ Parsed(Parsed(v)) = Parsed(v)
         /\ IsDoc(v) => Parsed(v)[<<>>] = v[<<>>]
<1> DEFINE w == Parsed(v)
<1>1. DOMAIN w = DOMAIN v
  BY DEF Parsed
<1>2. \A p \in DOMAIN v :
        w[p] = IF v[p][1] = "num" THEN <<"num", Rounded(v[p][2])>> ELSE v[p]
  BY DEF Parsed
<1>3. \A p \in DOMAIN v : v[p] \in {Object, Array} => w[p] = v[p]
  <2>1. Object[1] # "num" /\ Array[1] # "num"
    BY DEF Object, Array
  <2> QED BY <1>2, <2>1
<1>4. \A p \in DOMAIN v : w[p][1] = "num" =>
        /\ w[p] = <<"num", w[p][2]>> /\ w[p][2] \in Int /\ Rounded(w[p][2]) = w[p][2]
  <2> SUFFICES ASSUME NEW p \in DOMAIN v, w[p][1] = "num"
               PROVE  w[p] = <<"num", w[p][2]>> /\ w[p][2] \in Int /\ Rounded(w[p][2]) = w[p][2]
    OBVIOUS
  <2>1. v[p][1] = "num" /\ v[p][2] \in Int
    BY <1>2 DEF IsTree
  <2>2. w[p] = <<"num", Rounded(v[p][2])>>
    BY <1>2, <2>1
  <2> QED BY <2>1, <2>2, RoundedTwice
<1>5. Parsed(w) = w
  <2>1. \A p \in DOMAIN w :
          (IF w[p][1] = "num" THEN <<"num", Rounded(w[p][2])>> ELSE w[p]) = w[p]
    BY <1>1, <1>4
  <2>2. w = [p \in DOMAIN w |-> w[p]]
    BY DEF Parsed
  <2>3. Parsed(w) = [p \in DOMAIN w |-> w[p]]
    BY <2>1 DEF Parsed
  <2> QED BY <2>2, <2>3
<1> HIDE DEF w
<1>6. IsTree(w)
  BY <1>1, <1>3, <1>4 DEF IsTree
<1>7. IsDoc(v) => w[<<>>] = v[<<>>]
  BY <1>3 DEF IsDoc, IsTree
<1> QED BY <1>5, <1>6, <1>7 DEF w

LEMMA LeafTree ==
  ASSUME NEW what, what[1] = "num" => what = <<"num", what[2]>> /\ what[2] \in Int
  PROVE  IsTree(Leaf(what)) /\ Leaf(what)[<<>>] = what
<1>1. <<>> \in Seq(STRING)
  BY EmptySeq
<1>2. DOMAIN Leaf(what) = {<<>>} /\ Leaf(what)[<<>>] = what
  BY DEF Leaf
<1> QED BY <1>1, <1>2 DEF IsTree

LEMMA Leaves ==
  /\ IsTree(Null) /\ IsTree(NaN) /\ IsTree(EmptyObj) /\ IsTree(Absent)
  /\ EmptyObj[<<>>] = Object /\ Absent[<<>>] = <<"absent">> /\ NaN[<<>>] = <<"nan">>
  /\ \A n \in Int : IsTree(Num(n)) /\ Num(n)[<<>>] = <<"num", n>>
<1>1. IsTree(Null)
  BY LeafTree DEF Null
<1>2. IsTree(NaN) /\ NaN[<<>>] = <<"nan">>
  BY LeafTree DEF NaN
<1>3. IsTree(EmptyObj) /\ EmptyObj[<<>>] = Object
  BY LeafTree DEF EmptyObj, Object
<1>4. IsTree(Absent) /\ Absent[<<>>] = <<"absent">>
  BY LeafTree DEF Absent
<1>5. \A n \in Int : IsTree(Num(n)) /\ Num(n)[<<>>] = <<"num", n>>
  BY LeafTree DEF Num
<1> QED BY <1>1, <1>2, <1>3, <1>4, <1>5

LEMMA AtovTree ==
  ASSUME NEW v, IsTree(v)
  PROVE  IsTree(Atov(v))
BY ParsedTree DEF Atov

(* A number that a path leads to, or that is a value of its own, can be      *)
(* counted up.                                                               *)
LEMMA SumTree ==
  ASSUME NEW v, IsNumber(v), v[<<>>][1] = "num" => v[<<>>][2] \in Int, NEW d \in Int
  PROVE  IsTree(Plus(v, d)) /\ ~IsDoc(Plus(v, d))
<1>1. CASE v[<<>>][1] = "nan"
  BY <1>1, Leaves DEF Plus, Kind, IsDoc, Object, Array
<1>2. CASE v[<<>>][1] = "num"
  <2> DEFINE n == Rounded(Rounded(Content(v)) + d)
  <2>1. n \in Int
    BY <1>2, RoundedTwice DEF Content
  <2>2. Plus(v, d) = Num(n)
    BY <1>2 DEF Plus, Kind
  <2> HIDE DEF n
  <2> QED BY <2>1, <2>2, Leaves DEF IsDoc, Object, Array
<1> QED BY <1>1, <1>2 DEF IsNumber, Kind

LEMMA NumberFound ==
  ASSUME NEW v, IsTree(v), NEW path \in Path, NEW w, w = WalkKeys(v, path), IsNumber(w)
  PROVE  w[<<>>][1] = "num" => w[<<>>][2] \in Int
<1>1. path \in DOMAIN v
  <2> SUFFICES ASSUME path \notin DOMAIN v PROVE FALSE
    OBVIOUS
  <2>1. w = Absent
    BY DEF WalkKeys
  <2> QED BY <2>1, Leaves DEF IsNumber, Kind
<1>2. path \o <<>> = path /\ IsPrefix(path, path) /\ <<>> \in Path
  BY ConcatEmptySeq, EmptySeq, PrefixPointwise DEF Path
<1>3. Rest(path, path) = <<>>
  BY <1>2, Joined
<1>4. <<>> \in {Rest(path, q) : q \in Below(v, path)}
  BY <1>1, <1>2, <1>3 DEF Below
<1>5. w[<<>>] = v[path]
  BY <1>1, <1>2, <1>4 DEF WalkKeys
<1> QED BY <1>1, <1>5 DEF IsTree
---------------------------------------------------------------------------
(* The inductive invariant, for each key: what its entry holds, what a       *)
(* replay would make of its records, and what the history says of the two.   *)
EntryAt(e, t) ==
  /\ DOMAIN e = {"raw", "parsed", "vec", "created", "updated"}
  /\ IsTree(e.raw) /\ IsTree(e.parsed)
  /\ IF IsDoc(e.raw) THEN e.parsed[<<>>] = e.raw[<<>>] ELSE e.parsed = Absent
  /\ e.vec \in Embedded \cup {Nil}
  /\ e.created \in 1 .. t /\ e.updated \in e.created .. t \cup {Nil}

(* The entry on disk holds the same text, and the cache that text parses to; *)
(* the cache in memory is that one, before json.Unmarshal has rounded it,    *)
(* unless it holds a NaN.                                                    *)
SameDocument(m, d) ==
  /\ m.raw = d.raw /\ d.parsed = CacheOf(d.raw)
  /\ Writable(m.parsed) => Parsed(m.parsed) = d.parsed

SameVector(m, d, c) == "rewritten" \notin c => m.vec \in {Nil, m.raw} /\ d.vec = m.vec

SameTime(m, d, c) ==
  IF "compacted" \in c THEN EntryTime(d) = m.created
  ELSE /\ EntryTime(m) <= EntryTime(d)
       /\ c \cap {"straddled", "attached"} = {} => EntryTime(m) = EntryTime(d)

Agree(m, d, c, t) ==
  \/ m = NoEntry /\ d = NoEntry
  \/ /\ EntryAt(m, t) /\ EntryAt(d, t)
     /\ SameDocument(m, d) /\ SameVector(m, d, c) /\ SameTime(m, d, c)

Drifts == SUBSET {"rewritten", "straddled", "attached", "compacted"}

IInv ==
  /\ DOMAIN mem = Keys /\ DOMAIN disk = Keys
  /\ jobs \subseteq Keys \X Embedded
  /\ now \in 1 .. MaxTime
  /\ drift \in [Keys -> Drifts] /\ imprecise \subseteq Keys
  /\ \A k \in Keys : Agree(mem[k], disk[k], drift[k], now)

(* And the two caches of a key are the same one unless the history says that *)
(* a field write made them differ.                                           *)
Precise == \A k \in Keys \ imprecise : mem[k].parsed = disk[k].parsed

LEMMA EntryThere ==
  ASSUME NEW e, NEW t \in Int, EntryAt(e, t)
  PROVE  e # NoEntry
<1>1. e.created \in 1 .. t /\ NoEntry.created = 0
  BY DEF EntryAt, NoEntry
<1> QED BY <1>1

(* The cache of a text, and the fields of an entry that is made or replaced. *)
LEMMA CacheTree ==
  ASSUME NEW v, IsTree(v)
  PROVE  /\ IsTree(CacheOf(v)) /\ Parsed(CacheOf(v)) = CacheOf(v)
         /\ IF IsDoc(v) THEN CacheOf(v)[<<>>] = v[<<>>] ELSE CacheOf(v) = Absent
<1>1. CASE IsDoc(v)
  BY <1>1, ParsedTree DEF CacheOf
<1>2. CASE ~IsDoc(v)
  <2>1. Parsed(Absent) = Absent
    BY DEF Parsed, Absent, Leaf
  <2> QED BY <1>2, <2>1, Leaves DEF CacheOf
<1> QED BY <1>1, <1>2

LEMMA FreshEntry ==
  ASSUME NEW v, IsTree(v), NEW vec \in Embedded \cup {Nil}, NEW c, NEW t \in Int, c \in 1 .. t
  PROVE  LET e == Fresh(v, vec, c)
         IN  /\ EntryAt(e, t) /\ e.raw = v /\ e.parsed = CacheOf(v) /\ e.vec = vec
             /\ EntryTime(e) = c
BY CacheTree, NilAssumption DEF Fresh, EntryAt, EntryTime

LEMMA UpsertEntry ==
  ASSUME NEW v, IsTree(v), NEW vec \in Embedded \cup {Nil}, NEW t \in Nat \ {0},
         NEW e, e = NoEntry \/ EntryAt(e, t)
  PROVE  LET u == Upsert(e, v, vec, t)
         IN  /\ EntryAt(u, t) /\ u.raw = v /\ u.parsed = CacheOf(v) /\ u.vec = vec
             /\ EntryTime(u) = t
<1>1. CASE e = NoEntry
  BY <1>1, FreshEntry DEF Upsert
<1>2. CASE EntryAt(e, t)
  <2> DEFINE f == Fresh(v, vec, e.created)
             u == [f EXCEPT !.updated = t]
  <2>1. e.created \in 1 .. t /\ e # NoEntry
    BY <1>2, EntryThere DEF EntryAt
  <2>2. EntryAt(f, t) /\ f.raw = v /\ f.parsed = CacheOf(v) /\ f.vec = vec /\ f.created = e.created
    BY <2>1, FreshEntry DEF Fresh
  <2>3. Upsert(e, v, vec, t) = u
    BY <2>1 DEF Upsert
  <2> HIDE DEF f
  <2>4. /\ DOMAIN u = {"raw", "parsed", "vec", "created", "updated"}
        /\ u.raw = v /\ u.parsed = CacheOf(v) /\ u.vec = vec /\ u.created = e.created /\ u.updated = t
    BY <2>2 DEF EntryAt
  <2> HIDE DEF u
  <2>5. EntryAt(u, t)
    BY <2>1, <2>2, <2>4 DEF EntryAt
  <2>6. EntryTime(u) = t
    BY <2>4, NilAssumption DEF EntryTime
  <2> QED BY <2>3, <2>4, <2>5, <2>6
<1> QED BY <1>1, <1>2

(* As what a value is agrees with what is said of it, so do the invariants.  *)
LEMMA Promised ==
  ASSUME IInv, Precise
  PROVE  TypeOK /\ RestartAnswers /\ VectorFresh /\ TimesKept
<1>1. now \in Int
  BY DEF IInv
<1>2. ASSUME NEW k \in Keys
      PROVE  /\ mem[k] = NoEntry <=> disk[k] = NoEntry
             /\ mem[k] # NoEntry => /\ EntryAt(mem[k], now) /\ EntryAt(disk[k], now)
                                    /\ SameDocument(mem[k], disk[k])
                                    /\ SameVector(mem[k], disk[k], drift[k])
                                    /\ SameTime(mem[k], disk[k], drift[k])
  BY <1>1, EntryThere DEF IInv, Agree
<1>3. TypeOK
  BY <1>2 DEF IInv, TypeOK, IsEntry, EntryAt, Drifts
<1>4. RestartAnswers
  BY <1>2 DEF RestartAnswers, SameDocument, Precise
<1>5. VectorFresh
  BY <1>2 DEF VectorFresh, SameVector
<1>6. TimesKept
  BY <1>2 DEF TimesKept, SameTime
<1> QED BY <1>3, <1>4, <1>5, <1>6

LEMMA InitIInv == Init => IInv
BY TimeAssumption DEF Init, IInv, Agree, Drifts

(* What is so of an entry is so later.                                       *)
LEMMA EntryLater ==
  ASSUME NEW e, NEW s \in Int, NEW t \in Int, s <= t, EntryAt(e, s)
  PROVE  EntryAt(e, t)
BY DEF EntryAt

LEMMA AgreeLater ==
  ASSUME NEW m, NEW d, NEW c, NEW s \in Int, NEW t \in Int, s <= t, Agree(m, d, c, s)
  PROVE  Agree(m, d, c, t)
BY EntryLater DEF Agree
---------------------------------------------------------------------------
(* A step of one key keeps the invariant when what becomes of that key       *)
(* agrees.                                                                   *)
LEMMA OneKey ==
  ASSUME IInv, NEW k \in Keys, NEW m, NEW d, NEW c \in Drifts, NEW t \in now .. MaxTime,
         Agree(m, d, c, t),
         mem' = [mem EXCEPT ![k] = m], disk' = [disk EXCEPT ![k] = d],
         drift' = [drift EXCEPT ![k] = c],
         jobs' \subseteq Keys \X Embedded, imprecise' \subseteq Keys, now' = t
  PROVE  IInv'
<1>1. DOMAIN mem' = Keys /\ DOMAIN disk' = Keys /\ drift' \in [Keys -> Drifts]
  BY DEF IInv
<1>2. now \in Int /\ t \in Int /\ now <= t /\ t \in 1 .. MaxTime
  BY TimeAssumption DEF IInv
<1>3. \A j \in Keys : Agree(mem'[j], disk'[j], drift'[j], now')
  <2> SUFFICES ASSUME NEW j \in Keys PROVE Agree(mem'[j], disk'[j], drift'[j], t)
    OBVIOUS
  <2>1. CASE j = k
    BY <2>1 DEF IInv
  <2>2. CASE j # k
    <3>1. mem'[j] = mem[j] /\ disk'[j] = disk[j] /\ drift'[j] = drift[j]
      BY <2>2 DEF IInv
    <3>2. Agree(mem[j], disk[j], drift[j], now)
      BY DEF IInv
    <3> QED BY <1>2, <3>1, <3>2, AgreeLater
  <2> QED BY <2>1, <2>2
<1> QED BY <1>1, <1>2, <1>3 DEF IInv

(* What the invariant says of a key.                                         *)
LEMMA OfKey ==
  ASSUME IInv, NEW k \in Keys
  PROVE  /\ now \in Nat \ {0} /\ now \in Int /\ drift[k] \in Drifts
         /\ Agree(mem[k], disk[k], drift[k], now)
         /\ mem[k] = NoEntry \/ EntryAt(mem[k], now)
         /\ disk[k] = NoEntry \/ EntryAt(disk[k], now)
         /\ mem[k] = NoEntry <=> disk[k] = NoEntry
         /\ mem[k] # NoEntry => /\ EntryAt(mem[k], now) /\ EntryAt(disk[k], now)
                                /\ SameDocument(mem[k], disk[k])
                                /\ SameVector(mem[k], disk[k], drift[k])
                                /\ SameTime(mem[k], disk[k], drift[k])
<1>1. now \in Nat \ {0} /\ now \in Int /\ drift[k] \in Drifts /\ Agree(mem[k], disk[k], drift[k], now)
  BY TimeAssumption DEF IInv
<1> QED BY <1>1, EntryThere DEF Agree

LEMMA TextsTrees ==
  /\ \A t \in Texts : IsTree(t)
  /\ \A t \in Embedded : IsTree(t)
  /\ \A t \in Operands : IsTree(t)
BY ValuesAssumption

(* Between the second of a change and that of its record.                    *)
LEMMA Straddled ==
  ASSUME IInv, NEW t \in now .. MaxTime
  PROVE  /\ t \in Nat \ {0} /\ t \in Int /\ now \in Int /\ now <= t
         /\ Straddles(t) \in Drifts /\ Straddles(t) \in {{}, {"straddled"}}
         /\ Straddles(t) = {} => t = now
BY TimeAssumption DEF IInv, Straddles, Drifts

LEMMA WriteStep ==
  ASSUME IInv, NEW k \in Keys, NEW text, IsTree(text), NEW flag, Write(k, text, flag),
         jobs' \subseteq Keys \X Embedded
  PROVE  IInv'
<1> PICK t \in now .. MaxTime :
      Log(k, text, Nil, t) /\ now' = t /\ drift' = [drift EXCEPT ![k] = Straddles(t)]
  BY DEF Write
<1> DEFINE m == Upsert(mem[k], text, Nil, now)
           d == Upsert(disk[k], text, Nil, t)
           c == Straddles(t)
<1>0. /\ t \in Nat \ {0} /\ t \in Int /\ now \in Int /\ now <= t
      /\ c \in Drifts /\ c \in {{}, {"straddled"}} /\ (c = {} => t = now)
  BY Straddled
<1>1. EntryAt(m, t) /\ m.raw = text /\ m.parsed = CacheOf(text) /\ m.vec = Nil /\ EntryTime(m) = now
  <2>1. EntryAt(m, now) /\ m.raw = text /\ m.parsed = CacheOf(text) /\ m.vec = Nil /\ EntryTime(m) = now
    BY OfKey, UpsertEntry
  <2> HIDE DEF m
  <2> QED BY <1>0, <2>1, EntryLater
<1>2. EntryAt(d, t) /\ d.raw = text /\ d.parsed = CacheOf(text) /\ d.vec = Nil /\ EntryTime(d) = t
  <2>1. disk[k] = NoEntry \/ EntryAt(disk[k], t)
    BY <1>0, OfKey, EntryLater
  <2> QED BY <1>0, <2>1, UpsertEntry
<1>3. /\ mem' = [mem EXCEPT ![k] = m] /\ disk' = [disk EXCEPT ![k] = d]
      /\ drift' = [drift EXCEPT ![k] = c] /\ now' = t /\ imprecise' \subseteq Keys
  BY DEF Write, Log, IInv
<1> HIDE DEF m, d, c
<1>4. SameTime(m, d, c)
  BY <1>0, <1>1, <1>2 DEF SameTime
<1>5. Agree(m, d, c, t)
  BY <1>1, <1>2, <1>4, CacheTree DEF Agree, SameDocument, SameVector
<1> QED BY <1>0, <1>3, <1>5, OneKey

LEMMA AttachStep ==
  ASSUME IInv, NEW k \in Keys, NEW text \in Embedded, AttachVector(k, text)
  PROVE  IInv'
<1> DEFINE m == [mem[k] EXCEPT !.vec = text]
           d == Upsert(disk[k], text, text, now)
<1>1. mem[k] # NoEntry /\ mem[k].raw = text /\ IsTree(text)
  BY TextsTrees DEF AttachVector
<1>2. /\ EntryAt(mem[k], now) /\ EntryAt(disk[k], now)
      /\ SameDocument(mem[k], disk[k]) /\ now \in Nat \ {0} /\ now \in now .. MaxTime
  BY <1>1, OfKey DEF IInv
<1>3. EntryAt(d, now) /\ d.raw = text /\ d.parsed = CacheOf(text) /\ d.vec = text /\ EntryTime(d) = now
  BY <1>1, <1>2, UpsertEntry
<1>4. /\ DOMAIN m = {"raw", "parsed", "vec", "created", "updated"}
      /\ m.raw = text /\ m.vec = text /\ m.parsed = mem[k].parsed
      /\ m.created = mem[k].created /\ m.updated = mem[k].updated
  BY <1>1, <1>2 DEF EntryAt
<1>5. /\ mem' = [mem EXCEPT ![k] = m] /\ disk' = [disk EXCEPT ![k] = d]
      /\ drift' = [drift EXCEPT ![k] = {"attached"}] /\ now' = now
      /\ jobs' \subseteq Keys \X Embedded /\ imprecise' \subseteq Keys
  BY DEF AttachVector, Log, IInv
<1> HIDE DEF m, d
<1>6. EntryAt(m, now)
  BY <1>1, <1>2, <1>4 DEF EntryAt
<1>7. SameDocument(m, d)
  BY <1>1, <1>2, <1>3, <1>4 DEF SameDocument
<1>8. SameTime(m, d, {"attached"})
  BY <1>2, <1>3, <1>6, NilAssumption DEF SameTime, EntryTime, EntryAt
<1>9. Agree(m, d, {"attached"}, now)
  BY <1>3, <1>4, <1>6, <1>7, <1>8 DEF Agree, SameVector
<1>10. IInv /\ k \in Keys /\ {"attached"} \in Drifts /\ now \in now .. MaxTime
  BY <1>2 DEF Drifts
<1> QED BY ONLY <1>5, <1>9, <1>10, OneKey

(* A rewrite of an entry by a text and a cache that belong together.         *)
LEMMA RewriteStep ==
  ASSUME IInv, NEW k \in Keys, NEW raw, IsTree(raw), NEW parsed, IsTree(parsed),
         IF IsDoc(raw) THEN parsed[<<>>] = raw[<<>>] ELSE parsed = Absent,
         Writable(parsed) => Parsed(parsed) = CacheOf(raw), Rewrite(k, raw, parsed),
         imprecise' \subseteq Keys
  PROVE  IInv'
<1> PICK t \in now .. MaxTime :
      /\ Log(k, raw, Nil, t) /\ now' = t
      /\ drift' = [drift EXCEPT ![k] = Rewritten(k) \cup Straddles(t)]
  BY DEF Rewrite
<1> DEFINE d == Upsert(disk[k], raw, Nil, t)
           f == Fresh(raw, Nil, now)
           m == IF mem[k] = NoEntry THEN [f EXCEPT !.parsed = parsed]
                ELSE [mem[k] EXCEPT !.raw = raw, !.parsed = parsed, !.updated = now]
           c == Rewritten(k) \cup Straddles(t)
<1>0. /\ t \in Nat \ {0} /\ t \in Int /\ now \in Int /\ now <= t /\ now \in Nat \ {0}
      /\ Straddles(t) \in {{}, {"straddled"}} /\ (Straddles(t) = {} => t = now)
  BY Straddled, OfKey
<1>1. EntryAt(d, t) /\ d.raw = raw /\ d.parsed = CacheOf(raw) /\ d.vec = Nil /\ EntryTime(d) = t
  <2>1. disk[k] = NoEntry \/ EntryAt(disk[k], t)
    BY <1>0, OfKey, EntryLater
  <2> QED BY <1>0, <2>1, UpsertEntry
<1>2. /\ mem' = [mem EXCEPT ![k] = m] /\ disk' = [disk EXCEPT ![k] = d]
      /\ drift' = [drift EXCEPT ![k] = c] /\ now' = t
      /\ jobs' \subseteq Keys \X Embedded
  BY DEF Rewrite, Log, IInv
<1>3. /\ DOMAIN m = {"raw", "parsed", "vec", "created", "updated"}
      /\ m.raw = raw /\ m.parsed = parsed /\ m.vec \in Embedded \cup {Nil}
      /\ m.created \in 1 .. now /\ m.updated \in {now, Nil}
      /\ EntryTime(m) = now
      /\ m.vec # Nil => Rewritten(k) = {"rewritten"}
  <2>1. CASE mem[k] = NoEntry
    <3>1. /\ DOMAIN f = {"raw", "parsed", "vec", "created", "updated"}
          /\ f.raw = raw /\ f.vec = Nil /\ f.created = now /\ f.updated = Nil
      BY DEF Fresh
    <3>2. m = [f EXCEPT !.parsed = parsed]
      BY <2>1
    <3> HIDE DEF m, f
    <3>3. /\ DOMAIN m = {"raw", "parsed", "vec", "created", "updated"}
          /\ m.raw = raw /\ m.parsed = parsed /\ m.vec = Nil /\ m.created = now /\ m.updated = Nil
      BY <3>1, <3>2
    <3> QED BY <1>0, <3>3 DEF EntryTime
  <2>2. CASE mem[k] # NoEntry
    <3>1. EntryAt(mem[k], now)
      BY <2>2, OfKey
    <3>2. m = [mem[k] EXCEPT !.raw = raw, !.parsed = parsed, !.updated = now]
      BY <2>2
    <3> HIDE DEF m, f
    <3>3. /\ DOMAIN m = {"raw", "parsed", "vec", "created", "updated"}
          /\ m.raw = raw /\ m.parsed = parsed /\ m.vec = mem[k].vec
          /\ m.created = mem[k].created /\ m.updated = now
      BY <3>1, <3>2 DEF EntryAt
    <3>4. EntryTime(m) = now
      BY <1>0, <3>3, NilAssumption DEF EntryTime
    <3> QED BY <2>2, <3>1, <3>3, <3>4 DEF EntryAt, Rewritten
  <2> QED BY <2>1, <2>2
<1>4. Rewritten(k) \in {{}, {"rewritten"}}
  BY DEF Rewritten
<1> HIDE DEF m, d, f
<1>5. EntryAt(m, t)
  <2>1. m.created \in 1 .. t /\ m.updated \in m.created .. t \cup {Nil}
    BY <1>0, <1>3
  <2> QED BY <1>3, <2>1 DEF EntryAt
<1>6. SameDocument(m, d)
  BY <1>1, <1>3 DEF SameDocument
<1>7. c \in Drifts /\ "compacted" \notin c /\ ("straddled" \notin c => t = now)
      /\ ("rewritten" \notin c => m.vec = Nil)
  BY <1>0, <1>3, <1>4 DEF Drifts
<1> HIDE DEF c
<1>8. SameVector(m, d, c) /\ SameTime(m, d, c)
  BY <1>0, <1>1, <1>3, <1>7 DEF SameVector, SameTime
<1>9. Agree(m, d, c, t)
  BY <1>1, <1>5, <1>6, <1>8 DEF Agree
<1> QED BY <1>2, <1>7, <1>9, OneKey

(* What the invariant says of the cache of an object.                        *)
LEMMA ObjectCached ==
  ASSUME IInv, NEW k \in Keys, IsObject(k)
  PROVE  /\ EntryAt(mem[k], now) /\ IsTree(mem[k].parsed) /\ mem[k].parsed[<<>>] = Object
         /\ mem[k].raw[<<>>] = Object
<1>1. EntryAt(mem[k], now) /\ mem[k].parsed[<<>>] = Object
  BY OfKey DEF IsObject
<1>2. Absent[<<>>] # Object
  BY Leaves DEF Object
<1> QED BY <1>1, <1>2 DEF EntryAt

LEMMA FieldStep ==
  ASSUME IInv, NEW k \in Keys, NEW v, IsTree(v), v[<<>>] = Object, NEW path \in Paths,
         NEW new, IsTree(new), NEW wide \in {{}, {k}}, RewriteField(k, v, path, new, wide)
  PROVE  IInv'
<1> DEFINE doc == WalkKeysAndSet(v, path, new)
<1>1. path \in Path /\ path # <<>>
  BY PathsAssumption DEF Path
<1>2. IsTree(doc) /\ doc[<<>>] = Object
  BY <1>1, WrittenTree DEF RewriteField
<1>3. \/ Writable(doc) /\ Rewrite(k, doc, doc)
      \/ /\ ~Writable(doc) /\ IsObject(k)
         /\ mem' = [mem EXCEPT ![k].parsed = doc]
         /\ UNCHANGED <<disk, jobs, now, drift>>
  BY DEF RewriteField
<1>4. imprecise' \subseteq Keys
  BY DEF RewriteField, IInv
<1> HIDE DEF doc
<1>5. CASE Writable(doc) /\ Rewrite(k, doc, doc)
  <2>1. IsDoc(doc) /\ Parsed(doc) = CacheOf(doc)
    BY <1>2 DEF IsDoc, CacheOf
  <2> QED BY <1>2, <1>4, <1>5, <2>1, RewriteStep
<1>6. CASE /\ ~Writable(doc) /\ IsObject(k)
           /\ mem' = [mem EXCEPT ![k].parsed = doc]
           /\ UNCHANGED <<disk, jobs, now, drift>>
  <2> DEFINE m == [mem[k] EXCEPT !.parsed = doc]
  <2>1. /\ EntryAt(mem[k], now) /\ mem[k].raw[<<>>] = Object /\ mem[k] # NoEntry
    BY <1>6, ObjectCached DEF IsObject
  <2>2. /\ EntryAt(disk[k], now) /\ SameDocument(mem[k], disk[k])
        /\ SameVector(mem[k], disk[k], drift[k]) /\ SameTime(mem[k], disk[k], drift[k])
        /\ drift[k] \in Drifts /\ now \in Int
    BY <2>1, OfKey
  <2>3. /\ DOMAIN m = {"raw", "parsed", "vec", "created", "updated"}
        /\ m.raw = mem[k].raw /\ m.parsed = doc /\ m.vec = mem[k].vec
        /\ m.created = mem[k].created /\ m.updated = mem[k].updated
    BY <2>1 DEF EntryAt
  <2>4. mem' = [mem EXCEPT ![k] = m]
    BY <1>6
  <2> HIDE DEF m
  <2>6. EntryAt(m, now)
    BY <1>2, <2>1, <2>3 DEF EntryAt, IsDoc
  <2>7. SameDocument(m, disk[k]) /\ SameVector(m, disk[k], drift[k]) /\ SameTime(m, disk[k], drift[k])
    BY <1>6, <2>2, <2>3 DEF SameDocument, SameVector, SameTime, EntryTime
  <2>8. Agree(m, disk[k], drift[k], now)
    BY <2>2, <2>6, <2>7 DEF Agree
  <2>9. \A j \in Keys : Agree(mem'[j], disk'[j], drift'[j], now')
    <3> SUFFICES ASSUME NEW j \in Keys PROVE Agree(mem'[j], disk[j], drift[j], now)
      BY <1>6
    <3>1. CASE j = k
      BY <2>4, <2>8, <3>1 DEF IInv
    <3>2. CASE j # k
      BY <2>4, <3>2 DEF IInv
    <3> QED BY <3>1, <3>2
  <2> QED BY <1>6, <1>4, <2>4, <2>9 DEF IInv
<1> QED BY <1>3, <1>5, <1>6

LEMMA SetFieldStep ==
  ASSUME IInv, NEW k \in Keys, NEW path \in Paths, NEW text \in Operands, NEW flag,
         SetField(k, path, text, flag)
  PROVE  IInv'
<1>1. IsTree(Atov(text))
  BY TextsTrees, AtovTree
<1>2. IsTree(Target(k)) /\ Target(k)[<<>>] = Object
  BY ObjectCached, Leaves DEF Target
<1> QED BY <1>1, <1>2, FieldStep DEF SetField

LEMMA DelFieldStep ==
  ASSUME IInv, NEW k \in Keys, NEW path \in Paths, DelField(k, path)
  PROVE  IInv'
BY ObjectCached, Leaves, FieldStep DEF DelField

LEMMA IncrFieldStep ==
  ASSUME IInv, NEW k \in Keys, NEW path \in Paths, NEW d \in Deltas, IncrField(k, path, d)
  PROVE  IInv'
<1> DEFINE w == WalkKeys(mem[k].parsed, path)
<1>1. IsObject(k) /\ IsNumber(w) /\ RewriteField(k, mem[k].parsed, path, Plus(w, d), {})
  BY DEF IncrField
<1>2. IsTree(mem[k].parsed) /\ mem[k].parsed[<<>>] = Object
  BY <1>1, ObjectCached
<1>3. path \in Path /\ d \in Int
  BY PathsAssumption, DeltasAssumption DEF Path
<1>4. w = WalkKeys(mem[k].parsed, path)
  OBVIOUS
<1> HIDE DEF w
<1>5. w[<<>>][1] = "num" => w[<<>>][2] \in Int
  BY <1>1, <1>2, <1>3, <1>4, NumberFound
<1>6. IsTree(Plus(w, d))
  BY <1>1, <1>3, <1>5, SumTree
<1> QED BY <1>1, <1>2, <1>6, FieldStep

LEMMA IncrStep ==
  ASSUME IInv, NEW k \in Keys, NEW d \in Deltas, Incr(k, d)
  PROVE  IInv'
<1> DEFINE sum == Plus(mem[k].raw, d)
<1>1. mem[k] # NoEntry /\ IsNumber(mem[k].raw) /\ Rewrite(k, sum, Absent) /\ imprecise' \subseteq Keys
  BY DEF Incr, IInv
<1>2. IsTree(mem[k].raw) /\ d \in Int
  BY <1>1, OfKey, DeltasAssumption DEF EntryAt
<1>3. IsTree(sum) /\ ~IsDoc(sum)
  BY <1>1, <1>2, SumTree DEF IsTree
<1> HIDE DEF sum
<1>4. IsTree(Absent) /\ Parsed(Absent) = CacheOf(sum)
  BY <1>3, Leaves, CacheTree DEF CacheOf
<1> QED BY <1>1, <1>3, <1>4, RewriteStep

LEMMA DelStep ==
  ASSUME IInv, NEW k \in Keys, Del(k)
  PROVE  IInv'
<1>1. Agree(NoEntry, NoEntry, {}, now)
  BY DEF Agree
<1>2. now \in now .. MaxTime
  BY DEF IInv
<1> QED BY <1>1, <1>2, OneKey DEF Del, Drifts, IInv

LEMMA CompactStep ==
  ASSUME IInv, Compact
  PROVE  IInv'
<1> DEFINE d(k) == IF mem[k] = NoEntry THEN NoEntry ELSE Fresh(mem[k].raw, mem[k].vec, mem[k].created)
           c(k) == IF mem[k] = NoEntry THEN {} ELSE (drift[k] \cap {"rewritten"}) \cup {"compacted"}
<1>1. /\ disk' = [k \in Keys |-> d(k)] /\ drift' = [k \in Keys |-> c(k)]
      /\ UNCHANGED <<mem, jobs, now, imprecise>>
  BY DEF Compact
<1>2. ASSUME NEW k \in Keys PROVE c(k) \in Drifts
  BY OfKey DEF Drifts
<1>3. ASSUME NEW k \in Keys PROVE Agree(mem[k], d(k), c(k), now)
  <2>1. CASE mem[k] = NoEntry
    BY <2>1 DEF Agree
  <2>2. CASE mem[k] # NoEntry
    <3>1. /\ EntryAt(mem[k], now) /\ SameDocument(mem[k], disk[k])
          /\ SameVector(mem[k], disk[k], drift[k]) /\ now \in Int
      BY <2>2, OfKey
    <3>2. /\ IsTree(mem[k].raw) /\ mem[k].vec \in Embedded \cup {Nil}
          /\ mem[k].created \in Int /\ mem[k].created \in 1 .. now
      BY <3>1 DEF EntryAt
    <3> DEFINE e == Fresh(mem[k].raw, mem[k].vec, mem[k].created)
    <3>3. EntryAt(e, now) /\ e.raw = mem[k].raw /\ e.parsed = CacheOf(mem[k].raw) /\ e.vec = mem[k].vec
         /\ EntryTime(e) = mem[k].created
      BY <3>1, <3>2, FreshEntry
    <3>4. d(k) = e /\ "compacted" \in c(k) /\ ("rewritten" \in drift[k] => "rewritten" \in c(k))
      BY <2>2
    <3> HIDE DEF d, c, e
    <3>5. SameDocument(mem[k], e)
      BY <3>1, <3>3 DEF SameDocument
    <3>6. SameVector(mem[k], e, c(k)) /\ SameTime(mem[k], e, c(k))
      BY <3>1, <3>3, <3>4 DEF SameVector, SameTime
    <3> QED BY <3>1, <3>3, <3>4, <3>5, <3>6 DEF Agree
  <2> QED BY <2>1, <2>2
<1> HIDE DEF d, c
<1> QED BY <1>1, <1>2, <1>3 DEF IInv

LEMMA RestartStep ==
  ASSUME IInv, Restart
  PROVE  IInv'
<1> DEFINE c(k) == IF disk[k] # NoEntry /\ disk[k].vec # Nil THEN drift[k] \cap {"rewritten"} ELSE {}
<1>1. mem' = disk /\ jobs' = {} /\ imprecise' = {} /\ drift' = [k \in Keys |-> c(k)] /\ UNCHANGED <<disk, now>>
  BY DEF Restart
<1>2. ASSUME NEW k \in Keys PROVE c(k) \in Drifts
  BY DEF Drifts
<1>3. ASSUME NEW k \in Keys PROVE Agree(disk[k], disk[k], c(k), now)
  <2>1. CASE disk[k] = NoEntry
    BY <2>1 DEF Agree
  <2>2. CASE disk[k] # NoEntry
    <3>1. /\ EntryAt(disk[k], now) /\ SameDocument(mem[k], disk[k])
          /\ SameVector(mem[k], disk[k], drift[k])
      BY <2>2, OfKey
    <3>2. IsTree(disk[k].raw) /\ disk[k].parsed = CacheOf(disk[k].raw) /\ mem[k].raw = disk[k].raw
      BY <3>1 DEF EntryAt, SameDocument
    <3>3. SameDocument(disk[k], disk[k])
      BY <3>2, CacheTree DEF SameDocument
    <3>4. disk[k].vec = Nil \/ ("rewritten" \in drift[k] => "rewritten" \in c(k))
      BY <2>2
    <3>5. "compacted" \notin c(k) /\ now \in Int
      BY OfKey
    <3> HIDE DEF c
    <3>6. SameVector(disk[k], disk[k], c(k))
      BY <3>1, <3>2, <3>4 DEF SameVector
    <3>7. SameTime(disk[k], disk[k], c(k))
      BY <3>1, <3>5 DEF SameTime, EntryTime, EntryAt
    <3> QED BY <3>1, <3>3, <3>6, <3>7 DEF Agree
  <2> QED BY <2>1, <2>2
<1> HIDE DEF c
<1>4. \A k \in Keys : drift'[k] = c(k)
  BY <1>1
<1> QED BY <1>1, <1>2, <1>3, <1>4 DEF IInv

LEMMA TickStep ==
  ASSUME IInv, Tick
  PROVE  IInv'
<1>1. now \in Int /\ MaxTime \in Int /\ now' = now + 1 /\ now' \in 1 .. MaxTime
  BY TimeAssumption DEF IInv, Tick
<1>2. now <= now' /\ now' \in Int
  BY <1>1
<1>3. \A k \in Keys : Agree(mem[k], disk[k], drift[k], now')
  BY <1>1, <1>2, AgreeLater DEF IInv
<1> QED BY <1>1, <1>3 DEF IInv, Tick

LEMMA NextIInv == IInv /\ [Next]_vars => IInv'
<1> SUFFICES ASSUME IInv, [Next]_vars PROVE IInv'
  OBVIOUS
<1>1. ASSUME NEW k \in Keys, NEW t \in Texts, NEW f \in SetFlag, Set(k, t, f) PROVE IInv'
  BY <1>1, TextsTrees, WriteStep DEF Set, IInv
<1>2. ASSUME NEW k \in Keys, NEW t \in Embedded, NEW f \in SetFlag, SetVector(k, t, f) PROVE IInv'
  <2>1. jobs' \subseteq Keys \X Embedded
    BY <1>2 DEF SetVector, IInv
  <2> QED BY <1>2, <2>1, TextsTrees, WriteStep DEF SetVector
<1>3. ASSUME NEW k \in Keys, NEW t \in Embedded, DropVector(k, t) PROVE IInv'
  BY <1>3 DEF DropVector, IInv
<1>4. CASE UNCHANGED vars
  BY <1>4 DEF vars, IInv
<1> QED
  BY <1>1, <1>2, <1>3, <1>4, AttachStep, SetFieldStep, DelFieldStep, IncrFieldStep, IncrStep,
     DelStep, CompactStep, RestartStep, TickStep DEF Next

(* What a field write makes of a cache that is read back as it is.           *)
LEMMA WrittenParsed ==
  ASSUME NEW v, IsTree(v), NEW path \in Path, path # <<>>, NEW new, IsTree(new), CanSet(v, path),
         Parsed(v) = v, Parsed(new) = new
  PROVE  Parsed(WalkKeysAndSet(v, path, new)) = WalkKeysAndSet(v, path, new)
<1> DEFINE w == WalkKeysAndSet(v, path, new)
           AsRead(x) == IF x[1] = "num" THEN <<"num", Rounded(x[2])>> ELSE x
<1>1. \A p \in DOMAIN v : AsRead(v[p]) = v[p]
  BY DEF Parsed
<1>2. \A p \in DOMAIN new : AsRead(new[p]) = new[p]
  BY DEF Parsed
<1>3. DOMAIN v \subseteq Path /\ DOMAIN new \subseteq Path
  BY DEF IsTree, Path
<1>4. \A p \in DOMAIN w :
        \/ p \in DOMAIN v /\ w[p] = v[p]
        \/ \E q \in DOMAIN new : w[p] = new[q]
        \/ w[p] = Object
  <2>1. \A p \in Put(v, path, new) : Rest(path, p) \in DOMAIN new
    BY <1>3, Joined DEF Put
  <2>2. IsWritten(w, v, path, new)
    BY <1>3, PlacesWritten
  <2> HIDE DEF w
  <2> QED BY <2>1, <2>2 DEF IsWritten, Kept
<1>5. AsRead(Object) = Object
  BY DEF Object
<1> HIDE DEF AsRead
<1>6. \A p \in DOMAIN w : AsRead(w[p]) = w[p]
  BY <1>1, <1>2, <1>4, <1>5
<1>7. Parsed(w) = [p \in DOMAIN w |-> AsRead(w[p])]
  BY DEF Parsed, AsRead
<1>8. w = [p \in DOMAIN w |-> w[p]]
  BY DEF WalkKeysAndSet
<1> HIDE DEF w
<1>9. Parsed(w) = w
  BY <1>6, <1>7, <1>8
<1> QED BY <1>9 DEF w

(* Values that are read back as they are.                                    *)
LEMMA Exactly ==
  /\ Parsed(Null) = Null /\ Parsed(EmptyObj) = EmptyObj
  /\ \A v, d : IsNumber(v) /\ (v[<<>>][1] = "num" => v[<<>>][2] \in Int) /\ d \in Int =>
       Parsed(Plus(v, d)) = Plus(v, d)
<1>1. Parsed(Null) = Null /\ Parsed(EmptyObj) = EmptyObj /\ Parsed(NaN) = NaN
  BY DEF Parsed, Null, EmptyObj, NaN, Leaf, Object
<1>2. ASSUME NEW n \in Int PROVE Parsed(Num(Rounded(n))) = Num(Rounded(n))
  BY RoundedTwice DEF Parsed, Num, Leaf
<1>3. ASSUME NEW v, NEW d \in Int, v[<<>>][1] = "num", v[<<>>][2] \in Int
      PROVE  Parsed(Plus(v, d)) = Plus(v, d)
  <2>1. Rounded(Content(v)) + d \in Int
    BY <1>3, RoundedTwice DEF Content
  <2>2. Plus(v, d) = Num(Rounded(Rounded(Content(v)) + d))
    BY <1>3 DEF Plus, Kind
  <2> QED BY <1>2, <2>1, <2>2
<1>4. ASSUME NEW v, NEW d, v[<<>>][1] = "nan" PROVE Parsed(Plus(v, d)) = Plus(v, d)
  BY <1>1, <1>4 DEF Plus, Kind
<1> QED BY <1>1, <1>3, <1>4 DEF IsNumber, Kind

LEMMA PreciseKey ==
  ASSUME IInv, Precise, NEW k \in Keys, NEW m, NEW d,
         mem' = [mem EXCEPT ![k] = m], disk' = [disk EXCEPT ![k] = d],
         imprecise \ {k} \subseteq imprecise', k \notin imprecise' => m.parsed = d.parsed
  PROVE  Precise'
BY DEF Precise, IInv

LEMMA WritePrecise ==
  ASSUME IInv, Precise, NEW k \in Keys, NEW text, IsTree(text), NEW flag, Write(k, text, flag)
  PROVE  Precise'
<1>1. PICK t \in now .. MaxTime : Log(k, text, Nil, t)
  BY DEF Write
<1>2. Upsert(mem[k], text, Nil, now).parsed = CacheOf(text)
  BY OfKey, UpsertEntry
<1>3. Upsert(disk[k], text, Nil, t).parsed = CacheOf(text)
  BY Straddled, OfKey, EntryLater, UpsertEntry
<1> QED BY <1>1, <1>2, <1>3, PreciseKey DEF Write, Log

LEMMA AttachPrecise ==
  ASSUME IInv, Precise, NEW k \in Keys, NEW text \in Embedded, AttachVector(k, text)
  PROVE  Precise'
<1> DEFINE m == [mem[k] EXCEPT !.vec = text]
           d == Upsert(disk[k], text, text, now)
<1>1. /\ mem[k] # NoEntry /\ mem[k].raw = text /\ IsTree(text)
      /\ mem' = [mem EXCEPT ![k] = m] /\ disk' = [disk EXCEPT ![k] = d] /\ imprecise' = imprecise
  BY TextsTrees DEF AttachVector, Log
<1>2. /\ EntryAt(mem[k], now) /\ EntryAt(disk[k], now) /\ SameDocument(mem[k], disk[k])
      /\ now \in Nat \ {0}
  BY <1>1, OfKey
<1>3. d.parsed = CacheOf(text)
  BY <1>1, <1>2, UpsertEntry
<1>4. m.parsed = mem[k].parsed
  BY <1>2 DEF EntryAt
<1>5. k \notin imprecise' => m.parsed = d.parsed
  BY <1>1, <1>2, <1>3, <1>4 DEF SameDocument, Precise
<1> HIDE DEF m, d
<1> QED BY <1>1, <1>5, PreciseKey

LEMMA RewritePrecise ==
  ASSUME IInv, Precise, NEW k \in Keys, NEW raw, IsTree(raw), NEW parsed, Rewrite(k, raw, parsed),
         imprecise \subseteq imprecise', k \notin imprecise' => parsed = CacheOf(raw)
  PROVE  Precise'
<1>1. PICK t \in now .. MaxTime : Log(k, raw, Nil, t)
  BY DEF Rewrite
<1> DEFINE f == Fresh(raw, Nil, now)
           m == IF mem[k] = NoEntry THEN [f EXCEPT !.parsed = parsed]
                ELSE [mem[k] EXCEPT !.raw = raw, !.parsed = parsed, !.updated = now]
           d == Upsert(disk[k], raw, Nil, t)
<1>2. m.parsed = parsed
  <2>1. [f EXCEPT !.parsed = parsed].parsed = parsed
    BY DEF Fresh
  <2>2. mem[k] # NoEntry => EntryAt(mem[k], now)
    BY OfKey
  <2> HIDE DEF f
  <2> QED BY <2>1, <2>2 DEF EntryAt
<1>3. d.parsed = CacheOf(raw)
  BY Straddled, OfKey, EntryLater, UpsertEntry
<1>4. mem' = [mem EXCEPT ![k] = m] /\ disk' = [disk EXCEPT ![k] = d]
  BY <1>1 DEF Rewrite, Log
<1> HIDE DEF m, d, f
<1> QED BY <1>2, <1>3, <1>4, PreciseKey

LEMMA FieldPrecise ==
  ASSUME IInv, Precise, NEW k \in Keys, NEW v \in {EmptyObj, mem[k].parsed}, IsTree(v), v[<<>>] = Object,
         v = EmptyObj \/ IsObject(k), NEW path \in Paths,
         NEW new, IsTree(new), NEW wide, wide = {} => Parsed(new) = new,
         wide \in {{}, {k}}, RewriteField(k, v, path, new, wide)
  PROVE  Precise'
<1> DEFINE doc == WalkKeysAndSet(v, path, new)
<1>1. path \in Path /\ path # <<>> /\ CanSet(v, path)
  BY PathsAssumption DEF Path, RewriteField
<1>2. IsTree(doc) /\ doc[<<>>] = Object
  BY <1>1, WrittenTree DEF RewriteField
<1>3. \/ Writable(doc) /\ Rewrite(k, doc, doc) /\ imprecise' = imprecise \cup wide
      \/ /\ mem' = [mem EXCEPT ![k].parsed = doc] /\ disk' = disk /\ imprecise' = imprecise \cup {k}
  BY DEF RewriteField
<1>4. CASE Writable(doc) /\ Rewrite(k, doc, doc) /\ imprecise' = imprecise \cup wide
  <2>1. ASSUME k \notin imprecise' PROVE doc = CacheOf(doc)
    <3>1. k \notin imprecise /\ Parsed(new) = new
      BY <1>4, <2>1
    <3>2. Parsed(v) = v
      <4>1. CASE v = EmptyObj
        BY <4>1, Exactly
      <4>2. CASE v = mem[k].parsed /\ IsObject(k)
        <5>1. mem[k] # NoEntry /\ EntryAt(disk[k], now) /\ SameDocument(mem[k], disk[k])
          BY <4>2, OfKey DEF IsObject
        <5>2. v = CacheOf(disk[k].raw) /\ IsTree(disk[k].raw)
          BY <3>1, <4>2, <5>1 DEF Precise, SameDocument, EntryAt
        <5> QED BY <5>2, CacheTree
      <4> QED BY <4>1, <4>2
    <3>3. Parsed(doc) = doc
      BY <1>1, <3>1, <3>2, WrittenParsed
    <3> QED BY <1>2, <3>3 DEF CacheOf, IsDoc
  <2>2. imprecise \subseteq imprecise'
    BY <1>4
  <2> HIDE DEF doc
  <2> QED BY <1>2, <1>4, <2>1, <2>2, RewritePrecise
<1>5. CASE /\ mem' = [mem EXCEPT ![k].parsed = doc] /\ disk' = disk /\ imprecise' = imprecise \cup {k}
  BY <1>5 DEF Precise, IInv
<1> QED BY <1>3, <1>4, <1>5

LEMMA PreciseStep ==
  ASSUME IInv, Precise, [Next]_vars
  PROVE  Precise'
<1>1. ASSUME NEW k \in Keys, NEW t \in Texts \cup Embedded, NEW f \in SetFlag, Write(k, t, f)
      PROVE  Precise'
  BY <1>1, TextsTrees, WritePrecise
<1>2. ASSUME NEW k \in Keys, NEW p \in Paths, NEW t \in Operands, NEW f \in SetFlag, SetField(k, p, t, f)
      PROVE  Precise'
  <2> DEFINE new == Atov(t)
             wide == IF Parsed(new) = new THEN {} ELSE {k}
  <2>1. RewriteField(k, Target(k), p, new, wide) /\ (wide = {} => Parsed(new) = new) /\ wide \in {{}, {k}}
    BY <1>2 DEF SetField
  <2>2. IsTree(new)
    BY TextsTrees, AtovTree
  <2>3. /\ Target(k) \in {EmptyObj, mem[k].parsed} /\ (Target(k) = EmptyObj \/ IsObject(k))
        /\ IsTree(Target(k)) /\ Target(k)[<<>>] = Object
    BY ObjectCached, Leaves DEF Target
  <2> HIDE DEF new, wide
  <2> QED BY <2>1, <2>2, <2>3, FieldPrecise
<1>3. ASSUME NEW k \in Keys, NEW p \in Paths, DelField(k, p)
      PROVE  Precise'
  BY <1>3, ObjectCached, Leaves, Exactly, FieldPrecise DEF DelField
<1>4. ASSUME NEW k \in Keys, NEW p \in Paths, NEW d \in Deltas, IncrField(k, p, d)
      PROVE  Precise'
  <2> DEFINE w == WalkKeys(mem[k].parsed, p)
             sum == Plus(w, d)
  <2>1. IsObject(k) /\ IsNumber(w) /\ RewriteField(k, mem[k].parsed, p, sum, {})
    BY <1>4 DEF IncrField
  <2>2. IsTree(mem[k].parsed) /\ mem[k].parsed[<<>>] = Object
    BY <2>1, ObjectCached
  <2>3. p \in Path /\ d \in Int
    BY PathsAssumption, DeltasAssumption DEF Path
  <2>4. w = WalkKeys(mem[k].parsed, p)
    OBVIOUS
  <2> HIDE DEF w
  <2>5. w[<<>>][1] = "num" => w[<<>>][2] \in Int
    BY <2>1, <2>2, <2>3, <2>4, NumberFound
  <2>6. IsTree(sum) /\ Parsed(sum) = sum
    BY <2>1, <2>3, <2>5, SumTree, Exactly
  <2> HIDE DEF sum
  <2> QED BY <2>1, <2>2, <2>6, FieldPrecise
<1>5. ASSUME NEW k \in Keys, NEW d \in Deltas, Incr(k, d)
      PROVE  Precise'
  <2> DEFINE sum == Plus(mem[k].raw, d)
  <2>1. mem[k] # NoEntry /\ IsNumber(mem[k].raw) /\ Rewrite(k, sum, Absent) /\ imprecise' = imprecise
    BY <1>5 DEF Incr
  <2>2. IsTree(mem[k].raw) /\ d \in Int
    BY <2>1, OfKey, DeltasAssumption DEF EntryAt
  <2>3. IsTree(sum) /\ ~IsDoc(sum)
    BY <2>1, <2>2, SumTree DEF IsTree
  <2> HIDE DEF sum
  <2>4. Absent = CacheOf(sum) /\ imprecise \subseteq imprecise'
    BY <2>1, <2>3 DEF CacheOf
  <2> QED BY <2>1, <2>3, <2>4, RewritePrecise
<1>6. ASSUME NEW k \in Keys, Del(k)
      PROVE  Precise'
  BY <1>6, PreciseKey DEF Del
<1>7. CASE Compact
  <2>1. \A k \in Keys : disk'[k].parsed = disk[k].parsed
    <3> SUFFICES ASSUME NEW k \in Keys PROVE disk'[k].parsed = disk[k].parsed
      OBVIOUS
    <3>1. CASE mem[k] = NoEntry
      BY <1>7, <3>1, OfKey DEF Compact
    <3>2. CASE mem[k] # NoEntry
      <4>1. disk'[k].parsed = CacheOf(mem[k].raw)
        BY <1>7, <3>2 DEF Compact, Fresh
      <4> QED BY <3>2, <4>1, OfKey DEF SameDocument
    <3> QED BY <3>1, <3>2
  <2> QED BY <1>7, <2>1 DEF Compact, Precise
<1>8. CASE Restart
  BY <1>8 DEF Restart, Precise
<1>9. CASE UNCHANGED <<mem, disk, imprecise>>
  BY <1>9 DEF Precise
<1>10. \/ UNCHANGED <<mem, disk, imprecise>>
       \/ \E k \in Keys, t \in Texts \cup Embedded, f \in SetFlag : Write(k, t, f)
       \/ \E k \in Keys, t \in Embedded : AttachVector(k, t)
       \/ \E k \in Keys, p \in Paths, t \in Operands, f \in SetFlag : SetField(k, p, t, f)
       \/ \E k \in Keys, p \in Paths : DelField(k, p)
       \/ \E k \in Keys, p \in Paths, d \in Deltas : IncrField(k, p, d)
       \/ \E k \in Keys, d \in Deltas : Incr(k, d)
       \/ \E k \in Keys : Del(k)
       \/ Compact \/ Restart
  BY DEF Next, vars, Set, SetVector, DropVector, Tick
<1> QED BY <1>1, <1>2, <1>3, <1>4, <1>5, <1>6, <1>7, <1>8, <1>9, <1>10, AttachPrecise

LEMMA Inductive == Spec => [](IInv /\ Precise)
<1>1. Init => Precise
  BY DEF Init, Precise
<1> QED BY <1>1, InitIInv, NextIInv, PreciseStep, PTL DEF Spec

(* The entries keep to their domains: a value is a tree whatever is written  *)
(* into it, an entry is in memory exactly when its records make one.         *)
THEOREM TypeCorrect == Spec => []TypeOK
BY Inductive, Promised, PTL

(* A restart answers Get, GetField and Query as before it: to the last digit *)
(* unless a field was set to an integer beyond float64, or a field write has *)
(* failed, since the entry was last set whole (aof.go:93-125, setField.go,   *)
(* set.go).                                                                  *)
THEOREM RestartAnswersSame == Spec => []RestartAnswers
BY Inductive, Promised, PTL

(* No vector is of another text than the one beside it, but where a field    *)
(* write or an Incr has changed that text (set.go:155-203).                  *)
THEOREM VectorsFresh == Spec => []VectorFresh
BY Inductive, Promised, PTL

(* A restart never makes an entry older for Find and Query, and keeps its    *)
(* time when its last change was logged in the second it was made in and no  *)
(* vector has been logged since; a snapshot puts it back to the creation.    *)
THEOREM TimesAreKept == Spec => []TimesKept
BY Inductive, Promised, PTL

(* A field write changes no field but its own, of any document along any     *)
(* path (setField.go:78-129).                                                *)
THEOREM FieldsApart == Spec => []OtherFieldsKept
<1>1. IInv => OtherFieldsKept
  <2> SUFFICES ASSUME IInv, NEW k \in Keys, IsObject(k), NEW p \in Paths,
                      NEW t \in Operands \cup {Null}, NEW q \in Paths, Apart(p, q)
               PROVE  WalkKeys(WalkKeysAndSet(mem[k].parsed, p, Atov(t)), q) = WalkKeys(mem[k].parsed, q)
    BY DEF OtherFieldsKept
  <2>1. IsTree(mem[k].parsed)
    BY ObjectCached
  <2>2. IsTree(Atov(t))
    BY TextsTrees, Leaves, AtovTree
  <2>3. p \in Path /\ q \in Path
    BY PathsAssumption DEF Path
  <2>4. DOMAIN mem[k].parsed \subseteq Path /\ DOMAIN Atov(t) \subseteq Path
    BY <2>1, <2>2 DEF IsTree, Path
  <2> QED BY <2>3, <2>4, OthersAsBefore
<1> QED BY <1>1, Inductive, PTL

---------------------------------------------------------------------------
(* The walk down to a field. A name and a path make a path.                  *)
LEMMA Named ==
  ASSUME NEW f \in STRING, NEW q \in Path
  PROVE  /\ <<f>> \in Path /\ <<f>> \o q \in Path /\ <<f>> \o q # <<>>
         /\ Head(<<f>> \o q) = f /\ Tail(<<f>> \o q) = q
         /\ Len(<<f>> \o q) = Len(q) + 1 /\ (<<f>> \o q)[1] = f
         /\ \A i \in 1 .. Len(q) : (<<f>> \o q)[i + 1] = q[i]
<1> DEFINE r == <<f>> \o q
<1>1. <<f>> \in Path /\ Len(<<f>>) = 1 /\ <<f>>[1] = f /\ Len(q) \in Nat
  <2>1. <<f>> \in Seq(STRING)
    <3>1. \A A : \A a \in A : <<a>> \in Seq(A)
      OBVIOUS
    <3> QED BY <3>1, Zenon
  <2>2. Len(<<f>>) = 1 /\ <<f>>[1] = f
    OBVIOUS
  <2>3. Len(q) \in Nat
    BY LenProperties DEF Path
  <2> QED BY <2>1, <2>2, <2>3, Zenon DEF Path
<1>2. /\ r \in Path /\ Len(r) = Len(q) + 1
      /\ \A i \in 1 .. Len(q) + 1 : r[i] = IF i <= 1 THEN <<f>>[i] ELSE q[i - 1]
  <2>1. /\ r \in Path /\ Len(r) = Len(<<f>>) + Len(q)
        /\ \A i \in 1 .. Len(<<f>>) + Len(q) :
             r[i] = IF i <= Len(<<f>>) THEN <<f>>[i] ELSE q[i - Len(<<f>>)]
    BY <1>1, ConcatProperties DEF Path
  <2>2. 1 + Len(q) = Len(q) + 1
    BY <1>1
  <2> QED BY <1>1, <2>1, <2>2
<1> HIDE DEF r
<1>3. r[1] = f
  <2>1. 1 \in 1 .. Len(q) + 1 /\ 1 <= 1
    BY <1>1
  <2>2. \A j \in 1 .. Len(q) + 1 : j <= 1 => r[j] = <<f>>[j]
    BY ONLY <1>2, Zenon
  <2> QED BY ONLY <1>1, <2>1, <2>2, Zenon
<1>4. \A i \in 1 .. Len(q) : r[i + 1] = q[i]
  <2>1. ASSUME NEW i \in 1 .. Len(q)
        PROVE  r[i + 1] = q[i]
    <3>1. i + 1 \in 1 .. Len(q) + 1 /\ ~(i + 1 <= 1) /\ (i + 1) - 1 = i
      BY <1>1
    <3>2. \A j \in 1 .. Len(q) + 1 : ~(j <= 1) => r[j] = q[j - 1]
      BY ONLY <1>2, Zenon
    <3> QED BY ONLY <3>1, <3>2
  <2> QED BY <2>1
<1>5. r # <<>>
  BY <1>1, <1>2, EmptySeq DEF Path
<1>6. Head(r) = f /\ Tail(r) \in Path /\ Len(Tail(r)) = Len(q)
      /\ \A i \in 1 .. Len(q) : Tail(r)[i] = q[i]
  <2>1. /\ Head(r) = r[1] /\ Tail(r) \in Path /\ Len(Tail(r)) = Len(r) - 1
        /\ \A i \in 1 .. Len(Tail(r)) : Tail(r)[i] = r[i + 1]
    BY <1>2, <1>5, HeadTailProperties DEF Path
  <2>2. Len(r) - 1 = Len(q)
    BY <1>1, <1>2
  <2> QED BY <1>3, <1>4, <2>1, <2>2
<1>7. Tail(r) = q
  BY <1>6, SeqEqual DEF Path
<1> QED BY <1>1, <1>2, <1>3, <1>4, <1>5, <1>6, <1>7 DEF r

LEMMA NameFirst ==
  ASSUME NEW p \in Path, p # <<>>
  PROVE  \E f \in STRING, q \in Path : p = <<f>> \o q
<1>1. Len(p) \in Nat \ {0} /\ DOMAIN p = 1 .. Len(p) /\ p[1] \in STRING
  <2>1. Len(p) \in Nat \ {0} /\ DOMAIN p = 1 .. Len(p)
    BY FrontPoints, LenProperties DEF Path
  <2> QED BY <2>1, ElementOfSeq DEF Path
<1> DEFINE a == <<p[1]>>
<1>2. a \in Path /\ Len(a) = 1 /\ a[1] = p[1]
  BY <1>1 DEF Path
<1> HIDE DEF a
<1>3. IsPrefix(a, p)
  BY <1>1, <1>2, PrefixPointwise
<1>4. Rest(a, p) \in Path /\ p = a \o Rest(a, p)
  BY <1>2, <1>3, Split
<1> QED BY <1>1, <1>4 DEF a

LEMMA NamedEqual ==
  ASSUME NEW f \in STRING, NEW g \in STRING, NEW q \in Path, NEW r \in Path
  PROVE  /\ <<f>> \o q = <<g>> \o r <=> f = g /\ q = r
         /\ IsPrefix(<<f>> \o q, <<g>> \o r) <=> f = g /\ IsPrefix(q, r)
         /\ ~IsPrefix(<<f>> \o q, <<>>)
<1> DEFINE a == <<f>> \o q
           b == <<g>> \o r
<1>1. /\ a \in Path /\ Len(a) = Len(q) + 1 /\ a[1] = f /\ Tail(a) = q
      /\ \A i \in 1 .. Len(q) : a[i + 1] = q[i]
  BY Named
<1>2. /\ b \in Path /\ Len(b) = Len(r) + 1 /\ b[1] = g /\ Tail(b) = r
      /\ \A i \in 1 .. Len(r) : b[i + 1] = r[i]
  BY Named
<1>3. Len(q) \in Nat /\ Len(r) \in Nat /\ <<>> \in Path /\ Len(<<>>) = 0
  BY LenProperties, EmptySeq DEF Path
<1>4. a = b <=> f = g /\ q = r
  BY <1>1, <1>2
<1> HIDE DEF a, b
<1>5. IsPrefix(a, b) <=> Len(a) <= Len(b) /\ \A i \in 1 .. Len(a) : a[i] = b[i]
  BY <1>1, <1>2, PrefixPointwise
<1>6. IsPrefix(q, r) <=> Len(q) <= Len(r) /\ \A i \in 1 .. Len(q) : q[i] = r[i]
  BY PrefixPointwise
<1>7. ASSUME IsPrefix(a, b)
      PROVE  f = g /\ IsPrefix(q, r)
  <2>1. f = g
    <3>1. 1 \in 1 .. Len(a)
      BY <1>1, <1>3
    <3> QED BY <1>1, <1>2, <1>5, <1>7, <3>1
  <2>0. Len(q) <= Len(r)
    BY <1>1, <1>2, <1>3, <1>5, <1>7
  <2>2. ASSUME NEW i \in 1 .. Len(q)
        PROVE  q[i] = r[i]
    <3>1. i \in 1 .. Len(r) /\ i + 1 \in 1 .. Len(a)
      BY <1>1, <1>3, <2>0
    <3> QED BY <1>1, <1>2, <1>5, <1>7, <3>1
  <2> QED BY <1>6, <2>0, <2>1, <2>2
<1>8. ASSUME f = g, IsPrefix(q, r)
      PROVE  IsPrefix(a, b)
  <2>1. Len(q) <= Len(r)
    BY <1>6, <1>8
  <2>2. ASSUME NEW i \in 1 .. Len(a)
        PROVE  a[i] = b[i]
    <3>1. CASE i = 1
      BY <1>1, <1>2, <1>8, <3>1
    <3>2. CASE i # 1
      <4>1. i - 1 \in 1 .. Len(q) /\ i - 1 \in 1 .. Len(r) /\ (i - 1) + 1 = i
        BY <1>1, <1>3, <2>1, <3>2
      <4>2. a[i] = q[i - 1]
        BY <1>1, <4>1
      <4>3. b[i] = r[i - 1]
        BY <1>2, <4>1
      <4>4. q[i - 1] = r[i - 1]
        BY <1>6, <1>8, <4>1
      <4> QED BY <4>2, <4>3, <4>4
    <3> QED BY <3>1, <3>2
  <2> QED BY <1>1, <1>2, <1>3, <1>5, <2>1, <2>2
<1>9. ~IsPrefix(a, <<>>)
  BY <1>1, <1>3, PrefixPointwise
<1> QED BY <1>4, <1>7, <1>8, <1>9 DEF a, b

(* A non-empty set of numbers has a least one.                               *)
LEMMA Least ==
  ASSUME NEW S, S \subseteq Nat, S # {}
  PROVE  \E n \in S : \A k \in S : n <= k
<1>1. PICK n \in S : \A k \in S : ~(<<k, n>> \in OpToRel(<, Nat))
  BY NatLessThanWellFounded, WFMin
<1>2. ASSUME NEW k \in S
      PROVE  n <= k
  <2>1. n \in Nat /\ k \in Nat
    OBVIOUS
  <2>2. k < n => <<k, n>> \in Nat \X Nat /\ <<k, n>>[1] < <<k, n>>[2]
    BY <2>1
  <2>3. ~(k < n)
    BY <1>1, <2>2 DEF OpToRel
  <2> QED BY <2>1, <2>3
<1> QED BY <1>2

(* What hangs beneath a place of a tree hangs beneath the places above it.   *)
LEMMA TreeClosed ==
  ASSUME NEW v, IsTree(v), NEW f \in STRING, NEW q \in Path, <<f>> \o q \in DOMAIN v
  PROVE  <<f>> \in DOMAIN v
<1> DEFINE Lengths == {n \in Nat : \E r \in Path : Len(r) = n /\ <<f>> \o r \in DOMAIN v}
<1>1. Lengths # {} /\ Lengths \subseteq Nat
  BY LenProperties DEF Path
<1>2. PICK n \in Lengths : \A k \in Lengths : n <= k
  <2> HIDE DEF Lengths
  <2> QED BY <1>1, Least
<1>3. PICK r \in Path : Len(r) = n /\ <<f>> \o r \in DOMAIN v
  OBVIOUS
<1>4. r = <<>>
  <2> SUFFICES ASSUME r # <<>> PROVE FALSE
    OBVIOUS
  <2>1. Front(r) \in Path /\ Len(Front(r)) = n - 1 /\ n \in Nat \ {0}
    BY <1>3, FrontPoints
  <2>2. <<f>> \in Path
    BY Named
  <2>3. <<f>> \o r # <<>> /\ Front(<<f>> \o r) = <<f>> \o Front(r)
    BY <2>2, FrontJoined
  <2>4. <<f>> \o Front(r) \in DOMAIN v
    BY <1>3, <2>3 DEF IsTree
  <2>5. n - 1 \in Lengths
    BY <2>1, <2>4
  <2>6. ~(n <= n - 1)
    BY <2>1
  <2> HIDE DEF Lengths
  <2> QED BY <1>2, <2>5, <2>6
<1>5. <<f>> \o <<>> = <<f>>
  BY Named, ConcatEmptySeq DEF Path
<1> QED BY <1>3, <1>4, <1>5

(* What a place of a tree holds is a tree, of the places that hang there.    *)
LEMMA WalkedTo ==
  ASSUME NEW v, IsTree(v), NEW a \in DOMAIN v
  PROVE  /\ DOMAIN WalkKeys(v, a) = {q \in Path : a \o q \in DOMAIN v}
         /\ WalkKeys(v, a) = [q \in {r \in Path : a \o r \in DOMAIN v} |-> v[a \o q]]
         /\ IsTree(WalkKeys(v, a)) /\ WalkKeys(v, a)[<<>>] = v[a]
<1> DEFINE u == WalkKeys(v, a)
           places == {q \in Path : a \o q \in DOMAIN v}
<1>1. DOMAIN v \subseteq Path /\ a \in Path
  BY DEF IsTree, Path
<1>2. {Rest(a, q) : q \in Below(v, a)} = places
  <2>1. ASSUME NEW q \in Below(v, a)
        PROVE  Rest(a, q) \in places
    <3>1. q \in Path /\ IsPrefix(a, q) /\ q \in DOMAIN v
      BY <1>1 DEF Below
    <3> QED BY <1>1, <3>1, Split
  <2>2. ASSUME NEW q \in places
        PROVE  \E r \in Below(v, a) : q = Rest(a, r)
    <3>1. IsPrefix(a, a \o q) /\ Rest(a, a \o q) = q
      BY <1>1, Joined
    <3> QED BY <3>1 DEF Below
  <2> QED BY <2>1, <2>2
<1>3. u = [q \in places |-> v[a \o q]]
  BY <1>2 DEF WalkKeys
<1>4. DOMAIN u = places /\ \A q \in places : u[q] = v[a \o q]
  BY <1>3
<1>5. <<>> \in places /\ u[<<>>] = v[a]
  <2>1. <<>> \in Path /\ a \o <<>> = a
    BY <1>1, EmptySeq, ConcatEmptySeq DEF Path
  <2> QED BY <1>4, <2>1
<1>6. ASSUME NEW q \in places
      PROVE  /\ q # <<>> => Front(q) \in places /\ u[Front(q)] \in {Object, Array}
             /\ u[q][1] = "num" => u[q] = <<"num", u[q][2]>> /\ u[q][2] \in Int
  <2>1. ASSUME q # <<>>
        PROVE  Front(q) \in places /\ u[Front(q)] \in {Object, Array}
    <3>1. a \o q # <<>> /\ Front(a \o q) = a \o Front(q) /\ Front(q) \in Path
      BY <1>1, <2>1, FrontJoined, FrontPoints
    <3>2. Front(a \o q) \in DOMAIN v /\ v[Front(a \o q)] \in {Object, Array}
      BY <3>1 DEF IsTree
    <3> QED BY <1>4, <3>1, <3>2
  <2> QED BY <1>4, <2>1 DEF IsTree
<1>7. IsTree(u)
  <2>1. DOMAIN u \subseteq Seq(STRING)
    BY <1>4 DEF Path
  <2> HIDE DEF u, places
  <2> QED BY <1>4, <1>5, <1>6, <2>1 DEF IsTree
<1> QED BY <1>3, <1>4, <1>5, <1>7

LEMMA WalkedOn ==
  ASSUME NEW v, IsTree(v), NEW a \in DOMAIN v, NEW b \in Path
  PROVE  WalkKeys(WalkKeys(v, a), b) = WalkKeys(v, a \o b)
<1> DEFINE u == WalkKeys(v, a)
<1>1. DOMAIN v \subseteq Path /\ a \in Path
  BY DEF IsTree, Path
<1>2. /\ DOMAIN u = {q \in Path : a \o q \in DOMAIN v} /\ IsTree(u)
      /\ u = [q \in {r \in Path : a \o r \in DOMAIN v} |-> v[a \o q]]
  BY WalkedTo
<1>3. \A q \in DOMAIN u : u[q] = v[a \o q]
  BY <1>2
<1>4. CASE b \in DOMAIN u
  <2>1. a \o b \in DOMAIN v
    BY <1>2, <1>4
  <2>0. IsTree(v) /\ IsTree(u) /\ b \in DOMAIN u
    BY <1>2, <1>4
  <2> HIDE DEF u
  <2>2. WalkKeys(u, b) = [q \in {r \in Path : b \o r \in DOMAIN u} |-> u[b \o q]]
    BY ONLY <2>0, WalkedTo, Zenon
  <2>3. WalkKeys(v, a \o b) = [q \in {r \in Path : (a \o b) \o r \in DOMAIN v} |-> v[(a \o b) \o q]]
    BY ONLY <2>0, <2>1, WalkedTo, Zenon
  <2>4. ASSUME NEW r \in Path
        PROVE  b \o r \in Path /\ a \o (b \o r) = (a \o b) \o r
    <3>1. b \o r \in Path
      BY Joined
    <3>2. a \in Seq(STRING) /\ b \in Seq(STRING) /\ r \in Seq(STRING)
      BY <1>1 DEF Path
    <3>3. a \o (b \o r) = (a \o b) \o r
      BY ONLY <3>2, ConcatAssociative
    <3> QED BY <3>1, <3>3
  <2>5. \A r \in Path : b \o r \in DOMAIN u <=> (a \o b) \o r \in DOMAIN v
    BY <1>2, <2>4
  <2>6. \A r \in Path : b \o r \in DOMAIN u => u[b \o r] = v[(a \o b) \o r]
    BY <1>3, <2>4
  <2>7. {r \in Path : b \o r \in DOMAIN u} = {r \in Path : (a \o b) \o r \in DOMAIN v}
    BY <2>5
  <2> QED BY <2>2, <2>3, <2>6, <2>7 DEF u
<1>5. CASE b \notin DOMAIN u
  <2>1. a \o b \notin DOMAIN v
    BY <1>2, <1>5
  <2> QED BY <1>5, <2>1 DEF WalkKeys
<1> QED BY <1>4, <1>5

(* The members of a tree, and one of them.                                   *)
LEMMA MembersAre ==
  ASSUME NEW v, IsTree(v)
  PROVE  /\ DOMAIN Members(v) = {f \in STRING : <<f>> \in DOMAIN v}
         /\ \A f \in DOMAIN Members(v) : Members(v)[f] = WalkKeys(v, <<f>>)
<1> DEFINE ones == {q \in DOMAIN v : Len(q) = 1}
<1>1. DOMAIN v \subseteq Path
  BY DEF IsTree, Path
<1>2. {p[1] : p \in ones} = {f \in STRING : <<f>> \in DOMAIN v}
  <2>1. ASSUME NEW p \in ones
        PROVE  p[1] \in STRING /\ <<p[1]>> \in DOMAIN v
    <3>1. p \in Path /\ Len(p) = 1
      BY <1>1
    <3>2. p[1] \in STRING
      BY <3>1, ElementOfSeq DEF Path
    <3>3. p = <<p[1]>>
      <4>1. <<p[1]>> \in Path
        <5>1. <<>> \in Path
          BY EmptySeq DEF Path
        <5> QED BY <3>2, <5>1, Named
      <4>2. Len(<<p[1]>>) = 1 /\ <<p[1]>>[1] = p[1]
        OBVIOUS
      <4> QED BY <3>1, <4>1, <4>2, SeqEqual DEF Path
    <3> QED BY <3>2, <3>3
  <2>2. ASSUME NEW f \in STRING, <<f>> \in DOMAIN v
        PROVE  \E p \in ones : f = p[1]
    <3>1. Len(<<f>>) = 1 /\ <<f>>[1] = f
      OBVIOUS
    <3> QED BY <2>2, <3>1
  <2> HIDE DEF ones
  <2> QED BY <2>1, <2>2
<1> HIDE DEF ones
<1>3. Members(v) = [f \in {p[1] : p \in ones} |-> WalkKeys(v, <<f>>)]
  BY DEF Members, ones
<1> QED BY <1>2, <1>3

LEMMA MemberIs ==
  ASSUME NEW v, IsTree(v), NEW f \in STRING
  PROVE  /\ <<f>> \in DOMAIN v => Member(v, f) = WalkKeys(v, <<f>>)
         /\ <<f>> \notin DOMAIN v => Member(v, f) = EmptyObj
         /\ IsTree(Member(v, f))
<1>1. CASE <<f>> \in DOMAIN v
  <2>1. f \in DOMAIN Members(v) /\ Members(v)[f] = WalkKeys(v, <<f>>)
    BY <1>1, MembersAre
  <2>2. Member(v, f) = WalkKeys(v, <<f>>)
    BY <2>1 DEF Member
  <2>3. IsTree(WalkKeys(v, <<f>>))
    BY <1>1, WalkedTo
  <2> QED BY <1>1, <2>2, <2>3
<1>2. CASE <<f>> \notin DOMAIN v
  BY <1>2, MembersAre, Leaves DEF Member
<1> QED BY <1>1, <1>2

LEMMA MemberPlaces ==
  ASSUME NEW v, IsTree(v), NEW f \in STRING, NEW u, u = Member(v, f)
  PROVE  /\ <<f>> \in DOMAIN v => \A q \in Path : /\ q \in DOMAIN u <=> <<f>> \o q \in DOMAIN v
                                                  /\ q \in DOMAIN u => u[q] = v[<<f>> \o q]
         /\ <<f>> \notin DOMAIN v => /\ DOMAIN u = {<<>>} /\ u[<<>>] = Object
                                     /\ \A q \in Path : <<f>> \o q \notin DOMAIN v
<1>1. ASSUME <<f>> \in DOMAIN v, NEW q \in Path
      PROVE  (q \in DOMAIN u <=> <<f>> \o q \in DOMAIN v) /\ (q \in DOMAIN u => u[q] = v[<<f>> \o q])
  <2>1. u = WalkKeys(v, <<f>>)
    BY <1>1, MemberIs
  <2>2. /\ DOMAIN WalkKeys(v, <<f>>) = {p \in Path : <<f>> \o p \in DOMAIN v}
        /\ WalkKeys(v, <<f>>) = [p \in {s \in Path : <<f>> \o s \in DOMAIN v} |-> v[<<f>> \o p]]
    BY <1>1, WalkedTo
  <2> QED BY <2>1, <2>2
<1>2. ASSUME <<f>> \notin DOMAIN v
      PROVE  DOMAIN u = {<<>>} /\ u[<<>>] = Object /\ \A q \in Path : <<f>> \o q \notin DOMAIN v
  <2>1. u = EmptyObj
    BY <1>2, MemberIs
  <2>2. DOMAIN EmptyObj = {<<>>} /\ EmptyObj[<<>>] = Object
    BY DEF EmptyObj, Leaf
  <2>3. \A q \in Path : <<f>> \o q \notin DOMAIN v
    BY <1>2, TreeClosed
  <2> QED BY <2>1, <2>2, <2>3
<1> QED BY <1>1, <1>2, Zenon

(* Two trees are the same when the same places hang beneath the same names.  *)
LEMMA SamePlaces ==
  ASSUME NEW D, NEW E, NEW x, NEW y, x = [p \in D |-> x[p]], y = [p \in E |-> y[p]],
         D \subseteq Path, E \subseteq Path, <<>> \in D, <<>> \in E, x[<<>>] = y[<<>>],
         \A f \in STRING, q \in Path :
           /\ <<f>> \o q \in D <=> <<f>> \o q \in E
           /\ <<f>> \o q \in D => x[<<f>> \o q] = y[<<f>> \o q]
  PROVE  x = y
<1>1. ASSUME NEW p \in Path
      PROVE  (p \in D <=> p \in E) /\ (p \in D => x[p] = y[p])
  <2>1. CASE p = <<>>
    BY <2>1
  <2>2. CASE p # <<>>
    <3>1. PICK f \in STRING, q \in Path : p = <<f>> \o q
      BY <2>2, NameFirst
    <3>2. /\ <<f>> \o q \in D <=> <<f>> \o q \in E
          /\ <<f>> \o q \in D => x[<<f>> \o q] = y[<<f>> \o q]
      OBVIOUS
    <3> QED BY <3>1, <3>2, Zenon
  <2> QED BY <2>1, <2>2
<1>2. D = E
  BY <1>1
<1>3. \A p \in D : x[p] = y[p]
  BY <1>1
<1> QED BY <1>2, <1>3

(* What a member that is put into a tree leaves where.                       *)
NamesLeft(v, f, new) ==
  IF new = Null /\ v[<<>>] = Object THEN DOMAIN Members(v) \ {f} ELSE DOMAIN Members(v) \cup {f}

LEMMA WithMemberIs ==
  ASSUME NEW v, IsTree(v), NEW f \in STRING, NEW new, DOMAIN new \subseteq Path,
         NEW x, x = WithMember(v, f, new)
  PROVE  /\ x = [p \in DOMAIN x |-> x[p]]
         /\ DOMAIN x \subseteq Path /\ <<>> \in DOMAIN x /\ x[<<>>] = v[<<>>]
         /\ \A q \in Path :
              /\ <<f>> \o q \in DOMAIN x <=> f \in NamesLeft(v, f, new) /\ q \in DOMAIN new
              /\ <<f>> \o q \in DOMAIN x => x[<<f>> \o q] = new[q]
         /\ \A g \in STRING \ {f}, q \in Path :
              /\ <<g>> \o q \in DOMAIN x <=> <<g>> \o q \in DOMAIN v
              /\ <<g>> \o q \in DOMAIN x => x[<<g>> \o q] = v[<<g>> \o q]
<1> DEFINE names == NamesLeft(v, f, new)
           members == [g \in names |-> IF g = f THEN new ELSE Members(v)[g]]
           Beneath(g) == {<<g>> \o q : q \in DOMAIN members[g]}
           places == {<<>>} \cup UNION {Beneath(g) : g \in names}
<1>1. x = [p \in places |-> IF p = <<>> THEN v[<<>>] ELSE members[Head(p)][Tail(p)]]
  BY DEF WithMember, Grown, NamesLeft
<1>2. names \subseteq STRING /\ \A g \in STRING \ {f} : g \in names <=> <<g>> \in DOMAIN v
  BY MembersAre DEF NamesLeft
<1>3. \A g \in names : members[g] = IF g = f THEN new ELSE Members(v)[g]
  OBVIOUS
<1>4. \A g \in names \ {f} :
        /\ <<g>> \in DOMAIN v /\ members[g] = WalkKeys(v, <<g>>)
        /\ DOMAIN members[g] = {q \in Path : <<g>> \o q \in DOMAIN v}
        /\ \A q \in DOMAIN members[g] : members[g][q] = v[<<g>> \o q]
  <2> SUFFICES ASSUME NEW g \in names \ {f}
               PROVE  /\ <<g>> \in DOMAIN v /\ members[g] = WalkKeys(v, <<g>>)
                      /\ DOMAIN members[g] = {q \in Path : <<g>> \o q \in DOMAIN v}
                      /\ \A q \in DOMAIN members[g] : members[g][q] = v[<<g>> \o q]
    BY Zenon
  <2>1. <<g>> \in DOMAIN v /\ g \in DOMAIN Members(v)
    BY <1>2, MembersAre
  <2>2. members[g] = WalkKeys(v, <<g>>)
    BY <1>3, <2>1, MembersAre
  <2>3. /\ DOMAIN WalkKeys(v, <<g>>) = {q \in Path : <<g>> \o q \in DOMAIN v}
        /\ WalkKeys(v, <<g>>) = [q \in {r \in Path : <<g>> \o r \in DOMAIN v} |-> v[<<g>> \o q]]
    BY <2>1, WalkedTo
  <2>4. \A q \in DOMAIN WalkKeys(v, <<g>>) : WalkKeys(v, <<g>>)[q] = v[<<g>> \o q]
    BY <2>3
  <2> QED BY <2>1, <2>2, <2>3, <2>4
<1> HIDE DEF names, members
<1>5. \A g \in names : DOMAIN members[g] \subseteq Path
  BY <1>3, <1>4
<1>6. \A g \in STRING, q \in Path : <<g>> \o q \in places <=> g \in names /\ q \in DOMAIN members[g]
  <2> SUFFICES ASSUME NEW g \in STRING, NEW q \in Path
               PROVE  <<g>> \o q \in places <=> g \in names /\ q \in DOMAIN members[g]
    OBVIOUS
  <2>1. <<g>> \o q # <<>>
    BY Named
  <2>2. <<g>> \o q \in places <=> \E h \in names : \E r \in DOMAIN members[h] : <<g>> \o q = <<h>> \o r
    <3>1. <<g>> \o q \in places <=> \E h \in names : <<g>> \o q \in Beneath(h)
      <4> HIDE DEF Beneath
      <4> QED BY <2>1
    <3>2. \A h \in names :
            <<g>> \o q \in Beneath(h) <=> \E r \in DOMAIN members[h] : <<g>> \o q = <<h>> \o r
      OBVIOUS
    <3> QED BY <3>1, <3>2, Zenon
  <2>3. ASSUME NEW h \in names, NEW r \in DOMAIN members[h]
        PROVE  <<g>> \o q = <<h>> \o r <=> g = h /\ q = r
    <3>1. h \in STRING /\ r \in Path
      BY <1>2, <1>5
    <3>2. Head(<<g>> \o q) = g /\ Tail(<<g>> \o q) = q
      BY Named
    <3>3. Head(<<h>> \o r) = h /\ Tail(<<h>> \o r) = r
      BY <3>1, Named
    <3>4. ASSUME <<g>> \o q = <<h>> \o r
          PROVE  g = h /\ q = r
      BY <3>2, <3>3, <3>4, Zenon
    <3> QED BY <3>4, Zenon
  <2> QED BY <2>2, <2>3, Zenon
<1>7. places \subseteq Path /\ <<>> \in places
  <2>1. <<>> \in Path
    BY EmptySeq DEF Path
  <2>2. ASSUME NEW g \in names, NEW q \in DOMAIN members[g]
        PROVE  <<g>> \o q \in Path
    <3>1. g \in STRING /\ q \in Path
      BY <1>2, <1>5
    <3> QED BY <3>1, Named
  <2>3. \A g \in names : Beneath(g) \subseteq Path
    BY <2>2
  <2> HIDE DEF Beneath
  <2> QED BY <2>1, <2>3
<1>8. \A g \in STRING, q \in Path : <<g>> \o q \in places => x[<<g>> \o q] = members[g][q]
  <2> SUFFICES ASSUME NEW g \in STRING, NEW q \in Path, <<g>> \o q \in places
               PROVE  x[<<g>> \o q] = members[g][q]
    OBVIOUS
  <2>1. <<g>> \o q # <<>> /\ Head(<<g>> \o q) = g /\ Tail(<<g>> \o q) = q
    BY Named
  <2> HIDE DEF places
  <2> QED BY <1>1, <2>1
<1>9. x[<<>>] = v[<<>>]
  BY <1>1, <1>7
<1>10. DOMAIN x = places /\ x = [p \in DOMAIN x |-> x[p]]
  BY <1>1
<1> HIDE DEF places
<1>11. \A q \in Path :
         /\ <<f>> \o q \in DOMAIN x <=> f \in names /\ q \in DOMAIN new
         /\ <<f>> \o q \in DOMAIN x => x[<<f>> \o q] = new[q]
  BY <1>3, <1>6, <1>8, <1>10
<1>12. ASSUME NEW g \in STRING \ {f}, NEW q \in Path
       PROVE  /\ <<g>> \o q \in DOMAIN x <=> <<g>> \o q \in DOMAIN v
              /\ <<g>> \o q \in DOMAIN x => x[<<g>> \o q] = v[<<g>> \o q]
  <2>1. <<g>> \o q \in DOMAIN v => <<g>> \in DOMAIN v
    BY TreeClosed
  <2>2. <<g>> \o q \in DOMAIN x <=> g \in names /\ q \in DOMAIN members[g]
    BY <1>6, <1>10
  <2>3. <<g>> \o q \in DOMAIN x => x[<<g>> \o q] = members[g][q]
    BY <1>8, <1>10
  <2>4. g \in names <=> <<g>> \in DOMAIN v
    BY <1>2
  <2> QED BY <1>4, <2>1, <2>2, <2>3, <2>4
<1> QED BY <1>7, <1>9, <1>10, <1>11, <1>12 DEF names

(* The way to a path that begins with a name.                                *)
LEMMA BeginsNamed ==
  ASSUME NEW f \in STRING, NEW r \in Path, NEW j \in 0 .. Len(r)
  PROVE  SubSeq(r, 1, j) \in Path /\ SubSeq(<<f>> \o r, 1, j + 1) = <<f>> \o SubSeq(r, 1, j)
<1> DEFINE path == <<f>> \o r
           s == SubSeq(r, 1, j)
           x == SubSeq(path, 1, j + 1)
           y == <<f>> \o s
<1>1. /\ path \in Path /\ Len(path) = Len(r) + 1 /\ path[1] = f
      /\ \A i \in 1 .. Len(r) : path[i + 1] = r[i]
  BY Named
<1>2. Len(r) \in Nat
  BY LenProperties DEF Path
<1>3. s \in Path /\ Len(s) = j /\ \A i \in 1 .. j : s[i] = r[i]
  <2>1. \A i \in 1 .. j : i \in 1 .. Len(r)
    BY <1>2
  <2> QED BY <1>2, <2>1, SubSeqProperties DEF Path
<1>4. x \in Path /\ Len(x) = j + 1 /\ \A i \in 1 .. j + 1 : x[i] = path[i]
  <2> HIDE DEF path
  <2>1. \A i \in 1 .. j + 1 : i \in 1 .. Len(path)
    BY <1>1, <1>2
  <2>2. path \in Seq(STRING) /\ j + 1 \in Nat
    BY <1>1 DEF Path
  <2> QED BY <1>2, <2>1, <2>2, SubSeqProperties DEF Path
<1> HIDE DEF s
<1>5. /\ y \in Path /\ Len(y) = j + 1 /\ y[1] = f
      /\ \A i \in 1 .. j : y[i + 1] = s[i]
  BY <1>3, Named
<1> HIDE DEF x, y, path
<1>6. ASSUME NEW i \in 1 .. j + 1
      PROVE  x[i] = y[i]
  <2>1. CASE i = 1
    BY <1>1, <1>4, <1>5, <2>1
  <2>2. CASE i # 1
    <3>1. i - 1 \in 1 .. j /\ i - 1 \in 1 .. Len(r) /\ (i - 1) + 1 = i
      BY <1>2, <2>2
    <3>2. path[(i - 1) + 1] = r[i - 1]
      BY <1>1, <3>1
    <3>3. y[(i - 1) + 1] = r[i - 1]
      BY <1>3, <1>5, <3>1
    <3> QED BY <1>4, <3>1, <3>2, <3>3
  <2> QED BY <2>1, <2>2
<1>7. x = y
  BY <1>4, <1>5, <1>6, SeqEqual DEF Path
<1> QED BY <1>3, <1>7 DEF x, y, path, s

LEMMA WayNamed ==
  ASSUME NEW f \in STRING, NEW r \in Path
  PROVE  /\ <<>> \in Way(<<f>> \o r)
         /\ \A g \in STRING, q \in Path : <<g>> \o q \in Way(<<f>> \o r) <=> g = f /\ q \in Way(r)
<1> DEFINE path == <<f>> \o r
<1>1. path \in Path /\ Len(path) = Len(r) + 1 /\ Len(r) \in Nat /\ DOMAIN path = 1 .. Len(r) + 1 /\ DOMAIN r = 1 .. Len(r)
  <2>1. path \in Path /\ Len(path) = Len(r) + 1
    BY Named
  <2> HIDE DEF path
  <2> QED BY <2>1, LenProperties DEF Path
<1>2. SubSeq(path, 1, 0) = <<>>
  <2> HIDE DEF path
  <2>1. 1 \in Int /\ 0 \in Int /\ \A i \in 1 .. 0 : path[i] \in STRING
    OBVIOUS
  <2> QED BY <1>1, <2>1, SubSeqProperties, EmptySeq DEF Path
<1>3. <<>> \in Way(path)
  <2>1. 1 \in DOMAIN path /\ 1 - 1 = 0
    BY <1>1
  <2> HIDE DEF path
  <2>2. SubSeq(path, 1, 1 - 1) = <<>>
    BY <1>2, <2>1
  <2> QED BY <2>1, <2>2 DEF Way
<1>4. ASSUME NEW q \in Path, q \in Way(r)
      PROVE  <<f>> \o q \in Way(path)
  <2>1. PICK i \in 1 .. Len(r) : q = SubSeq(r, 1, i - 1)
    BY <1>1, <1>4 DEF Way
  <2>2. i - 1 \in 0 .. Len(r) /\ i + 1 \in DOMAIN path /\ (i - 1) + 1 = (i + 1) - 1
    BY <1>1
  <2>3. SubSeq(path, 1, (i + 1) - 1) = <<f>> \o q
    BY <2>1, <2>2, BeginsNamed
  <2> HIDE DEF path
  <2> QED BY <2>2, <2>3 DEF Way
<1>5. ASSUME NEW g \in STRING, NEW q \in Path, <<g>> \o q \in Way(path)
      PROVE  g = f /\ q \in Way(r)
  <2>1. PICK i \in 1 .. Len(r) + 1 : <<g>> \o q = SubSeq(path, 1, i - 1)
    BY <1>1, <1>5 DEF Way
  <2>2. i # 1
    <3> SUFFICES ASSUME i = 1 PROVE FALSE
      OBVIOUS
    <3>1. i - 1 = 0
      OBVIOUS
    <3>2. <<g>> \o q = <<>>
      BY <1>2, <2>1, <3>1
    <3> QED BY <3>2, Named
  <2> DEFINE j == i - 2
  <2>3. j \in 0 .. Len(r) /\ j + 1 = i - 1 /\ i - 1 \in DOMAIN r /\ (i - 1) - 1 = j
    BY <1>1, <2>2
  <2>4. SubSeq(r, 1, j) \in Path /\ <<g>> \o q = <<f>> \o SubSeq(r, 1, j)
    <3> HIDE DEF j
    <3> QED BY <2>1, <2>3, BeginsNamed
  <2>5. g = f /\ q = SubSeq(r, 1, j)
    <3> DEFINE s == SubSeq(r, 1, j)
    <3> HIDE DEF s, j
    <3>1. s \in Path /\ <<g>> \o q = <<f>> \o s
      BY <2>4 DEF s
    <3>2. Head(<<g>> \o q) = g /\ Tail(<<g>> \o q) = q
      BY Named
    <3>3. Head(<<f>> \o s) = f /\ Tail(<<f>> \o s) = s
      BY <3>1, Named
    <3>4. g = f /\ q = s
      BY <3>1, <3>2, <3>3, Zenon
    <3> QED BY <3>4 DEF s
  <2> QED BY <2>3, <2>5 DEF Way
<1> QED BY <1>3, <1>4, <1>5

(* A write makes a member what the rest of the write makes of the member.    *)
LEMMA PutAt ==
  ASSUME NEW v, NEW path \in Path, NEW new, DOMAIN new \subseteq Path, NEW p \in Path
  PROVE  p \in Put(v, path, new) <=>
           /\ ~(new = Null /\ (Front(path) \in DOMAIN v => v[Front(path)] = Object))
           /\ IsPrefix(path, p) /\ Rest(path, p) \in DOMAIN new
<1>1. ASSUME IsPrefix(path, p), Rest(path, p) \in DOMAIN new
      PROVE  \E q \in DOMAIN new : p = path \o q
  <2>1. p = path \o Rest(path, p)
    BY <1>1, Split
  <2> QED BY <1>1, <2>1
<1>2. ASSUME NEW q \in DOMAIN new, p = path \o q
      PROVE  IsPrefix(path, p) /\ Rest(path, p) \in DOMAIN new
  <2>1. IsPrefix(path, path \o q) /\ Rest(path, path \o q) = q
    BY Joined
  <2> QED BY <1>2, <2>1
<1> QED BY <1>1, <1>2 DEF Put

LEMMA RestNamed ==
  ASSUME NEW f \in STRING, NEW r \in Path, NEW q \in Path, IsPrefix(r, q)
  PROVE  Rest(<<f>> \o r, <<f>> \o q) = Rest(r, q)
<1> DEFINE s == Rest(r, q)
           path == <<f>> \o r
<1>1. s \in Path /\ q = r \o s
  BY Split
<1>2. path \in Path /\ <<f>> \in Path
  BY Named
<1>3. path \o s = <<f>> \o q
  <2> HIDE DEF s
  <2> QED BY <1>1, <1>2, ConcatAssociative DEF Path
<1>4. Rest(path, path \o s) = s
  <2> HIDE DEF path, s
  <2> QED BY <1>1, <1>2, Joined
<1> QED BY <1>3, <1>4

LEMMA WrittenBelow ==
  ASSUME NEW v, IsTree(v), NEW f \in STRING, NEW r \in Path, r # <<>>,
         NEW new, DOMAIN new \subseteq Path, CanSet(Member(v, f), r)
  PROVE  WalkKeysAndSet(v, <<f>> \o r, new)
           = WithMember(v, f, WalkKeysAndSet(Member(v, f), r, new))
<1> DEFINE path == <<f>> \o r
           u == Member(v, f)
           w == WalkKeysAndSet(v, path, new)
           b == WalkKeysAndSet(u, r, new)
           x == WithMember(v, f, b)
<1>1. /\ DOMAIN v \subseteq Path /\ <<>> \in DOMAIN v /\ <<>> \in Path
      /\ IsTree(u) /\ DOMAIN u \subseteq Path /\ <<>> \in DOMAIN u
      /\ path \in Path
  BY MemberIs, Named, EmptySeq DEF IsTree, Path
<1>2. /\ <<f>> \in DOMAIN v => \A q \in Path : /\ q \in DOMAIN u <=> <<f>> \o q \in DOMAIN v
                                               /\ q \in DOMAIN u => u[q] = v[<<f>> \o q]
      /\ <<f>> \notin DOMAIN v => /\ DOMAIN u = {<<>>} /\ u[<<>>] = Object
                                  /\ \A q \in Path : <<f>> \o q \notin DOMAIN v
  BY MemberPlaces
<1> HIDE DEF u
<1>3. IsWritten(w, v, path, new) /\ IsWritten(b, u, r, new)
  <2> HIDE DEF path
  <2> QED BY <1>1, PlacesWritten
<1>4. /\ w = [p \in DOMAIN w |-> w[p]] /\ b = [p \in DOMAIN b |-> b[p]]
  BY DEF WalkKeysAndSet
<1> HIDE DEF w, b
<1>5. u[<<>>] \in {Object, Array} /\ <<>> \in Way(r) /\ <<>> \in DOMAIN b /\ b[<<>>] = u[<<>>]
  <2>1. PICK g \in STRING, s \in Path : r = <<g>> \o s
    BY NameFirst
  <2>2. <<>> \in Way(r)
    BY <2>1, WayNamed
  <2>3. 1 \in DOMAIN r /\ SubSeq(r, 1, 1 - 1) = <<>>
    <3>1. Len(r) \in Nat \ {0} /\ DOMAIN r = 1 .. Len(r)
      BY FrontPoints, LenProperties DEF Path
    <3>2. 1 \in Int /\ 1 - 1 \in Int /\ 1 - 1 = 0 /\ \A i \in 1 .. 1 - 1 : r[i] \in STRING
      OBVIOUS
    <3> QED BY <3>1, <3>2, SubSeqProperties, EmptySeq DEF Path
  <2>4. u[<<>>] \in {Object, Array}
    BY <1>1, <2>3 DEF CanSet, u
  <2>5. <<>> \in DOMAIN b /\ b[<<>>] = u[<<>>]
    BY <1>1, <1>3, <2>2 DEF IsWritten
  <2> QED BY <2>2, <2>4, <2>5
<1>6. b # Null
  <2>1. Null[<<>>] = <<"null">>
    BY DEF Null, Leaf
  <2> QED BY <1>5, <2>1 DEF Object, Array
<1>7. DOMAIN b \subseteq Path
  BY <1>3 DEF IsWritten
<1>8. /\ x = [p \in DOMAIN x |-> x[p]]
      /\ DOMAIN x \subseteq Path /\ <<>> \in DOMAIN x /\ x[<<>>] = v[<<>>]
      /\ \A q \in Path :
           /\ <<f>> \o q \in DOMAIN x <=> f \in NamesLeft(v, f, b) /\ q \in DOMAIN b
           /\ <<f>> \o q \in DOMAIN x => x[<<f>> \o q] = b[q]
      /\ \A g \in STRING \ {f}, q \in Path :
           /\ <<g>> \o q \in DOMAIN x <=> <<g>> \o q \in DOMAIN v
           /\ <<g>> \o q \in DOMAIN x => x[<<g>> \o q] = v[<<g>> \o q]
  <2> HIDE DEF x
  <2>1. x = WithMember(v, f, b)
    BY DEF x
  <2> QED BY <1>7, <2>1, WithMemberIs
<1>9. f \in NamesLeft(v, f, b)
  BY <1>6 DEF NamesLeft
<1> HIDE DEF x
<1>10. DOMAIN w \subseteq Path /\ <<>> \in DOMAIN w /\ w[<<>>] = v[<<>>]
  <2>1. <<>> \in Kept(v, path)
    <3>1. ~IsPrefix(path, <<>>)
      BY NamedEqual
    <3> QED BY <1>1, <3>1 DEF Kept, Below
  <2> QED BY <1>3, <2>1 DEF IsWritten
<1>11. ASSUME NEW g \in STRING \ {f}, NEW q \in Path
       PROVE  /\ <<g>> \o q \in DOMAIN w <=> <<g>> \o q \in DOMAIN v
              /\ <<g>> \o q \in DOMAIN w => w[<<g>> \o q] = v[<<g>> \o q]
  <2> DEFINE p == <<g>> \o q
  <2>1. ~IsPrefix(path, p)
    BY NamedEqual
  <2>2. p \notin Way(path)
    BY WayNamed
  <2> HIDE DEF p
  <2>3. p \notin Put(v, path, new)
    BY <1>3, <2>1 DEF IsWritten
  <2>4. p \in Kept(v, path) <=> p \in DOMAIN v
    BY <2>1 DEF Kept, Below
  <2>5. p \in DOMAIN w <=> p \in DOMAIN v
    BY <1>3, <2>2, <2>3, <2>4 DEF IsWritten
  <2>6. p \in DOMAIN v => w[p] = v[p]
    BY <1>3, <2>4 DEF IsWritten
  <2> QED BY <2>5, <2>6 DEF p
<1>12. ASSUME NEW q \in Path
       PROVE  /\ <<f>> \o q \in DOMAIN w <=> q \in DOMAIN b
              /\ <<f>> \o q \in DOMAIN w => w[<<f>> \o q] = b[q]
  <2> DEFINE p == <<f>> \o q
  <2>1. /\ p \in Path /\ (IsPrefix(path, p) <=> IsPrefix(r, q))
    BY Named, NamedEqual
  <2>2. IsPrefix(r, q) => Rest(path, p) = Rest(r, q)
    BY RestNamed
  <2>3. p \in Way(path) <=> q \in Way(r)
    BY WayNamed
  <2>4. p \in Put(v, path, new) <=> q \in Put(u, r, new)
    <3>1. Front(path) = <<f>> \o Front(r) /\ Front(r) \in Path
      <4>1. <<f>> \in Path
        BY Named
      <4> QED BY <4>1, FrontJoined, FrontPoints
    <3>2. (Front(path) \in DOMAIN v => v[Front(path)] = Object)
            <=> (Front(r) \in DOMAIN u => u[Front(r)] = Object)
      BY <1>2, <3>1
    <3>3. p \in Put(v, path, new) <=>
            /\ ~(new = Null /\ (Front(path) \in DOMAIN v => v[Front(path)] = Object))
            /\ IsPrefix(path, p) /\ Rest(path, p) \in DOMAIN new
      <4> HIDE DEF path, p
      <4> QED BY <1>1, <2>1, PutAt
    <3>4. q \in Put(u, r, new) <=>
            /\ ~(new = Null /\ (Front(r) \in DOMAIN u => u[Front(r)] = Object))
            /\ IsPrefix(r, q) /\ Rest(r, q) \in DOMAIN new
      BY PutAt
    <3> HIDE DEF p, path
    <3> QED BY <2>1, <2>2, <3>2, <3>3, <3>4
  <2> HIDE DEF p, path
  <2>5. CASE q \in Put(u, r, new)
    <3>1. p \in DOMAIN w /\ w[p] = new[Rest(path, p)]
      BY <1>3, <2>4, <2>5 DEF IsWritten
    <3>2. q \in DOMAIN b /\ b[q] = new[Rest(r, q)] /\ IsPrefix(r, q)
      BY <1>3, <2>5 DEF IsWritten
    <3> QED BY <2>2, <3>1, <3>2 DEF p
  <2>6. CASE <<f>> \in DOMAIN v /\ q \notin Put(u, r, new)
    <3>1. (q \in DOMAIN u <=> p \in DOMAIN v) /\ (q \in DOMAIN u => u[q] = v[p])
      BY <1>2, <2>6 DEF p
    <3>2. p \in Kept(v, path) <=> q \in Kept(u, r)
      BY <1>1, <2>1, <3>1 DEF Kept, Below
    <3>3. p \in DOMAIN w <=> q \in DOMAIN b
      BY <1>3, <2>3, <2>4, <3>2 DEF IsWritten
    <3>4. CASE q \in Kept(u, r)
      <4>1. w[p] = v[p] /\ b[q] = u[q] /\ q \in DOMAIN u
        BY <1>3, <3>2, <3>4 DEF IsWritten, Kept
      <4> QED BY <3>1, <3>3, <4>1 DEF p
    <3>5. CASE q \in Way(r)
      <4>1. w[p] = (IF p \in DOMAIN v THEN v[p] ELSE Object) /\ b[q] = IF q \in DOMAIN u THEN u[q] ELSE Object
        BY <1>3, <2>3, <3>5 DEF IsWritten
      <4> QED BY <3>1, <3>3, <4>1 DEF p
    <3>6. CASE q \notin DOMAIN b
      BY <3>3, <3>6 DEF p
    <3> QED BY <1>3, <2>6, <3>4, <3>5, <3>6 DEF IsWritten
  <2>7. CASE <<f>> \notin DOMAIN v /\ q \notin Put(u, r, new)
    <3>1. p \notin DOMAIN v /\ p \notin Kept(v, path)
      BY <1>2, <2>7 DEF p, Kept
    <3>2. DOMAIN u = {<<>>} /\ u[<<>>] = Object
      BY <1>2, <2>7
    <3>3. q \in Kept(u, r) => q \in Way(r)
      BY <1>5, <3>2 DEF Kept
    <3>4. p \in DOMAIN w <=> q \in DOMAIN b
      BY <1>3, <2>3, <2>4, <2>7, <3>1, <3>3 DEF IsWritten
    <3>5. CASE q \in Way(r)
      <4>1. w[p] = (IF p \in DOMAIN v THEN v[p] ELSE Object) /\ b[q] = IF q \in DOMAIN u THEN u[q] ELSE Object
        BY <1>3, <2>3, <3>5 DEF IsWritten
      <4> QED BY <3>1, <3>2, <3>4, <4>1 DEF p
    <3>6. CASE q \notin DOMAIN b
      BY <3>4, <3>6 DEF p
    <3> QED BY <1>3, <2>7, <3>3, <3>5, <3>6 DEF IsWritten
  <2> QED BY <2>5, <2>6, <2>7 DEF p
<1>13. ASSUME NEW g \in STRING, NEW q \in Path
       PROVE  /\ <<g>> \o q \in DOMAIN w <=> <<g>> \o q \in DOMAIN x
              /\ <<g>> \o q \in DOMAIN w => w[<<g>> \o q] = x[<<g>> \o q]
  <2>1. CASE g = f
    BY <1>8, <1>9, <1>12, <2>1
  <2>2. CASE g # f
    BY <1>8, <1>11, <2>2
  <2> QED BY <2>1, <2>2
<1>14. w = x
  BY <1>4, <1>8, <1>10, <1>13, SamePlaces
<1> QED BY <1>14 DEF w, x, b, u, path

LEMMA WrittenHere ==
  ASSUME NEW v, IsTree(v), NEW f \in STRING, NEW new, DOMAIN new \subseteq Path
  PROVE  WalkKeysAndSet(v, <<f>>, new) = WithMember(v, f, new)
<1> DEFINE path == <<f>>
           w == WalkKeysAndSet(v, path, new)
           x == WithMember(v, f, new)
<1>1. /\ DOMAIN v \subseteq Path /\ <<>> \in DOMAIN v /\ <<>> \in Path
  BY EmptySeq DEF IsTree, Path
<1>2. path \in Path /\ path = <<f>> \o <<>> /\ path # <<>>
  <2>1. <<f>> \in Seq(STRING) /\ <<f>> # <<>>
    BY <1>1, Named DEF Path
  <2>2. <<f>> \o <<>> = <<f>>
    BY <2>1, ConcatEmptySeq
  <2> QED BY <2>1, <2>2 DEF Path
<1>3. Way(path) = {<<>>} /\ Front(path) = <<>>
  <2>1. Len(path) = 1 /\ DOMAIN path = {1}
    BY DEF path
  <2>2. Front(path) \in Path /\ Len(Front(path)) = 0
    <3> HIDE DEF path
    <3>1. Front(path) \in Path /\ Len(Front(path)) = Len(path) - 1
      BY <1>2, FrontPoints
    <3>2. Len(path) - 1 = 0
      BY <2>1
    <3> QED BY <3>1, <3>2
  <2>3. Front(path) = <<>>
    BY <2>2, EmptySeq DEF Path
  <2> HIDE DEF path
  <2>4. SubSeq(path, 1, 1 - 1) = <<>>
    BY <2>1, <2>3 DEF Front
  <2>5. Way(path) = {SubSeq(path, 1, i - 1) : i \in {1}}
    BY <2>1 DEF Way
  <2>6. \A i \in {1} : SubSeq(path, 1, i - 1) = <<>>
    BY <2>4
  <2>7. Way(path) = {<<>>}
    BY <2>5, <2>6
  <2> QED BY <2>3, <2>7
<1>4. IsWritten(w, v, path, new)
  <2> HIDE DEF path
  <2> QED BY <1>1, <1>2, PlacesWritten
<1>5. w = [p \in DOMAIN w |-> w[p]]
  BY DEF WalkKeysAndSet
<1> HIDE DEF w
<1>6. /\ x = [p \in DOMAIN x |-> x[p]]
      /\ DOMAIN x \subseteq Path /\ <<>> \in DOMAIN x /\ x[<<>>] = v[<<>>]
      /\ \A q \in Path :
           /\ <<f>> \o q \in DOMAIN x <=> f \in NamesLeft(v, f, new) /\ q \in DOMAIN new
           /\ <<f>> \o q \in DOMAIN x => x[<<f>> \o q] = new[q]
      /\ \A g \in STRING \ {f}, q \in Path :
           /\ <<g>> \o q \in DOMAIN x <=> <<g>> \o q \in DOMAIN v
           /\ <<g>> \o q \in DOMAIN x => x[<<g>> \o q] = v[<<g>> \o q]
  <2> HIDE DEF x
  <2>1. x = WithMember(v, f, new)
    BY DEF x
  <2> QED BY <2>1, WithMemberIs
<1> HIDE DEF x
<1>7. f \in NamesLeft(v, f, new) <=> ~(new = Null /\ v[<<>>] = Object)
  BY DEF NamesLeft
<1>8. /\ \A q \in Path : IsPrefix(path, <<f>> \o q)
      /\ \A g \in STRING \ {f}, q \in Path : ~IsPrefix(path, <<g>> \o q)
      /\ ~IsPrefix(path, <<>>)
  <2> HIDE DEF path
  <2>1. \A q \in Path : IsPrefix(<<>>, q)
    BY <1>1, PrefixPointwise, EmptySeq DEF Path
  <2>2. ASSUME NEW g \in STRING, NEW q \in Path
        PROVE  IsPrefix(path, <<g>> \o q) <=> f = g
    <3>1. IsPrefix(<<f>> \o <<>>, <<g>> \o q) <=> f = g /\ IsPrefix(<<>>, q)
      BY <1>1, NamedEqual
    <3> QED BY <1>2, <2>1, <3>1, Zenon
  <2>3. ~IsPrefix(<<f>> \o <<>>, <<>>)
    BY <1>1, NamedEqual
  <2> QED BY <1>2, <2>2, <2>3, Zenon
<1>9. DOMAIN w \subseteq Path /\ <<>> \in DOMAIN w /\ w[<<>>] = v[<<>>]
  <2>1. <<>> \in Kept(v, path)
    BY <1>1, <1>8 DEF Kept, Below
  <2> HIDE DEF path
  <2> QED BY <1>4, <2>1 DEF IsWritten
<1>10. ASSUME NEW g \in STRING \ {f}, NEW q \in Path
       PROVE  /\ <<g>> \o q \in DOMAIN w <=> <<g>> \o q \in DOMAIN v
              /\ <<g>> \o q \in DOMAIN w => w[<<g>> \o q] = v[<<g>> \o q]
  <2> DEFINE p == <<g>> \o q
  <2>1. p \in Path /\ p # <<>> /\ ~IsPrefix(path, p)
    BY <1>8, Named
  <2> HIDE DEF p, path
  <2>2. p \notin Put(v, path, new) /\ p \notin Way(path)
    BY <1>3, <1>4, <2>1 DEF IsWritten
  <2>3. p \in Kept(v, path) <=> p \in DOMAIN v
    BY <2>1 DEF Kept, Below
  <2>4. p \in DOMAIN w <=> p \in DOMAIN v
    BY <1>4, <2>2, <2>3 DEF IsWritten
  <2>5. p \in DOMAIN v => w[p] = v[p]
    BY <1>4, <2>3 DEF IsWritten
  <2> QED BY <2>4, <2>5 DEF p
<1>11. ASSUME NEW q \in Path
       PROVE  /\ <<f>> \o q \in DOMAIN w <=> f \in NamesLeft(v, f, new) /\ q \in DOMAIN new
              /\ <<f>> \o q \in DOMAIN w => w[<<f>> \o q] = new[q]
  <2> DEFINE p == <<f>> \o q
  <2>1. p \in Path /\ p # <<>> /\ IsPrefix(path, p) /\ Rest(path, p) = q
    <3>1. p \in Path /\ p # <<>>
      BY Named
    <3>2. Rest(path, path \o q) = q
      <4> HIDE DEF path
      <4> QED BY <1>2, Joined
    <3> QED BY <1>8, <3>1, <3>2
  <2> HIDE DEF p, path
  <2>2. p \notin Kept(v, path) /\ p \notin Way(path)
    BY <1>3, <1>4, <2>1 DEF IsWritten
  <2>3. p \in Put(v, path, new) <=> ~(new = Null /\ v[<<>>] = Object) /\ q \in DOMAIN new
    BY <1>1, <1>2, <1>3, <2>1, PutAt
  <2>4. p \in DOMAIN w <=> p \in Put(v, path, new)
    BY <1>4, <2>2 DEF IsWritten
  <2>5. p \in Put(v, path, new) => w[p] = new[q]
    BY <1>4, <2>1 DEF IsWritten
  <2> QED BY <1>7, <2>3, <2>4, <2>5 DEF p
<1>12. ASSUME NEW g \in STRING, NEW q \in Path
       PROVE  /\ <<g>> \o q \in DOMAIN w <=> <<g>> \o q \in DOMAIN x
              /\ <<g>> \o q \in DOMAIN w => w[<<g>> \o q] = x[<<g>> \o q]
  <2>1. CASE g = f
    BY <1>6, <1>11, <2>1
  <2>2. CASE g # f
    BY <1>6, <1>10, <2>2
  <2> QED BY <2>1, <2>2
<1>13. w = x
  BY <1>5, <1>6, <1>9, <1>12, SamePlaces
<1> QED BY <1>13 DEF w, x, path

(* A write is possible when the first name may be entered and the rest of    *)
(* the write is possible behind it.                                          *)
MayPass(v, path, i) ==
  LET at == SubSeq(path, 1, i - 1)
  IN  at \in DOMAIN v => \/ v[at] = Object
                         \/ v[at] = Array /\ SubSeq(path, 1, i) \in DOMAIN v

LEMMA CanSetNamed ==
  ASSUME NEW v, IsTree(v), NEW f \in STRING, NEW r \in Path
  PROVE  CanSet(v, <<f>> \o r) <=> CanEnter(v, f) /\ CanSet(Member(v, f), r)
<1> DEFINE path == <<f>> \o r
           u == Member(v, f)
<1>1. /\ <<>> \in DOMAIN v /\ <<>> \in Path /\ path \in Path /\ Len(path) = Len(r) + 1
      /\ Len(r) \in Nat /\ DOMAIN path = 1 .. Len(r) + 1 /\ DOMAIN r = 1 .. Len(r)
  <2>1. path \in Path /\ Len(path) = Len(r) + 1
    BY Named
  <2> HIDE DEF path
  <2> QED BY <2>1, LenProperties, EmptySeq DEF Path, IsTree
<1>2. /\ <<f>> \in DOMAIN v => \A q \in Path : /\ q \in DOMAIN u <=> <<f>> \o q \in DOMAIN v
                                               /\ q \in DOMAIN u => u[q] = v[<<f>> \o q]
      /\ <<f>> \notin DOMAIN v => /\ DOMAIN u = {<<>>} /\ u[<<>>] = Object
                                  /\ \A q \in Path : <<f>> \o q \notin DOMAIN v
  BY MemberPlaces
<1>3. \A j \in 0 .. Len(r) : SubSeq(r, 1, j) \in Path /\ SubSeq(path, 1, j + 1) = <<f>> \o SubSeq(r, 1, j)
  BY BeginsNamed
<1>4. MayPass(v, path, 1) <=> CanEnter(v, f)
  <2>1. SubSeq(path, 1, 1) = <<f>>
    <3>1. 0 \in 0 .. Len(r) /\ 0 + 1 = 1
      BY <1>1
    <3>2. SubSeq(r, 1, 0) = <<>>
      <4>1. 1 \in Int /\ 0 \in Int /\ \A i \in 1 .. 0 : r[i] \in STRING
        OBVIOUS
      <4> QED BY <4>1, SubSeqProperties, EmptySeq DEF Path
    <3>3. <<f>> \in Seq(STRING)
      BY <1>1, Named DEF Path
    <3>4. <<f>> \o <<>> = <<f>>
      BY <3>3, ConcatEmptySeq
    <3> HIDE DEF path
    <3> QED BY <1>3, <3>1, <3>2, <3>4
  <2>2. SubSeq(path, 1, 1 - 1) = <<>>
    <3> HIDE DEF path
    <3>1. 1 \in Int /\ 1 - 1 \in Int /\ 1 - 1 = 0 /\ \A i \in 1 .. 1 - 1 : path[i] \in STRING
      OBVIOUS
    <3> QED BY <1>1, <3>1, SubSeqProperties, EmptySeq DEF Path
  <2>3. f \in DOMAIN Members(v) <=> <<f>> \in DOMAIN v
    BY MembersAre
  <2>4. Object # Array
    BY DEF Object, Array
  <2>5. CanEnter(v, f) <=> (v[<<>>] = Object \/ (v[<<>>] = Array /\ <<f>> \in DOMAIN v))
    BY <2>3, <2>4, Zenon DEF CanEnter, IsDoc
  <2>6. MayPass(v, path, 1)
          <=> (<<>> \in DOMAIN v => v[<<>>] = Object \/ (v[<<>>] = Array /\ <<f>> \in DOMAIN v))
    <3> HIDE DEF path
    <3> QED BY ONLY <2>1, <2>2, Zenon DEF MayPass
  <2> HIDE DEF path
  <2> QED BY <1>1, <2>5, <2>6, Zenon
<1>5. ASSUME NEW j \in 1 .. Len(r)
      PROVE  MayPass(v, path, j + 1) <=> MayPass(u, r, j)
  <2> DEFINE s == SubSeq(r, 1, j - 1)
             t == SubSeq(r, 1, j)
  <2>1. /\ s \in Path /\ t \in Path /\ SubSeq(path, 1, (j + 1) - 1) = <<f>> \o s
        /\ SubSeq(path, 1, j + 1) = <<f>> \o t
    <3>1. j - 1 \in 0 .. Len(r) /\ j \in 0 .. Len(r) /\ (j + 1) - 1 = (j - 1) + 1
      BY <1>1
    <3> HIDE DEF path
    <3> QED BY <1>3, <3>1
  <2>2. MayPass(u, r, j) <=> (s \in DOMAIN u => u[s] = Object \/ (u[s] = Array /\ t \in DOMAIN u))
    BY DEF MayPass
  <2>3. MayPass(v, path, j + 1) <=>
          (<<f>> \o s \in DOMAIN v =>
             v[<<f>> \o s] = Object \/ (v[<<f>> \o s] = Array /\ <<f>> \o t \in DOMAIN v))
    <3> HIDE DEF path, s, t
    <3> QED BY <2>1 DEF MayPass
  <2> HIDE DEF path, u, s, t
  <2>4. CASE <<f>> \in DOMAIN v
    BY <1>2, <2>1, <2>2, <2>3, <2>4
  <2>5. CASE <<f>> \notin DOMAIN v
    BY <1>2, <2>1, <2>2, <2>3, <2>5
  <2> QED BY <2>4, <2>5
<1>6. CanSet(v, path) <=> \A i \in 1 .. Len(r) + 1 : MayPass(v, path, i)
  <2> HIDE DEF path
  <2> QED BY <1>1 DEF CanSet, MayPass
<1>7. CanSet(u, r) <=> \A j \in 1 .. Len(r) : MayPass(u, r, j)
  <2> HIDE DEF u
  <2> QED BY <1>1 DEF CanSet, MayPass
<1> HIDE DEF path, u
<1>8. ASSUME NEW i \in 1 .. Len(r) + 1
      PROVE  i = 1 \/ \E j \in 1 .. Len(r) : i = j + 1
  <2>1. i # 1 => i - 1 \in 1 .. Len(r) /\ i = (i - 1) + 1
    BY <1>1
  <2> QED BY <2>1
<1>9. 1 \in 1 .. Len(r) + 1 /\ \A j \in 1 .. Len(r) : j + 1 \in 1 .. Len(r) + 1
  BY <1>1
<1>10. CanSet(v, path) <=> CanEnter(v, f) /\ CanSet(u, r)
  BY <1>4, <1>5, <1>6, <1>7, <1>8, <1>9
<1> QED BY <1>10 DEF path, u

(* A step of the walk: what lies below the first name has been written.      *)
LEMMA OneStep ==
  ASSUME NEW v, IsTree(v), NEW f \in STRING, NEW r \in Path, NEW new, DOMAIN new \subseteq Path,
         NEW below, below = IF r = <<>> THEN {new}
                            ELSE IF CanSet(Member(v, f), r)
                            THEN {WalkKeysAndSet(Member(v, f), r, new)} ELSE {}
  PROVE  (IF CanEnter(v, f) THEN {WithMember(v, f, b) : b \in below} ELSE {})
           = IF CanSet(v, <<f>> \o r) THEN {WalkKeysAndSet(v, <<f>> \o r, new)} ELSE {}
<1> DEFINE path == <<f>> \o r
           u == Member(v, f)
<1>1. CanSet(v, path) <=> CanEnter(v, f) /\ CanSet(u, r)
  BY CanSetNamed
<1>2. CASE r = <<>>
  <2>1. CanSet(u, r)
    BY <1>2, EmptySeq DEF CanSet
  <2>2. path = <<f>>
    BY <1>2, Named, ConcatEmptySeq DEF Path
  <2>3. WalkKeysAndSet(v, path, new) = WithMember(v, f, new)
    BY <2>2, WrittenHere
  <2>4. {WithMember(v, f, b) : b \in below} = {WithMember(v, f, new)}
    BY <1>2
  <2> HIDE DEF path, u
  <2> QED BY <1>1, <2>1, <2>3, <2>4 DEF path
<1>3. CASE r # <<>> /\ CanSet(u, r)
  <2> DEFINE b0 == WalkKeysAndSet(u, r, new)
  <2>1. WalkKeysAndSet(v, path, new) = WithMember(v, f, b0)
    BY <1>3, WrittenBelow
  <2>2. {WithMember(v, f, b) : b \in below} = {WithMember(v, f, b0)}
    BY <1>3
  <2> HIDE DEF path, u, b0
  <2> QED BY <1>1, <1>3, <2>1, <2>2 DEF path
<1>4. CASE r # <<>> /\ ~CanSet(u, r)
  <2>1. {WithMember(v, f, b) : b \in below} = {}
    BY <1>4
  <2> HIDE DEF path, u
  <2> QED BY <1>1, <1>4, <2>1 DEF path
<1> QED BY <1>2, <1>3, <1>4

(* The names of a path from one of them on.                                  *)
LEMMA FromName ==
  ASSUME NEW path \in Path, NEW i \in 1 .. Len(path)
  PROVE  /\ path[i] \in STRING
         /\ SubSeq(path, i + 1, Len(path)) \in Path
         /\ SubSeq(path, i, Len(path)) = <<path[i]>> \o SubSeq(path, i + 1, Len(path))
         /\ SubSeq(path, i + 1, Len(path)) = <<>> <=> i = Len(path)
<1> DEFINE n == Len(path)
           r == SubSeq(path, i + 1, n)
           s == SubSeq(path, i, n)
<1>1. n \in Nat /\ i \in Int /\ i + 1 \in Int /\ \A j \in 1 .. n : path[j] \in STRING
  BY LenProperties, ElementOfSeq DEF Path
<1>2. /\ r \in Path /\ Len(r) = n - i
      /\ \A j \in 1 .. n - i : r[j] = path[i + j]
  <2>1. \A j \in i + 1 .. n : path[j] \in STRING
    BY <1>1
  <2>2. /\ r \in Seq(STRING) /\ Len(r) = IF i + 1 <= n THEN n - (i + 1) + 1 ELSE 0
        /\ \A j \in 1 .. n - (i + 1) + 1 : r[j] = path[(i + 1) + j - 1]
    BY <1>1, <2>1, SubSeqProperties
  <2>3. n - (i + 1) + 1 = n - i /\ (i + 1 <= n \/ n - i = 0)
    BY <1>1
  <2>4. \A j \in 1 .. n - i : (i + 1) + j - 1 = i + j
    BY <1>1
  <2> QED BY <2>2, <2>3, <2>4 DEF Path
<1>3. /\ s \in Path /\ Len(s) = n - i + 1
      /\ \A j \in 1 .. n - i + 1 : s[j] = path[i + j - 1]
  <2>1. \A j \in i .. n : path[j] \in STRING
    BY <1>1
  <2>2. i <= n
    BY <1>1
  <2> QED BY <1>1, <2>1, <2>2, SubSeqProperties DEF Path
<1> HIDE DEF r, s
<1> DEFINE t == <<path[i]>> \o r
<1>4. /\ t \in Path /\ Len(t) = Len(r) + 1 /\ t[1] = path[i]
      /\ \A j \in 1 .. Len(r) : t[j + 1] = r[j]
  <2>1. path[i] \in STRING /\ r \in Path
    BY <1>1, <1>2
  <2>2. t \in Path /\ Len(t) = Len(r) + 1 /\ t[1] = path[i]
    BY <2>1, Named
  <2>3. \A j \in 1 .. Len(r) : t[j + 1] = r[j]
    BY <2>1, Named
  <2> QED BY <2>2, <2>3, Zenon
<1> HIDE DEF t
<1>5. ASSUME NEW j \in 1 .. n - i + 1
      PROVE  s[j] = t[j]
  <2>1. CASE j = 1
    <3>1. i + 1 - 1 = i /\ 1 \in 1 .. n - i + 1
      BY <1>1
    <3> QED BY <1>3, <1>4, <2>1, <3>1
  <2>2. CASE j # 1
    <3>1. j - 1 \in 1 .. n - i /\ (j - 1) + 1 = j /\ i + (j - 1) = i + j - 1
      BY <1>1, <2>2
    <3> QED BY <1>2, <1>3, <1>4, <3>1
  <2> QED BY <2>1, <2>2
<1>6. s = t
  BY <1>2, <1>3, <1>4, <1>5, SeqEqual DEF Path
<1>7. r = <<>> <=> i = n
  BY <1>1, <1>2, EmptySeq DEF Path
<1> QED BY <1>1, <1>2, <1>6, <1>7 DEF r, s, t

(* The values reached are trees: every member of a tree is one.              *)
LEMMA ReachedTrees ==
  ASSUME NEW v, IsTree(v), NEW path \in Path,
         NEW at, \A i \in 1 .. Len(path) : at[i] = IF i > 1 THEN Member(at[i - 1], path[i - 1]) ELSE v
  PROVE  \A i \in 1 .. Len(path) : IsTree(at[i])
<1> DEFINE Bad == {i \in 1 .. Len(path) : ~IsTree(at[i])}
<1>1. Len(path) \in Nat /\ \A i \in 1 .. Len(path) : path[i] \in STRING
  BY LenProperties, ElementOfSeq DEF Path
<1>2. SUFFICES ASSUME Bad # {} PROVE FALSE
  OBVIOUS
<1>3. Bad \subseteq Nat
  BY <1>1
<1>4. PICK n \in Bad : \A k \in Bad : n <= k
  <2> HIDE DEF Bad
  <2> QED BY <1>2, <1>3, Least
<1>5. n \in 1 .. Len(path) /\ ~IsTree(at[n])
  BY <1>4
<1>6. CASE n > 1
  <2>1. n - 1 \in 1 .. Len(path) /\ n - 1 < n
    BY <1>1, <1>5, <1>6
  <2>2. n - 1 \notin Bad
    <3> HIDE DEF Bad
    <3> QED BY <1>3, <1>4, <2>1
  <2>3. IsTree(at[n - 1])
    BY <2>1, <2>2
  <2>4. at[n] = Member(at[n - 1], path[n - 1])
    BY <1>5, <1>6
  <2> QED BY <1>1, <1>5, <2>1, <2>3, <2>4, MemberIs
<1>7. CASE ~(n > 1)
  BY <1>5, <1>7
<1> QED BY <1>6, <1>7

(* What the walk makes of the value reached at a name, with the names left.  *)
MadeOf(u, path, i, new) ==
  LET left == SubSeq(path, i, Len(path))
  IN  IF CanSet(u, left) THEN {WalkKeysAndSet(u, left, new)} ELSE {}

LEMMA MadeStep ==
  ASSUME NEW u, IsTree(u), NEW path \in Path, NEW i \in 1 .. Len(path),
         NEW new, DOMAIN new \subseteq Path
  PROVE  MadeOf(u, path, i, new)
           = IF CanEnter(u, path[i])
             THEN {WithMember(u, path[i], below) :
                     below \in IF i < Len(path) THEN MadeOf(Member(u, path[i]), path, i + 1, new)
                               ELSE {new}}
             ELSE {}
<1> DEFINE n == Len(path)
           f == path[i]
           r == SubSeq(path, i + 1, n)
           m == Member(u, f)
           below == IF i < n THEN MadeOf(m, path, i + 1, new) ELSE {new}
<1>1. n \in Nat /\ i \in 1 .. n
  BY LenProperties DEF Path
<1>2. /\ f \in STRING /\ r \in Path /\ SubSeq(path, i, n) = <<f>> \o r
      /\ r = <<>> <=> i = n
  BY FromName
<1>3. MadeOf(m, path, i + 1, new) = IF CanSet(m, r) THEN {WalkKeysAndSet(m, r, new)} ELSE {}
  BY DEF MadeOf
<1>4. MadeOf(u, path, i, new)
        = IF CanSet(u, <<f>> \o r) THEN {WalkKeysAndSet(u, <<f>> \o r, new)} ELSE {}
  BY <1>2 DEF MadeOf
<1>5. below = IF r = <<>> THEN {new}
              ELSE IF CanSet(m, r) THEN {WalkKeysAndSet(m, r, new)} ELSE {}
  <2>1. i < n <=> r # <<>>
    <3> HIDE DEF n, r, f
    <3> QED BY <1>1, <1>2
  <2> HIDE DEF n, r, m
  <2> QED BY <1>3, <2>1
<1> HIDE DEF n, r, f, below
<1>6. (IF CanEnter(u, f) THEN {WithMember(u, f, b) : b \in below} ELSE {})
        = IF CanSet(u, <<f>> \o r) THEN {WalkKeysAndSet(u, <<f>> \o r, new)} ELSE {}
  BY <1>2, <1>5, OneStep DEF m
<1> QED BY <1>4, <1>6 DEF f, below, n

(* It makes that of each of them, back up from the last name.                *)
MadeUp(made, at, path, new) ==
  \A i \in 1 .. Len(path) :
    made[i] = IF CanEnter(at[i], path[i])
              THEN {WithMember(at[i], path[i], below) :
                      below \in IF i < Len(path) THEN made[i + 1] ELSE {new}}
              ELSE {}

LEMMA MadeIs ==
  ASSUME NEW path \in Path, NEW new, DOMAIN new \subseteq Path,
         NEW at, \A i \in 1 .. Len(path) : IsTree(at[i]),
         \A i \in 1 .. Len(path) : i < Len(path) => at[i + 1] = Member(at[i], path[i]),
         NEW made, MadeUp(made, at, path, new),
         NEW i \in 1 .. Len(path)
  PROVE  made[i] = MadeOf(at[i], path, i, new)
<1> DEFINE n == Len(path)
           Right(j) == made[j] = MadeOf(at[j], path, j, new)
           Bad == {k \in 0 .. n - 1 : ~Right(n - k)}
<1>1. n \in Nat
  BY LenProperties DEF Path
<1>2. ASSUME NEW j \in 1 .. n, j < n => Right(j + 1)
      PROVE  Right(j)
  <2> DEFINE u == at[j]
             f == path[j]
             down == IF j < n THEN made[j + 1] ELSE {new}
             meant == IF j < n THEN MadeOf(Member(u, f), path, j + 1, new) ELSE {new}
  <2>1. made[j] = IF CanEnter(u, f) THEN {WithMember(u, f, below) : below \in down} ELSE {}
    BY Zenon DEF MadeUp
  <2>2. MadeOf(u, path, j, new) = IF CanEnter(u, f) THEN {WithMember(u, f, below) : below \in meant} ELSE {}
    <3>1. IsTree(u) /\ j \in 1 .. Len(path)
      OBVIOUS
    <3> HIDE DEF u
    <3> QED BY <3>1, MadeStep
  <2>3. down = meant
    BY <1>2
  <2> HIDE DEF down, meant, n, f
  <2> QED BY <2>1, <2>2, <2>3
<1>3. SUFFICES ASSUME ~Right(i) PROVE FALSE
  OBVIOUS
<1>4. Bad \subseteq Nat /\ n - i \in Bad
  <2>1. n - i \in 0 .. n - 1 /\ n - (n - i) = i
    BY <1>1
  <2> HIDE DEF Right, n
  <2> QED BY <1>1, <1>3, <2>1
<1>5. PICK k \in Bad : \A l \in Bad : k <= l
  <2> HIDE DEF Bad
  <2> QED BY <1>4, Least
<1> DEFINE j == n - k
<1>6. j \in 1 .. n /\ ~Right(j)
  BY <1>1, <1>5
<1>7. j < n /\ ~Right(j + 1)
  <2> HIDE DEF Right
  <2> QED BY <1>2, <1>6
<1>8. k - 1 \in 0 .. n - 1 /\ n - (k - 1) = j + 1
  BY <1>1, <1>5, <1>6, <1>7
<1>9. k - 1 \in Bad
  <2> HIDE DEF Right
  <2> QED BY <1>7, <1>8
<1> HIDE DEF Bad, Right, j
<1> QED BY <1>4, <1>5, <1>9

(* The names up to one, and that one; what the last of them is left out of.  *)
LEMMA BeginsOn ==
  ASSUME NEW path \in Path, NEW k \in 1 .. Len(path)
  PROVE  /\ path[k] \in STRING /\ SubSeq(path, 1, k - 1) \in Path /\ SubSeq(path, 1, k) \in Path
         /\ SubSeq(path, 1, k) = SubSeq(path, 1, k - 1) \o <<path[k]>>
<1> DEFINE a == SubSeq(path, 1, k - 1)
           b == SubSeq(path, 1, k)
           c == <<path[k]>>
<1>1. Len(path) \in Nat /\ k \in Int /\ k >= 1 /\ \A j \in 1 .. Len(path) : path[j] \in STRING
  BY LenProperties, ElementOfSeq DEF Path
<1>2. a \in Path /\ Len(a) = k - 1 /\ \A j \in 1 .. k - 1 : a[j] = path[j]
  <2>1. \A j \in 1 .. k - 1 : path[j] \in STRING
    BY <1>1
  <2>2. /\ a \in Seq(STRING) /\ Len(a) = IF 1 <= k - 1 THEN (k - 1) - 1 + 1 ELSE 0
        /\ \A j \in 1 .. (k - 1) - 1 + 1 : a[j] = path[1 + j - 1]
    BY <1>1, <2>1, SubSeqProperties
  <2>3. (k - 1) - 1 + 1 = k - 1 /\ (1 <= k - 1 \/ k - 1 = 0) /\ \A j \in 1 .. k - 1 : 1 + j - 1 = j
    BY <1>1
  <2> QED BY <2>2, <2>3 DEF Path
<1>3. b \in Path /\ Len(b) = k /\ \A j \in 1 .. k : b[j] = path[j]
  <2>1. \A j \in 1 .. k : path[j] \in STRING
    BY <1>1
  <2>2. /\ b \in Seq(STRING) /\ Len(b) = IF 1 <= k THEN k - 1 + 1 ELSE 0
        /\ \A j \in 1 .. k - 1 + 1 : b[j] = path[1 + j - 1]
    BY <1>1, <2>1, SubSeqProperties
  <2>3. k - 1 + 1 = k /\ \A j \in 1 .. k : 1 + j - 1 = j
    BY <1>1
  <2> QED BY <1>1, <2>2, <2>3 DEF Path
<1>4. c \in Path /\ Len(c) = 1 /\ c[1] = path[k]
  BY <1>1 DEF Path
<1> HIDE DEF a, b, c
<1> DEFINE d == a \o c
<1>5. /\ d \in Path /\ Len(d) = (k - 1) + 1
      /\ \A j \in 1 .. (k - 1) + 1 : d[j] = IF j <= k - 1 THEN a[j] ELSE c[j - (k - 1)]
  <2>1. /\ d \in Path /\ Len(d) = Len(a) + Len(c)
        /\ \A j \in 1 .. Len(a) + Len(c) : d[j] = IF j <= Len(a) THEN a[j] ELSE c[j - Len(a)]
    BY <1>2, <1>4, ConcatProperties DEF Path
  <2>2. Len(a) + Len(c) = (k - 1) + 1
    BY <1>1, <1>2, <1>4
  <2> HIDE DEF d
  <2> QED BY <1>2, <2>1, <2>2
<1> HIDE DEF d
<1>6. ASSUME NEW j \in 1 .. k
      PROVE  b[j] = d[j]
  <2>1. CASE j = k
    <3>1. ~(j <= k - 1) /\ j - (k - 1) = 1 /\ j \in 1 .. (k - 1) + 1
      BY <1>1, <2>1
    <3> QED BY <1>3, <1>4, <1>5, <2>1, <3>1
  <2>2. CASE j # k
    <3>1. j <= k - 1 /\ j \in 1 .. k - 1 /\ j \in 1 .. (k - 1) + 1
      BY <1>1, <2>2
    <3> QED BY <1>2, <1>3, <1>5, <3>1
  <2> QED BY <2>1, <2>2
<1>7. Len(d) = k
  BY <1>1, <1>5
<1>8. b = d
  BY <1>3, <1>5, <1>6, <1>7, SeqEqual DEF Path
<1> QED BY <1>1, <1>2, <1>3, <1>8 DEF a, b, c, d

LEMMA FrontNamed ==
  ASSUME NEW a \in Path, NEW f \in STRING
  PROVE  a \o <<f>> # <<>> /\ Front(a \o <<f>>) = a
<1>1. <<f>> \in Path /\ <<f>> # <<>> /\ Len(<<f>>) = 1
  <2>1. <<f>> # <<>> /\ Len(<<f>>) = 1
    OBVIOUS
  <2>2. <<f>> \in Path
    BY Named, Zenon
  <2> QED BY <2>1, <2>2
<1>2. Front(<<f>>) = <<>>
  <2>1. Front(<<f>>) \in Path /\ Len(Front(<<f>>)) = Len(<<f>>) - 1
    BY <1>1, FrontPoints
  <2>2. Len(Front(<<f>>)) = 0
    BY <1>1, <2>1
  <2> QED BY <2>1, <2>2, EmptySeq DEF Path
<1>3. a \o <<>> = a
  BY ConcatEmptySeq DEF Path
<1>4. a \o <<f>> # <<>> /\ Front(a \o <<f>>) = a \o Front(<<f>>)
  BY <1>1, FrontJoined
<1> QED BY <1>2, <1>3, <1>4, Zenon

(* What is at the names before one, or the empty object the walk makes up.   *)
Reached(v, path, i) ==
  LET a == SubSeq(path, 1, i - 1)
  IN  IF i = 1 THEN v ELSE IF a \in DOMAIN v THEN WalkKeys(v, a) ELSE EmptyObj

LEMMA ReachedNext ==
  ASSUME NEW v, IsTree(v), NEW path \in Path, NEW i \in 1 .. Len(path), i > 1
  PROVE  Reached(v, path, i) = Member(Reached(v, path, i - 1), path[i - 1])
<1> DEFINE f == path[i - 1]
           a == SubSeq(path, 1, (i - 1) - 1)
           b == SubSeq(path, 1, i - 1)
<1>1. Len(path) \in Nat /\ i \in Int /\ \A j \in 1 .. Len(path) : path[j] \in STRING
  BY LenProperties, ElementOfSeq DEF Path
<1>2. f \in STRING /\ a \in Path /\ b \in Path /\ b = a \o <<f>>
  <2>1. i - 1 \in 1 .. Len(path)
    BY <1>1
  <2> QED BY <2>1, BeginsOn
<1>3. <<f>> \in Path
  BY <1>2, Named
<1> HIDE DEF a, b, f
<1>4. Reached(v, path, i) = IF b \in DOMAIN v THEN WalkKeys(v, b) ELSE EmptyObj
  BY <1>1 DEF Reached, b
<1>5. CASE i - 1 = 1
  <2>1. Reached(v, path, i - 1) = v
    BY <1>5 DEF Reached
  <2>2. b = <<f>>
    <3>1. (i - 1) - 1 = 0 /\ 1 \in Int /\ 0 \in Int
      BY <1>5
    <3>2. SubSeq(path, 1, 0) = <<>>
      <4>1. \A j \in 1 .. 0 : path[j] \in STRING
        OBVIOUS
      <4> QED BY <4>1, SubSeqProperties, EmptySeq DEF Path
    <3>3. <<>> \o <<f>> = <<f>>
      BY <1>3, ConcatEmptySeq DEF Path
    <3> QED BY <1>2, <3>1, <3>2, <3>3 DEF a
  <2>3. Member(v, f) = IF b \in DOMAIN v THEN WalkKeys(v, b) ELSE EmptyObj
    BY <1>2, <2>2, MemberIs
  <2> QED BY <1>4, <2>1, <2>3 DEF f
<1>6. CASE i - 1 # 1
  <2>1. Reached(v, path, i - 1) = IF a \in DOMAIN v THEN WalkKeys(v, a) ELSE EmptyObj
    BY <1>6 DEF Reached, a
  <2>2. CASE a \in DOMAIN v
    <3> DEFINE u == WalkKeys(v, a)
    <3>1. IsTree(u) /\ DOMAIN u = {q \in Path : a \o q \in DOMAIN v}
      BY <2>2, WalkedTo
    <3>2. <<f>> \in DOMAIN u <=> b \in DOMAIN v
      BY <1>2, <1>3, <3>1
    <3>3. WalkKeys(u, <<f>>) = WalkKeys(v, b)
      BY <1>2, <1>3, <2>2, WalkedOn
    <3> HIDE DEF u
    <3>4. Member(u, f) = IF b \in DOMAIN v THEN WalkKeys(v, b) ELSE EmptyObj
      BY <1>2, <3>1, <3>2, <3>3, MemberIs
    <3> QED BY <1>4, <2>1, <2>2, <3>4 DEF f, u
  <2>3. CASE a \notin DOMAIN v
    <3>1. b \notin DOMAIN v
      <4>1. b # <<>> /\ Front(b) = a
        BY <1>2, FrontNamed
      <4> QED BY <2>3, <4>1 DEF IsTree
    <3>2. IsTree(EmptyObj) /\ <<f>> \notin DOMAIN EmptyObj
      <4>1. <<f>> # <<>> /\ DOMAIN EmptyObj = {<<>>}
        BY DEF EmptyObj, Leaf
      <4> QED BY <4>1, Leaves
    <3>3. Member(EmptyObj, f) = EmptyObj
      BY <1>2, <3>2, MemberIs
    <3> QED BY <1>4, <2>1, <2>3, <3>1, <3>3 DEF f
  <2> QED BY <2>2, <2>3
<1> QED BY <1>5, <1>6

(* The walk writes what the definition of Documents says, or nothing.        *)
LEMMA WalkedIs ==
  ASSUME NEW v, IsTree(v), NEW path \in Path, path # <<>>, NEW new, DOMAIN new \subseteq Path
  PROVE  Walked(v, path, new)
           = IF CanSet(v, path) THEN {WalkKeysAndSet(v, path, new)} ELSE {}
<1> DEFINE n == Len(path)
           At(f) == [i \in 1 .. n |-> IF i > 1 THEN Member(f[i - 1], path[i - 1]) ELSE v]
           at == CHOOSE f : f = At(f)
           Made(f) == [i \in 1 .. n |->
                         IF CanEnter(at[i], path[i])
                         THEN {WithMember(at[i], path[i], below) :
                                 below \in IF i < n THEN f[i + 1] ELSE {new}}
                         ELSE {}]
           made == CHOOSE f : f = Made(f)
<1>1. Walked(v, path, new) = made[1]
  BY DEF Walked
<1>2. n \in Nat /\ 1 \in 1 .. n
  BY LenProperties, EmptySeq DEF Path
<1>3. at = At(at)
  <2> DEFINE F == [i \in 1 .. n |-> Reached(v, path, i)]
  <2>1. ASSUME NEW i \in 1 .. n
        PROVE  F[i] = IF i > 1 THEN Member(F[i - 1], path[i - 1]) ELSE v
    <3>1. CASE i > 1
      <4>1. i - 1 \in 1 .. n
        BY <1>2, <3>1
      <4>2. Reached(v, path, i) = Member(Reached(v, path, i - 1), path[i - 1])
        BY <3>1, ReachedNext
      <4> QED BY <3>1, <4>1, <4>2
    <3>2. CASE ~(i > 1)
      <4>1. i = 1
        BY <1>2, <3>2
      <4> QED BY <3>2, <4>1 DEF Reached
    <3> QED BY <3>1, <3>2
  <2>2. F = At(F)
    BY <2>1, Zenon
  <2>3. \E f : f = At(f)
    BY <2>2, Zenon
  <2> HIDE DEF At
  <2> QED BY <2>3, Zenon
<1> HIDE DEF at
<1>4. \A i \in 1 .. n : at[i] = IF i > 1 THEN Member(at[i - 1], path[i - 1]) ELSE v
  BY <1>3, Zenon
<1>5. \A i \in 1 .. n : IsTree(at[i])
  <2> HIDE DEF At
  <2> QED BY <1>4, ReachedTrees
<1>6. ASSUME NEW i \in 1 .. n, i < n
      PROVE  at[i + 1] = Member(at[i], path[i])
  <2>1. i + 1 \in 1 .. n /\ i + 1 > 1 /\ (i + 1) - 1 = i
    BY <1>2, <1>6
  <2> HIDE DEF n, At
  <2> QED BY <1>4, <2>1
<1>7. made = Made(made)
  <2> DEFINE F == [i \in 1 .. n |-> MadeOf(at[i], path, i, new)]
  <2>1. ASSUME NEW i \in 1 .. n
        PROVE  F[i] = IF CanEnter(at[i], path[i])
                      THEN {WithMember(at[i], path[i], below) :
                              below \in IF i < n THEN F[i + 1] ELSE {new}}
                      ELSE {}
    <3> DEFINE down == IF i < n THEN F[i + 1] ELSE {new}
               meant == IF i < n THEN MadeOf(Member(at[i], path[i]), path, i + 1, new) ELSE {new}
    <3>1. i < n => i + 1 \in 1 .. n
      BY <1>2
    <3>2. down = meant
      <4> HIDE DEF n
      <4> QED BY <1>6, <3>1
    <3>3. MadeOf(at[i], path, i, new)
            = IF CanEnter(at[i], path[i])
              THEN {WithMember(at[i], path[i], below) : below \in meant} ELSE {}
      BY <1>5, MadeStep
    <3> HIDE DEF meant
    <3> QED BY <3>2, <3>3, Zenon
  <2>2. F = Made(F)
    BY <2>1, Zenon
  <2>3. \E f : f = Made(f)
    BY <2>2, Zenon
  <2> HIDE DEF Made
  <2> QED BY <2>3, Zenon
<1> HIDE DEF made
<1>8. MadeUp(made, at, path, new)
  BY <1>7, Zenon DEF MadeUp
<1> HIDE DEF At, Made
<1>9. made[1] = MadeOf(at[1], path, 1, new)
  <2>1. \A i \in 1 .. n : i < n => at[i + 1] = Member(at[i], path[i])
    BY <1>6
  <2> QED BY <1>2, <1>5, <1>8, <2>1, MadeIs
<1>10. at[1] = v
  BY <1>2, <1>4
<1>11. SubSeq(path, 1, n) = path
  BY SubSeqFull DEF Path
<1> QED BY <1>1, <1>9, <1>10, <1>11 DEF MadeOf

(* Member by member, as walkKeysAndSet writes a field, every document comes  *)
(* out as the definition of Documents says at once, along every path, and    *)
(* the two refuse the same writes (setField.go:78-129).                      *)
THEOREM WalksSame == Spec => []WalksAgree
<1>1. IInv => WalksAgree
  <2> SUFFICES ASSUME IInv, NEW k \in Keys, IsObject(k), NEW p \in Paths \cup FurtherPaths,
                      NEW t \in Operands \cup {Null}
               PROVE  Walked(mem[k].parsed, p, Atov(t))
                        = IF CanSet(mem[k].parsed, p)
                          THEN {WalkKeysAndSet(mem[k].parsed, p, Atov(t))} ELSE {}
    BY DEF WalksAgree
  <2>1. IsTree(mem[k].parsed)
    BY ObjectCached
  <2>2. IsTree(Atov(t))
    BY TextsTrees, Leaves, AtovTree
  <2>3. p \in Path /\ p # <<>>
    BY PathsAssumption, FurtherAssumption DEF Path
  <2>4. DOMAIN Atov(t) \subseteq Path
    BY <2>2 DEF IsTree, Path
  <2> QED BY <2>1, <2>3, <2>4, WalkedIs
<1> QED BY <1>1, Inductive, PTL
=============================================================================
