------------------------------- MODULE Walks -------------------------------
(* The write of a field as walkKeysAndSet makes it, member by member from    *)
(* the root down, beside the definition of Documents, which says of every    *)
(* place of a value at once what the write makes of it.                      *)
EXTENDS Records

CONSTANT FurtherPaths   \* paths to compare them on, besides Paths

ASSUME FurtherAssumption == FurtherPaths \subseteq Seq(STRING) \ {<<>>}

Members(v) == [f \in {p[1] : p \in {q \in DOMAIN v : Len(q) = 1}} |-> WalkKeys(v, <<f>>)]

(* Where a name leads, and where it may: not beyond the end of an array.     *)
Member(v, f) == LET m == Members(v) IN IF f \in DOMAIN m THEN m[f] ELSE EmptyObj
CanEnter(v, f) == IsDoc(v) /\ (v[<<>>] = Array => f \in DOMAIN Members(v))

WithMember(v, f, new) ==
  LET m == Members(v)
      names == IF new = Null /\ v[<<>>] = Object THEN DOMAIN m \ {f} ELSE DOMAIN m \cup {f}
  IN  Grown(v[<<>>], [g \in names |-> IF g = f THEN new ELSE m[g]])

(* The value written, or none for an error: down from member to member, and  *)
(* back up with what each of them becomes.                                   *)
Walked(v, path, new) ==
  LET at[i \in 1 .. Len(path)] ==
        IF i > 1 THEN Member(at[i - 1], path[i - 1]) ELSE v
      made[i \in 1 .. Len(path)] ==
        IF CanEnter(at[i], path[i])
        THEN {WithMember(at[i], path[i], below) :
                below \in IF i < Len(path) THEN made[i + 1] ELSE {new}}
        ELSE {}
  IN  made[1]

(* The two agree, on what they write and on what they refuse: no element     *)
(* beyond an array, no member of a scalar, null in an array stays, in an     *)
(* object it deletes (setField.go:78-129).                                   *)
WalksAgree ==
  \A k \in Keys : IsObject(k) =>
    \A p \in Paths \cup FurtherPaths, t \in Operands \cup {Null} :
      LET v == mem[k].parsed
      IN  Walked(v, p, Atov(t))
            = IF CanSet(v, p) THEN {WalkKeysAndSet(v, p, Atov(t))} ELSE {}
============================================================================
