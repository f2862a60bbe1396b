--------------------------- MODULE MCDecodeGuards ---------------------------
(***************************************************************************)
(* Instances of DecodeGuards for TLC: all values of three levels, with at  *)
(* most two parts at each.                                                 *)
(***************************************************************************)
EXTENDS DecodeGuards

(* The kinds of the parts of a value, by its own kind: elements of arrays  *)
(* and collections are all of one kind.                                    *)
PartKinds(kind, inner) ==
  CASE kind \in {"leaf", "skipped"}        -> {<< >>}
    [] kind = "pointer"                    -> {<<k>> : k \in inner}
    [] kind \in {"slice", "vec", "array"}  ->
         {<< >>} \cup {<<k>> : k \in inner} \cup {<<k, k>> : k \in inner}
    [] kind \in {"tuple", "owned"}         ->
         {<<k, l>> : k, l \in inner}
    [] kind = "struct"                     ->
         {<<k, l>> : k, l \in inner \cup {"skipped"}}

(* The root is node 1, its parts are 10 and 20, theirs 11, 12, 21 and 22.  *)
Children(n, len) ==
  [i \in 1 .. len |-> IF n = 1 THEN 10 * i ELSE n + i]

(* The tree with `kinds` for the parts of the root, and `inner[i]` for the *)
(* parts of its i-th part.                                                 *)
Tree(root, kinds, inner) ==
  LET mid   == {10 * i : i \in DOMAIN kinds}
      low   == {10 * i + j : i \in DOMAIN kinds, j \in 1 .. 2}
      nodes == {1} \cup mid
                 \cup {n \in low : n % 10 \in DOMAIN inner[n \div 10]}
      parts == [n \in nodes |->
                  CASE n = 1     -> Children(1, Len(kinds))
                    [] n \in mid -> Children(n, Len(inner[n \div 10]))
                    [] OTHER     -> << >>]
      under(n) == {parts[n][i] : i \in DOMAIN parts[n]}
  IN  [ root  |-> 1,
        kind  |-> [n \in nodes |->
                     CASE n = 1     -> root
                       [] n \in mid -> kinds[n \div 10]
                       [] OTHER     -> inner[n \div 10][n % 10]],
        parts |-> parts,
        below |-> [n \in nodes |->
                     {n} \cup under(n) \cup UNION {under(m) : m \in under(n)}] ]

(* One choice for each element of a sequence of at most two sets.          *)
Choices(sets) ==
  CASE Len(sets) = 0 -> {<< >>}
    [] Len(sets) = 1 -> {<<a>> : a \in sets[1]}
    [] Len(sets) = 2 -> {<<a, b>> : a \in sets[1], b \in sets[2]}

Inner(kinds) ==
  Choices([i \in DOMAIN kinds |-> PartKinds(kinds[i], {"leaf"})])

Composite == Kinds \ {"leaf", "skipped"}

MCTrees ==
  UNION { UNION { {Tree(root, kinds, inner) : inner \in Inner(kinds)} :
                  kinds \in PartKinds(root, Composite \cup {"leaf"}) } :
          root \in Composite }
=============================================================================
