------------------------------ MODULE SectorDrop ------------------------------
(***************************************************************************)
(* The effect of dropping a list of roots from a program's sector cache,  *)
(* in closed form: the operators SectorCache states its Drop with.        *)
(***************************************************************************)
EXTENDS Naturals, Sequences

Elems(s) == {s[i] : i \in DOMAIN s}

\* Root x is at two different indices of s.
Twice(x, s) == \E i, j \in 1..Len(s) : i # j /\ s[i] = x /\ s[j] = x

\* The cache after dropping the roots of s, in closed form.
Dropped(g, rm, s) ==
  << g \ Elems(s),
     rm \cup (Elems(s) \ g) \cup {x \in g : Twice(x, s)} >>

=============================================================================
