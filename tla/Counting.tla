------------------------------ MODULE Counting -------------------------------
(***************************************************************************)
(* How often something is in a list of Redis, and the part of a list that  *)
(* a filter keeps.  Filter(s, T) is SelectSeq with a set instead of a      *)
(* test; it is written out over the prefixes of the list because the       *)
(* provers know nothing of SelectSeq.                                      *)
(***************************************************************************)
EXTENDS Naturals, Sequences, FiniteSets

CountIf(condition) == IF condition THEN 1 ELSE 0

Positions(s, x) == {i \in DOMAIN s : s[i] = x}

Count(s, x) == Cardinality(Positions(s, x))

Filter(s, T) ==
  LET upTo[i \in 0..Len(s)] ==
        IF i = 0 THEN <<>>
        ELSE IF s[i] \in T THEN Append(upTo[i - 1], s[i]) ELSE upTo[i - 1]
  IN upTo[Len(s)]
=============================================================================
