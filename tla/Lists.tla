------------------------------- MODULE Lists -------------------------------
(***************************************************************************)
(* Lists, and the loops over a slice that keep some of its elements.  They *)
(* are functions of how far they have come, what is kept is a set, and a   *)
(* key a function: SelectSeq and the folds take operators, about which     *)
(* nothing can be proved by induction.                                     *)
(***************************************************************************)
EXTENDS Naturals, Sequences, Functions

IsList(s) == s \in Seq(Range(s))

\* The elements of s that are kept, in their order.
Only(s, kept) ==
  LET upTo[n \in 0..Len(s)] ==
        IF n = 0 THEN <<>>
        ELSE IF s[n] \in kept THEN Append(upTo[n - 1], s[n]) ELSE upTo[n - 1]
  IN  upTo[Len(s)]

\* The first element of each key, in their order.
FirstOfEach(s, key) ==
  LET upTo[n \in 0..Len(s)] ==
        IF n = 0 THEN <<>>
        ELSE IF \E x \in Range(upTo[n - 1]) : key[x] = key[s[n]] THEN upTo[n - 1]
        ELSE Append(upTo[n - 1], s[n])
  IN  upTo[Len(s)]
=============================================================================
