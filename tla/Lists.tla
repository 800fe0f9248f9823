-------------------------------- MODULE Lists --------------------------------
(***************************************************************************)
(* Lists without repetition, as java.util.List and Vec are used by the     *)
(* graph and the tree: membership, and removal of one element.             *)
(***************************************************************************)
EXTENDS Integers, Sequences

Holds(list, c) == \E k \in 1 .. Len(list) : list[k] = c

\* The list with c taken out: no list holds an element twice.
Without(list, c) ==
  IF ~Holds(list, c) THEN list
  ELSE LET at == CHOOSE k \in 1 .. Len(list) : list[k] = c
       IN  SubSeq(list, 1, at - 1) \o SubSeq(list, at + 1, Len(list))

\* The elements of the list that are in S, in their order.
OnlyIn(list, S) ==
  LET first[k \in 0 .. Len(list)] ==
        IF k = 0 THEN <<>>
        ELSE IF list[k] \in S THEN Append(first[k - 1], list[k]) ELSE first[k - 1]
  IN  first[Len(list)]
=============================================================================
