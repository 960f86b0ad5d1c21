-------------------------------- MODULE Lists --------------------------------
(***************************************************************************)
(* Arrays, as the modules below use them: what `filter` and `find` return, *)
(* by the places of the elements that pass.  SelectSeq would say the same, *)
(* but its definition is not open to a proof.                              *)
(***************************************************************************)
EXTENDS Integers, Sequences, FiniteSets, SequencesExt

IsList(s) == s \in Seq(Range(s))

\* The elements at these places, in their order.
Picked(list, places) ==
  LET upTo[n \in 0..Len(list)] ==
        IF n = 0 THEN <<>>
        ELSE IF n \in places THEN Append(upTo[n - 1], list[n])
        ELSE upTo[n - 1]
  IN  upTo[Len(list)]

\* The bytes of all elements.
BytesOf(list) ==
  LET upTo[n \in 0..Len(list)] == IF n = 0 THEN 0 ELSE upTo[n - 1] + list[n].bytes
  IN  upTo[Len(list)]

\* The first element at these places, which are not none.
FirstAt(list, places) == list[Min(places)]
=============================================================================
