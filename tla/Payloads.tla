------------------------------- MODULE Payloads -------------------------------
(***************************************************************************)
(* Untyped input, as far as its readers tell it apart.  An object is a     *)
(* function from the fields it has; a leaf is [text |-> _], [number |-> _] *)
(* or [flag |-> _], and what is not there reads as the empty function.     *)
(***************************************************************************)
EXTENDS Integers, Sequences, TLC, SequencesExt

Absent == <<>>
NoText == ""
Present(object) == DOMAIN object # {}
Field(object, name) == IF name \in DOMAIN object THEN object[name] ELSE Absent

\* The code of the first check that fails, in order, or no text when none does.
FirstFailure(checks) ==
  LET failed == {i \in DOMAIN checks : checks[i][1]}
  IN  IF failed = {} THEN NoText ELSE checks[Min(failed)][2]

\* A text is its trimmed self; what is no text reads as NoText.
AsNonEmptyString(leaf) == IF "text" \in DOMAIN leaf THEN leaf.text ELSE NoText
AsIdString(leaf) ==
  IF AsNonEmptyString(leaf) # NoText THEN leaf.text
  ELSE IF "number" \in DOMAIN leaf /\ leaf.number > 0 THEN ToString(leaf.number) ELSE NoText

FirstOf(texts) ==
  LET given == SelectSeq(texts, LAMBDA text : text # NoText)
  IN  IF given = <<>> THEN NoText ELSE Head(given)
=============================================================================
