-------------------------- MODULE HolderIdentifier --------------------------
(***************************************************************************)
(* splitHolderIdentifier (openid4vci/issuance.go): the person identifier   *)
(* of a credential record is split into a scheme and a value.  An          *)
(* identifier is a sequence of pieces: the scheme name "PNOLV", the hyphen *)
(* and any other text.                                                     *)
(***************************************************************************)
EXTENDS Integers, SequencesExt

Pieces == {"PNOLV", "-", "text"}

\* Mutant of Hyphen: the last hyphen, not the first.
HyphenLast(identifier) == SelectLastInSeq(identifier, LAMBDA x : x = "-")

\* Where the first hyphen is, counted from 1; 0 if there is none.
Hyphen(identifier) == SelectInSeq(identifier, LAMBDA x : x = "-")

HasScheme(identifier) == IsPrefix(<< "PNOLV", "-" >>, identifier)

\* Everything up to the first hyphen is cut off, unless the hyphen comes
\* first, whether or not what is before it is a scheme.
splitHolderIdentifier(identifier) ==
  [type  |-> IF HasScheme(identifier) THEN "PNOLV" ELSE "person_code",
   value |-> IF Hyphen(identifier) > 1
             THEN SubSeq(identifier, Hyphen(identifier) + 1, Len(identifier))
             ELSE identifier]
=============================================================================
