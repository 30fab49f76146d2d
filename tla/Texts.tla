------------------------------- MODULE Texts -------------------------------
(***************************************************************************)
(* The strings TaifaExchange compares, reduced to what its normalisation   *)
(* tells apart: the word a string spells, whether blanks surround it, and  *)
(* whether its letters are in another case than the word's own spelling.   *)
(* The word "" has no letters, so a blank text is never recased.           *)
(*                                                                         *)
(* Trimming and upper-casing are strings.TrimSpace and strings.ToUpper.    *)
(* The words that are upper-cased by the code (target systems, methods,    *)
(* roles, capabilities, effects, statuses) are spelled in upper case;      *)
(* routes and operations are never upper-cased, so a recased route remains *)
(* another route.                                                          *)
(***************************************************************************)

CONSTANT Words    \* the words strings can spell, among them the blank one and UNKNOWN

ASSUME WordsAssumption == "" \in Words /\ "UNKNOWN" \in Words

Text == {t \in [word : Words, padded : BOOLEAN, recased : BOOLEAN] :
            t.word = "" => ~t.recased}

Plain(w) == [word |-> w, padded |-> FALSE, recased |-> FALSE]

EmptyText == Plain("")

TrimSpace(t) == [word |-> t.word, padded |-> FALSE, recased |-> t.recased]

ToUpper(t) == [word |-> t.word, padded |-> t.padded, recased |-> FALSE]

Fold(t) == ToUpper(TrimSpace(t))

\* Variants: the case is kept; blank values are kept.
NormalizeStringSliceAsWritten(values) == {TrimSpace(t) : t \in values} \ {EmptyText}
NormalizeStringSliceWithBlanks(values) == {Fold(t) : t \in values}

\* NormalizeStringSlice and NormalizeStringSet: folded, blanks dropped, no duplicates.
NormalizeStringSlice(values) == {Fold(t) : t \in values} \ {EmptyText}

=============================================================================
