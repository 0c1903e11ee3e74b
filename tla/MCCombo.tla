------------------------------ MODULE MCCombo -------------------------------
(* Small instances of Combo for TLC.                                       *)
EXTENDS Combo

\* Every two of them share a key.
MCComboKeys == <<{"a", "b"}, {"b", "c"}, {"a", "b", "c"}, {"b", "d"}>>

\* The first shares no key with the others.
ApartComboKeys == <<{"a", "b"}, {"c", "d"}, {"d", "e"}>>
=============================================================================
