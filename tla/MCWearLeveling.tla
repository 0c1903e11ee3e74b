--------------------------- MODULE MCWearLeveling ---------------------------
(* Small instances of WearLeveling for TLC.                                *)
EXTENDS WearLevelingEeprom

\* Four logical bytes: single bytes and words in both halves, words of 0 and 1,
\* and one write of everything.
Writes4 == {<<0, <<1>>>>, <<0, <<1, 0>>>>, <<1, <<2, 2>>>>, <<3, <<1>>>>,
            <<2, <<2, 1>>>>, <<2, <<1, 0>>>>, <<0, <<1, 2, 1, 2>>>>}

\* Seven logical bytes, and a write too long for one log entry.
Writes7 == {<<0, <<1, 2, 1, 2, 1, 2>>>>, <<6, <<1>>>>, <<5, <<2, 1>>>>}
=============================================================================
