------------------------ MODULE MCWearLevelingSizes -------------------------
(* WearLeveling for TLC with two write sizes at once: a behaviour is one of *)
(* a 4-byte store or one of a 2-byte store, told by the width of its log.   *)
EXTENDS MCWearLeveling

Two == INSTANCE WearLeveling WITH WriteSize <- 2

Wide == DOMAIN log[1] = 1 .. WriteSize

SizesInit == Init \/ Two!Init
SizesNext == (Wide /\ Next) \/ (~Wide /\ Two!Next)
SizesSpec == SizesInit /\ [][SizesNext]_vars

\* The type invariant of wear_leveling.c for both write sizes.
SizesTypeOK == IF Wide THEN TypeOK ELSE Two!TypeOK

\* wear_leveling_append_raw only programs erased flash, for both write sizes.
SizesWritesErasedSlots == IF Wide THEN WritesErasedSlots ELSE Two!WritesErasedSlots

\* Between calls no log entry reaches beyond the end of the store, where
\* wear_leveling_playback_log would read it, for both write sizes.
SizesReadsInBounds == IF Wide THEN ReadsInBounds ELSE Two!ReadsInBounds

\* Between calls a restart (wear_leveling_init) brings back what reads return,
\* for both write sizes.
SizesDurable == IF Wide THEN Durable ELSE Two!Durable

\* Power loss during wear_leveling_consolidate_force leaves all the data or an
\* empty EEPROM, for both write sizes.
SizesConsolidationLossIsClean ==
  IF Wide THEN ConsolidationLossIsClean ELSE Two!ConsolidationLossIsClean

\* Power loss between the words of a log entry touches no byte outside the
\* write, for 4-byte words: there the first word holds address and length.
WideLossIsLocal == Wide => LossIsLocal
=============================================================================
