------------------------- MODULE WearLevelingEeprom -------------------------
(***************************************************************************)
(* Wear levelling implements the EEPROM its clients see.  What a restart   *)
(* would bring back is read off the store by playback in every state.      *)
(***************************************************************************)
EXTENDS WearLeveling

Mode ==
  CASE op.pc = "off" -> "off"
    [] op.pc = "idle" -> "idle"
    [] op.pc \in {"image", "checksum"} -> "rewriting"
    [] OTHER -> "busy"

\* The bytes of the last write.
Writing == IF op.kind = "write" /\ op.pc # "off" THEN Range(req) ELSE {}

\* What a restart would bring back: Recovered, with playback as the set of its
\* states after each turn, a single one, so that TLC evaluates a turn once.
Kept ==
  LET turns[k \in 0 .. LogSlots] ==
        IF k = 0 THEN {PlaybackStart(ReadConsolidated)}
                 ELSE {PlaybackTurn(p, 0) : p \in turns[k - 1]}
  IN (CHOOSE p \in turns[LogSlots] : TRUE).cache

Promise == INSTANCE Eeprom WITH
  mode <- Mode, seen <- cache, kept <- Kept, writing <- Writing,
  doubt <- dirty, failures <- faults

\* Whatever the log and the consolidated image go through, and wherever the
\* power goes or the driver fails, clients of eeprom_driver see an EEPROM that
\* keeps what it was given: wear_leveling.c implements Eeprom.
ImplementsEeprom == Promise!Spec
=============================================================================
