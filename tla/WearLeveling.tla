---------------------------- MODULE WearLeveling ----------------------------
(***************************************************************************)
(* The wear-levelled EEPROM of quantum/wear_leveling/wear_leveling.c.      *)
(* Logical data lives in a RAM cache; the backing store (flash) holds a    *)
(* consolidated image with a checksum, followed by a log of the writes     *)
(* since.  Every backing-store operation is a step of its own, so that the *)
(* power can go between any two of them and the driver can fail any one.   *)
(***************************************************************************)
EXTENDS Integers, Sequences, FiniteSets

CONSTANTS
  WriteSize,    \* BACKING_STORE_WRITE_SIZE: 2, 4 or 8
  LogicalSize,  \* WEAR_LEVELING_LOGICAL_SIZE
  LogSlots,     \* write-sized slots between the checksum and the end of the store
  FirstSector,  \* log slots that share the first erase sector with the image
  ByteRadix,    \* values of an address byte (256)
  Opt64Limit,   \* addresses below it have one-word byte entries (64)
  WordLimit,    \* addresses below it have one-word entries for 0 and 1 (16384)
  WriteSet,     \* the writes clients ask for: <<address, sequence of bytes>>
  Faults,       \* the driver operations that may fail
  MaxFaults,    \* bound on failures
  MaxLosses,    \* bound on power losses
  NoChecksum    \* what an erased or incomplete checksum reads as

LOG_ENTRY_MULTIBYTE_MAX_BYTES == 5

ASSUME SizeAssumption ==
  /\ WriteSize \in {2, 4, 8}
  /\ LogicalSize \in Nat \ {0} /\ LogSlots \in Nat \ {0}
  /\ FirstSector \in 0 .. LogSlots
ASSUME EncodingAssumption ==
  /\ ByteRadix \in 2 .. 256
  /\ Opt64Limit \in 0 .. 64 /\ WordLimit \in Nat
  /\ LogicalSize <= 8 * ByteRadix * ByteRadix
ASSUME FaultAssumption ==
  /\ Faults \subseteq {"init", "read", "unlock", "lock", "write", "erase"}
  /\ MaxFaults \in Nat /\ MaxLosses \in Nat

Addr  == 0 .. LogicalSize - 1
Slots == 1 .. LogSlots
Byte  == 0 .. 255
Image == [Addr -> Byte]
Zeros == [x \in Addr |-> 0]
Erased == [k \in 1 .. WriteSize |-> 0]

ASSUME WriteAssumption ==
  \A w \in WriteSet : /\ w[1] \in Addr /\ w[2] \in Seq(Byte)
                      /\ w[2] # <<>> /\ w[1] + Len(w[2]) <= LogicalSize
ASSUME ChecksumAssumption == NoChecksum \notin Image

VARIABLES
  image,          \* backing store: the consolidated data
  checksum,       \* backing store: the image its FNV1a_64 was computed from
  log,            \* backing store: the write log
  cache,          \* wear_leveling.cache
  write_address,  \* wear_leveling.write_address, as a slot of the log
  unlocked,       \* wear_leveling.unlocked
  op,             \* the call in progress: where it is, whether it must lock
                  \* the store again, what it will return
  req,            \* the write asked for, with its log words still to append
  status,         \* what the last finished call returned
  dirty,          \* ghost: addresses whose last change may not be in the store
  faults, losses  \* failures and power losses so far

store == <<image, checksum, log>>
ram   == <<cache, write_address, unlocked>>
vars  == <<image, checksum, log, cache, write_address, unlocked,
           op, req, status, dirty, faults, losses>>

-----------------------------------------------------------------------------
(* Log entries, as the bytes raw8[0..7] of write_log_entry_t.              *)

TYPE_MULTIBYTE == 0
TYPE_OPTIMIZED_64 == 1
TYPE_WORD_01 == 2

MakeMultibyte(a, vals) ==
  <<TYPE_MULTIBYTE * 64 + Len(vals) * 8 + ((a \div (ByteRadix * ByteRadix)) % 8),
    (a \div ByteRadix) % ByteRadix, a % ByteRadix>> \o vals
MakeOptimized64(a, v) == <<TYPE_OPTIMIZED_64 * 64 + a, v>>
\* Mutant: the address is not halved.
MakeWord01_NoShift(a, v) ==
  <<TYPE_WORD_01 * 64 + v * 32 + a \div ByteRadix, a % ByteRadix>>
MakeWord01(a, v) ==
  <<TYPE_WORD_01 * 64 + v * 32 + a \div (2 * ByteRadix), (a \div 2) % ByteRadix>>

GetType(e) == e[1] \div 64
\* Mutant: the low address bytes are taken in the wrong order.
MultibyteAddress_Swapped(e) ==
  (e[1] % 8) * ByteRadix * ByteRadix + e[3] * ByteRadix + e[2]
MultibyteAddress(e) ==
  (e[1] % 8) * ByteRadix * ByteRadix + e[2] * ByteRadix + e[3]
MultibyteLength(e)  == (e[1] \div 8) % 8
Optimized64Address(e) == e[1] % 64
Word01Address(e) == (e[1] % 32) * 2 * ByteRadix + e[2] * 2
Word01Value(e)   == (e[1] \div 32) % 2

\* Backing-store writes a multi-byte entry of length l takes.
EntryWords(l) ==
  CASE WriteSize = 2 -> 2 + (IF l > 1 THEN 1 ELSE 0) + (IF l > 3 THEN 1 ELSE 0)
    [] WriteSize = 4 -> IF l > 1 THEN 2 ELSE 1
    [] WriteSize = 8 -> 1

\* Mutant: the words go out last to first.
Words_Reversed(e, n) ==
  [w \in 1 .. n |-> [k \in 1 .. WriteSize |->
     LET b == (n - w) * WriteSize + k IN IF b <= Len(e) THEN e[b] ELSE 0]]

\* An entry cut into n words of the write size, the rest filled with zeros.
Words(e, n) ==
  [w \in 1 .. n |-> [k \in 1 .. WriteSize |->
     LET b == (w - 1) * WriteSize + k IN IF b <= Len(e) THEN e[b] ELSE 0]]

\* The entry that the bytes vals at address a start with: a short form where
\* there is one, else as many bytes as an entry holds.
FirstEntry(a, vals) ==
  LET l == IF Len(vals) >= LOG_ENTRY_MULTIBYTE_MAX_BYTES
           THEN LOG_ENTRY_MULTIBYTE_MAX_BYTES ELSE Len(vals)
  IN IF /\ WriteSize = 2 /\ Len(vals) >= 2 /\ a % 2 = 0 /\ a < WordLimit
        /\ vals[1] \in {0, 1} /\ vals[2] = 0
     THEN [bytes |-> 2, words |-> Words(MakeWord01(a, vals[1]), 1)]
     ELSE IF WriteSize = 2 /\ a < Opt64Limit
     THEN [bytes |-> 1, words |-> Words(MakeOptimized64(a, vals[1]), 1)]
     ELSE [bytes |-> l,
           words |-> Words(MakeMultibyte(a, SubSeq(vals, 1, l)), EntryWords(l))]

\* wear_leveling_write_raw: the words the bytes vals at address a turn into.
LogWords(a, vals) ==
  LET n == Len(vals)
      enc[r \in 0 .. n] ==   \* the encoding of the last r bytes
        IF r = 0 THEN <<>>
        ELSE LET e == FirstEntry(a + n - r, SubSeq(vals, n - r + 1, n))
             IN e.words \o enc[r - e.bytes]
  IN enc[n]

-----------------------------------------------------------------------------
(* Reading back.                                                           *)

Put(c, a, vals) ==
  [x \in Addr |-> IF x \in a .. a + Len(vals) - 1 THEN vals[x - a + 1] ELSE c[x]]

\* Past the end of the store there is flash the log does not own; it is taken
\* to be blank.
ReadSlot(i) == IF i \in Slots THEN log[i] ELSE Erased

\* The entry starting at slot i, with all the words it could have.
ReadEntry(i) ==
  [b \in 1 .. 8 |-> ReadSlot(i + (b - 1) \div WriteSize)[((b - 1) % WriteSize) + 1]]

\* Mutant: the checksum is not looked at.
ReadConsolidated_Unchecked == image

\* wear_leveling_read_consolidated.
ReadConsolidated == IF checksum = image THEN image ELSE Zeros

\* Mutant: a multi-byte entry is taken to be one word long.
PlaybackWords_One(e) == 1

\* The words playback reads of an entry; of one that does not fit the logical
\* data only those that hold its address.
PlaybackWords(e) ==
  IF GetType(e) # TYPE_MULTIBYTE THEN 1
  ELSE IF MultibyteAddress(e) + MultibyteLength(e) > LogicalSize
  THEN IF WriteSize = 2 THEN 2 ELSE 1
  ELSE EntryWords(MultibyteLength(e))

\* Where playback is: its next slot, the last slot it asked for, the data, and
\* whether it has stopped and because of what.
Played(next, last, data, done, failed) ==
  [next |-> next, last |-> last, cache |-> data, done |-> done, failed |-> failed]

\* One turn of the loop of wear_leveling_playback_log, where the driver fails
\* to read slot bad (0: none).
PlaybackEntry(p, bad) ==
  LET e == ReadEntry(p.next)
      l == MultibyteLength(e)
      a == MultibyteAddress(e)
      n == PlaybackWords(e)
      fits == CASE GetType(e) = TYPE_MULTIBYTE -> a + l <= LogicalSize
                [] WriteSize = 2 /\ GetType(e) = TYPE_OPTIMIZED_64 ->
                     Optimized64Address(e) < LogicalSize
                [] WriteSize = 2 /\ GetType(e) = TYPE_WORD_01 ->
                     Word01Address(e) + 1 < LogicalSize
                [] OTHER -> FALSE
      data == CASE GetType(e) = TYPE_MULTIBYTE -> Put(p.cache, a, SubSeq(e, 4, 3 + l))
                [] GetType(e) = TYPE_OPTIMIZED_64 ->
                     Put(p.cache, Optimized64Address(e), <<e[2]>>)
                [] GetType(e) = TYPE_WORD_01 ->
                     Put(p.cache, Word01Address(e), <<Word01Value(e), 0>>)
  IN IF bad = p.next
     THEN Played(p.next, p.next, p.cache, TRUE, TRUE)
     ELSE IF ReadSlot(p.next) = Erased
     THEN Played(p.next, p.next, p.cache, TRUE, FALSE)
     ELSE IF bad \in p.next .. p.next + n - 1
     THEN Played(bad, bad, p.cache, TRUE, TRUE)
     ELSE Played(p.next + n, p.next + n - 1, IF fits THEN data ELSE p.cache,
                 ~fits, ~fits)

PlaybackStart(start) == Played(1, 0, start, FALSE, FALSE)

PlaybackTurn(p, bad) ==
  IF p.done \/ p.next > LogSlots THEN p ELSE PlaybackEntry(p, bad)

\* wear_leveling_playback_log, up to its decision to consolidate.
Playback(start, bad) ==
  LET turns[k \in 0 .. LogSlots] ==
        IF k = 0 THEN PlaybackStart(start) ELSE PlaybackTurn(turns[k - 1], bad)
  IN turns[LogSlots]

\* What a restart would read now.
Recovered == Playback(ReadConsolidated, 0).cache

-----------------------------------------------------------------------------
(* Calls.                                                                  *)

\* The driver operation f fails (bad) or not.
Driver(f, bad) ==
  IF bad THEN f \in Faults /\ faults < MaxFaults /\ faults' = faults + 1
         ELSE UNCHANGED faults

\* Mutant: the write address is left at the checksum.
wear_leveling_clear_cache_NoChecksum == cache' = Zeros /\ write_address' = 0

wear_leveling_clear_cache == cache' = Zeros /\ write_address' = 1

Range(r) == r.a .. r.a + Len(r.vals) - 1

Return(res) == [op EXCEPT !.pc = "return", !.res = res]

\* Mutant: one write too many before consolidation.
LogFull_OffByOne(next) == next > LogSlots + 1

\* Mutant: a log that was read past its end does not count as full.
LogFull_Exactly(next) == next = LogSlots + 1

\* The condition of wear_leveling_consolidate_if_needed.
LogFull(next) == next > LogSlots

\* Entering wear_leveling_consolidate_force.
Consolidate(o) == [o EXCEPT !.pc = "erase", !.n = 1]

\* wear_leveling_init: the store is read in one go; whether the log must be
\* consolidated decides what follows.  A checksum that cannot be read is not
\* noticed; what stands in its place does not match.
wear_leveling_init ==
  /\ op.pc = "off"
  /\ \/ /\ \E f \in {"init", "read"} : Driver(f, TRUE)
        /\ wear_leveling_clear_cache
        /\ op' = [op EXCEPT !.pc = "idle", !.kind = "init"]
        /\ status' = "FAILED" /\ dirty' = Addr
     \/ \E bad \in 0 .. LogSlots, badSum \in BOOLEAN :
          LET p == Playback(IF badSum THEN Zeros ELSE ReadConsolidated, bad) IN
          /\ bad # 0 => p.last = bad /\ ~badSum
          /\ Driver("read", bad # 0 \/ badSum)
          /\ cache' = p.cache /\ write_address' = p.next
          /\ dirty' = IF badSum THEN Addr ELSE {}
          /\ IF p.failed \/ LogFull(p.next)
             THEN /\ op' = Consolidate([op EXCEPT !.kind = "init"])
                  /\ UNCHANGED status
             ELSE /\ op' = [op EXCEPT !.pc = "idle", !.kind = "init"]
                  /\ status' = "SUCCESS"
  /\ UNCHANGED <<store, unlocked, req, losses>>

\* The part of wear_leveling_write before its first write to the store.
wear_leveling_write(a, vals) ==
  LET call  == [op EXCEPT !.kind = "write", !.relock = ~unlocked]
      write == [a |-> a, vals |-> vals, words |-> <<>>]
  IN
  /\ op.pc = "idle"
  /\ IF Put(cache, a, vals) = cache
     THEN /\ op' = call /\ req' = write /\ status' = "SUCCESS"
          /\ UNCHANGED <<ram, dirty, faults>>
     ELSE /\ cache' = Put(cache, a, vals)
          /\ \E bad \in BOOLEAN :
               /\ bad => ~unlocked
               /\ Driver("unlock", bad)
               /\ IF bad
                  THEN /\ op' = call /\ req' = write /\ status' = "FAILED"
                       /\ dirty' = dirty \cup Range(write)
                       /\ UNCHANGED unlocked
                  ELSE /\ op' = [call EXCEPT !.pc = "append"]
                       /\ req' = [write EXCEPT !.words = LogWords(a, vals)]
                       /\ unlocked' = TRUE
                       /\ UNCHANGED <<status, dirty>>
          /\ UNCHANGED write_address
  /\ UNCHANGED <<store, losses>>

\* One wear_leveling_append_raw.  Programming a slot that is not blank fails.
wear_leveling_append_raw ==
  /\ op.pc = "append"
  /\ \E bad \in BOOLEAN :
       /\ Driver("write", bad)
       /\ IF bad \/ ReadSlot(write_address) # Erased
          THEN /\ op' = Return("FAILED")
               /\ dirty' = dirty \cup Range(req)
               /\ UNCHANGED <<log, write_address, req>>
          ELSE /\ log' = [i \in Slots |-> IF i = write_address THEN Head(req.words)
                                                               ELSE log[i]]
               /\ write_address' = write_address + 1
               /\ req' = [req EXCEPT !.words = Tail(@)]
               /\ op' = IF LogFull(write_address + 1) THEN Consolidate(op)
                        ELSE IF Len(req.words) = 1 THEN Return("SUCCESS") ELSE op
               /\ dirty' = IF Len(req.words) = 1 THEN dirty \ Range(req) ELSE dirty
  /\ UNCHANGED <<image, checksum, cache, unlocked, status, losses>>

\* backing_store_erase, sector by sector, for wear_leveling_consolidate_force
\* and wear_leveling_erase.  After it the former unlocks the store (already so
\* in a write, and ignoring a failure) and starts on the image.
backing_store_erase ==
  /\ op.pc = "erase"
  /\ \E bad, badUnlock \in BOOLEAN :
       LET last   == op.n = 2 \/ FirstSector = LogSlots
           sector == IF op.n = 1 THEN 1 .. FirstSector ELSE FirstSector + 1 .. LogSlots
       IN
       /\ ~(bad /\ badUnlock)
       /\ badUnlock => last /\ op.kind # "erase" /\ ~unlocked
       /\ IF badUnlock THEN Driver("unlock", TRUE) ELSE Driver("erase", bad)
       /\ IF bad THEN UNCHANGED store
          ELSE /\ log' = [i \in Slots |-> IF i \in sector THEN Erased ELSE log[i]]
               /\ image' = IF op.n = 1 THEN Zeros ELSE image
               /\ checksum' = IF op.n = 1 THEN NoChecksum ELSE checksum
       /\ IF ~bad /\ ~last
          THEN op' = [op EXCEPT !.n = 2] /\ UNCHANGED <<ram, dirty>>
          ELSE IF op.kind = "erase"
          THEN /\ wear_leveling_clear_cache
               /\ op' = Return(IF bad THEN "FAILED" ELSE "SUCCESS")
               /\ dirty' = IF bad THEN Addr ELSE {}
               /\ UNCHANGED unlocked
          ELSE IF bad
          THEN /\ op' = Return("FAILED")
               /\ dirty' = Addr
               /\ UNCHANGED ram
          ELSE /\ op' = [op EXCEPT !.pc = "image", !.n = 0,
                           !.relock = IF unlocked THEN @ ELSE ~badUnlock]
               /\ unlocked' = (unlocked \/ ~badUnlock)
               /\ UNCHANGED <<cache, write_address, dirty>>
  /\ UNCHANGED <<req, status, losses>>

\* wear_leveling_write_consolidated: the image, one write at a time, and then
\* its checksum.  A checksum cut short reads as no checksum at all.
wear_leveling_write_consolidated ==
  /\ op.pc \in {"image", "checksum"}
  /\ \E bad \in BOOLEAN :
       /\ Driver("write", bad)
       /\ IF bad
          THEN /\ op' = Return("FAILED")
               /\ write_address' = 1 /\ dirty' = Addr
               /\ UNCHANGED store
          ELSE IF op.pc = "image"
          THEN /\ image' = [x \in Addr |-> IF x \in op.n .. op.n + WriteSize - 1
                                           THEN cache[x] ELSE image[x]]
               /\ op' = IF op.n + WriteSize >= LogicalSize THEN [op EXCEPT !.pc = "checksum"]
                        ELSE [op EXCEPT !.n = @ + WriteSize]
               /\ UNCHANGED <<checksum, log, write_address, dirty>>
          ELSE /\ checksum' = cache
               /\ op' = Return("CONSOLIDATED")
               /\ write_address' = 1 /\ dirty' = {}
               /\ UNCHANGED <<image, log>>
  /\ UNCHANGED <<cache, unlocked, req, status, losses>>

\* Mutant: the store is never locked again.
UnlockedAfter_Never(bad) == unlocked

\* wear_leveling.unlocked after an attempt to lock that failed or not.
UnlockedAfter(bad) == IF op.relock /\ ~bad THEN FALSE ELSE unlocked

\* The way out of every call: the store is locked again by the one who unlocked
\* it, and an init that failed drops the cache.
wear_leveling_lock ==
  /\ op.pc = "return"
  /\ \E bad \in BOOLEAN :
       /\ bad => op.relock
       /\ Driver("lock", bad)
       /\ unlocked' = UnlockedAfter(bad)
       /\ status' = IF bad /\ op.kind # "init" THEN "FAILED" ELSE op.res
  /\ op' = [op EXCEPT !.pc = "idle", !.n = 0]
  /\ req' = [req EXCEPT !.words = <<>>]
  /\ IF op.kind = "init" /\ op.res = "FAILED"
     THEN wear_leveling_clear_cache /\ dirty' = Addr
     ELSE UNCHANGED <<cache, write_address, dirty>>
  /\ UNCHANGED <<store, losses>>

wear_leveling_erase ==
  /\ op.pc = "idle"
  /\ \E bad \in BOOLEAN :
       /\ bad => ~unlocked
       /\ Driver("unlock", bad)
       /\ IF bad THEN /\ status' = "FAILED"
                      /\ op' = [op EXCEPT !.kind = "erase"]
                      /\ UNCHANGED unlocked
          ELSE /\ op' = Consolidate([op EXCEPT !.kind = "erase", !.relock = ~unlocked])
               /\ unlocked' = TRUE
               /\ UNCHANGED status
  /\ UNCHANGED <<store, cache, write_address, req, dirty, losses>>

Off == [pc |-> "off", kind |-> "init", n |-> 0, relock |-> FALSE, res |-> "none"]
NoRequest == [a |-> 0, vals |-> <<>>, words |-> <<>>]

PowerLoss ==
  /\ op.pc # "off" /\ losses < MaxLosses
  /\ losses' = losses + 1
  /\ op' = Off /\ req' = NoRequest /\ status' = "none" /\ unlocked' = FALSE /\ dirty' = {}
  /\ wear_leveling_clear_cache
  /\ UNCHANGED <<store, faults>>

\* A blank microcontroller is switched on.
Init ==
  /\ image = Zeros /\ checksum = NoChecksum /\ log = [i \in Slots |-> Erased]
  /\ cache = Zeros /\ write_address = 1 /\ unlocked = FALSE
  /\ op = Off /\ req = NoRequest /\ status = "none" /\ dirty = {}
  /\ faults = 0 /\ losses = 0

Next ==
  \/ wear_leveling_init
  \/ \E w \in WriteSet : wear_leveling_write(w[1], w[2])
  \/ wear_leveling_append_raw
  \/ backing_store_erase
  \/ wear_leveling_write_consolidated
  \/ wear_leveling_lock
  \/ wear_leveling_erase
  \/ PowerLoss

Spec == Init /\ [][Next]_vars

-----------------------------------------------------------------------------
(* Properties.                                                             *)

Statuses == {"none", "FAILED", "SUCCESS", "CONSOLIDATED"}

\* Type invariant: the log holds only bytes of the write size, and the append
\* position never points back into the consolidated image or its checksum.
TypeOK ==
  /\ image \in Image /\ checksum \in Image \cup {NoChecksum}
  /\ log \in [Slots -> [1 .. WriteSize -> Byte]]
  /\ cache \in Image /\ write_address \in Nat \ {0} /\ unlocked \in BOOLEAN
  /\ op \in [pc : {"off", "idle", "append", "erase", "image", "checksum", "return"},
             kind : {"init", "write", "erase"}, n : Nat, relock : BOOLEAN,
             res : Statuses]
  /\ req \in [a : Addr, vals : Seq(Byte),
              words : Seq([1 .. WriteSize -> Byte])]
  /\ status \in Statuses
  /\ dirty \subseteq Addr
  /\ faults \in 0 .. MaxFaults /\ losses \in 0 .. MaxLosses

\* A write never programs flash beyond the end of the backing store.
WritesInBounds == op.pc = "append" => write_address \in Slots

\* A write never programs a slot that has not been erased since it was last
\* programmed.
WritesErasedSlots ==
  op.pc = "append" /\ write_address \in Slots => log[write_address] = Erased

\* The store is unlocked whenever the algorithm writes to it, and a finished
\* call leaves it locked.
LockDiscipline ==
  /\ op.pc \in {"append", "image", "checksum"} => unlocked
  /\ op.pc \in {"off", "idle"} => ~unlocked

\* Between calls no entry reaches beyond the end of the store: playback at the next
\* start reads nothing there.  Power loss after the first word of an entry in the
\* last slot does make the next start read beyond the end; that start then rewrites
\* the store.
ReadsInBounds == op.pc = "idle" => Playback(ReadConsolidated, 0).last <= LogSlots

\* Between calls, a restart would bring back exactly what reads return now,
\* but for bytes whose write was reported as failed.
Durable ==
  op.pc = "idle" => \A x \in Addr \ dirty : Recovered[x] = cache[x]

\* Power loss in the middle of a write, before consolidation starts erasing,
\* touches no byte outside the ones being written.
LossIsLocal ==
  op.kind = "write" /\ (op.pc = "append" \/ (op.pc = "erase" /\ op.n = 1))
    => \A x \in Addr \ (Range(req) \cup dirty) : Recovered[x] = cache[x]

\* Power loss during consolidation leaves all the data or an empty EEPROM,
\* never a mixture of the two.
ConsolidationLossIsClean ==
  op.pc \in {"image", "checksum", "return"} => Recovered \in {cache, Zeros}

\* A write that reports success is in the store.
SuccessMeansStored ==
  op.pc = "idle" /\ op.kind = "write" /\ status \in {"SUCCESS", "CONSOLIDATED"}
    => \A x \in Range(req) : Recovered[x] = req.vals[x - req.a + 1]
=============================================================================
