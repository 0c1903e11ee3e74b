------------------------- MODULE WearLevelingProofs -------------------------
(***************************************************************************)
(* Bounds and locking of the wear-levelled EEPROM, for every write size,   *)
(* every size of the data and of the log, and every number of power losses *)
(* and failures; and then stores that are written 8 bytes at a time and    *)
(* erased at once, by a driver that may fail anything but erasing: these   *)
(* implement the EEPROM their clients see.  There a log entry is a single  *)
(* word, and what a restart reads can be told entry by entry.              *)
(***************************************************************************)
EXTENDS WearLevelingEeprom, OrderLemmas, TLAPS

\* The turns of the playback loop are well defined.
LEMMA TurnsExist ==
  ASSUME NEW start, NEW bad
  PROVE  \A n \in Nat : \E f : f = [k \in 0 .. n |->
           IF k = 0 THEN PlaybackStart(start) ELSE PlaybackTurn(f[k - 1], bad)]
<1> DEFINE Turns(f, n) == f = [k \in 0 .. n |->
             IF k = 0 THEN PlaybackStart(start) ELSE PlaybackTurn(f[k - 1], bad)]
           S == {n \in Nat : ~ \E f : Turns(f, n)}
<1>1. SUFFICES ASSUME S # {} PROVE FALSE
  OBVIOUS
<1>2. PICK m \in S : \A j \in S : m <= j
  <2> HIDE DEF S
  <2>1. S \subseteq Nat
    BY DEF S
  <2> QED BY <1>1, <2>1, SmallestElement
<1>3. m # 0
  <2>1. Turns([k \in 0 .. 0 |-> PlaybackStart(start)], 0)
    OBVIOUS
  <2> QED BY <2>1
<1>4. PICK f : Turns(f, m - 1)
  <2>1. m - 1 \in Nat /\ m - 1 \notin S
    BY <1>2, <1>3
  <2> QED BY <2>1
<1>5. Turns([k \in 0 .. m |-> IF k = m THEN PlaybackTurn(f[m - 1], bad) ELSE f[k]], m)
  <2> DEFINE g == [k \in 0 .. m |-> IF k = m THEN PlaybackTurn(f[m - 1], bad) ELSE f[k]]
  <2>1. ASSUME NEW k \in 0 .. m
        PROVE  g[k] = IF k = 0 THEN PlaybackStart(start) ELSE PlaybackTurn(g[k - 1], bad)
    BY <1>3, <1>4
  <2> QED BY <2>1
<1> QED BY <1>2, <1>5

\* Every entry takes at least one word.
LEMMA PlaybackWordsNat ==
  ASSUME NEW e PROVE PlaybackWords(e) \in Nat
BY SizeAssumption DEF PlaybackWords, EntryWords

\* One turn leaves the position a slot number.
LEMMA PlaybackTurnNext ==
  ASSUME NEW p, NEW bad \in Nat, p.next \in Nat \ {0}
  PROVE  PlaybackTurn(p, bad).next \in Nat \ {0}
<1>1. PlaybackEntry(p, bad).next \in {p.next, bad, p.next + PlaybackWords(ReadEntry(p.next))}
  BY DEF PlaybackEntry, Played
<1>2. bad \in p.next .. p.next + PlaybackWords(ReadEntry(p.next)) - 1 => bad # 0
  BY PlaybackWordsNat
<1>3. PlaybackEntry(p, bad).next = bad => bad # 0
  BY <1>2, PlaybackWordsNat DEF PlaybackEntry, Played
<1> QED BY <1>1, <1>3, PlaybackWordsNat DEF PlaybackTurn

\* Wherever playback ends, the write address it leaves is a slot number.
LEMMA PlaybackNext ==
  ASSUME NEW start, NEW bad \in Nat
  PROVE  Playback(start, bad).next \in Nat \ {0}
<1> DEFINE Turns(f) == f = [k \in 0 .. LogSlots |->
             IF k = 0 THEN PlaybackStart(start) ELSE PlaybackTurn(f[k - 1], bad)]
           f == CHOOSE g : Turns(g)
           S == {k \in 0 .. LogSlots : f[k].next \notin Nat \ {0}}
<1>1. LogSlots \in Nat
  BY SizeAssumption
<1>2. Turns(f)
  BY <1>1, TurnsExist
<1>3. /\ f[0] = PlaybackStart(start)
      /\ \A k \in 1 .. LogSlots : f[k] = PlaybackTurn(f[k - 1], bad)
  <2> HIDE DEF f
  <2> QED BY <1>1, <1>2
<1>4. S = {}
  <2>1. SUFFICES ASSUME S # {} PROVE FALSE
    OBVIOUS
  <2>2. PICK m \in S : \A j \in S : m <= j
    <3>1. S \subseteq Nat
      BY <1>1
    <3> HIDE DEF S
    <3> QED BY <2>1, <3>1, SmallestElement
  <2> HIDE DEF f
  <2>3. m # 0
    BY <1>3 DEF PlaybackStart, Played
  <2>4. m \in 1 .. LogSlots /\ m - 1 \in 0 .. LogSlots /\ m - 1 \notin S
    BY <1>1, <2>2, <2>3
  <2>5. f[m - 1].next \in Nat \ {0}
    BY <2>4
  <2> QED BY <1>3, <2>4, <2>5, PlaybackTurnNext
<1>5. f[LogSlots].next \in Nat \ {0}
  <2> HIDE DEF f
  <2> QED BY <1>1, <1>4
<1> QED BY <1>5 DEF Playback

-----------------------------------------------------------------------------

Pcs == {"off", "idle", "append", "erase", "image", "checksum", "return"}
Ops == [pc : Pcs, kind : {"init", "write", "erase"}, n : Nat, relock : BOOLEAN,
        res : Statuses]

\* A call in progress is always well formed.
LEMMA OpSteps ==
  ASSUME op \in Ops, [Next]_vars PROVE op' \in Ops
<1> USE SizeAssumption DEF Ops, Pcs, Statuses
<1>1. CASE wear_leveling_init
  <2>1. \/ op' = [op EXCEPT !.pc = "idle", !.kind = "init"]
        \/ op' = Consolidate([op EXCEPT !.kind = "init"])
    BY <1>1, Zenon DEF wear_leveling_init
  <2>2. Consolidate([op EXCEPT !.kind = "init"]) \in Ops
    BY DEF Consolidate
  <2>3. [op EXCEPT !.pc = "idle", !.kind = "init"] \in Ops
    OBVIOUS
  <2> QED BY <2>1, <2>2, <2>3, Zenon
<1>2. ASSUME NEW w \in WriteSet, wear_leveling_write(w[1], w[2]) PROVE op' \in Ops
  <2> DEFINE call == [op EXCEPT !.kind = "write", !.relock = ~unlocked]
  <2>1. op' = call \/ op' = [call EXCEPT !.pc = "append"]
    BY <1>2, Zenon DEF wear_leveling_write
  <2>2. call \in Ops
    OBVIOUS
  <2> HIDE DEF call
  <2> QED BY <2>1, <2>2
<1>3. CASE wear_leveling_append_raw
  <2>1. \/ op' = Return("FAILED") \/ op' = Return("SUCCESS")
        \/ op' = Consolidate(op) \/ op' = op
    BY <1>3, Zenon DEF wear_leveling_append_raw
  <2>2. Return("FAILED") \in Ops /\ Return("SUCCESS") \in Ops
    BY DEF Return
  <2>3. Consolidate(op) \in Ops
    BY DEF Consolidate
  <2> QED BY <2>1, <2>2, <2>3, Zenon
<1>4. CASE backing_store_erase
  <2>1. \/ op' = [op EXCEPT !.n = 2]
        \/ op' = Return("FAILED") \/ op' = Return("SUCCESS")
        \/ \E b \in BOOLEAN : op' = [op EXCEPT !.pc = "image", !.n = 0,
                                   !.relock = IF unlocked THEN @ ELSE ~b]
    BY <1>4, Zenon DEF backing_store_erase
  <2>2. CASE op' = [op EXCEPT !.n = 2]
    BY <2>2
  <2>3. Return("FAILED") \in Ops /\ Return("SUCCESS") \in Ops
    BY DEF Return
  <2>4. ASSUME NEW b \in BOOLEAN,
               op' = [op EXCEPT !.pc = "image", !.n = 0,
                        !.relock = IF unlocked THEN @ ELSE ~b]
        PROVE op' \in Ops
    BY <2>4
  <2> QED BY <2>1, <2>2, <2>3, <2>4, Zenon
<1>5. CASE wear_leveling_write_consolidated
  <2>1. \/ op' = Return("FAILED") \/ op' = Return("CONSOLIDATED")
        \/ op' = [op EXCEPT !.pc = "checksum"] \/ op' = [op EXCEPT !.n = @ + WriteSize]
    BY <1>5, Zenon DEF wear_leveling_write_consolidated
  <2>2. Return("FAILED") \in Ops /\ Return("CONSOLIDATED") \in Ops
    BY DEF Return
  <2>3. [op EXCEPT !.pc = "checksum"] \in Ops /\ [op EXCEPT !.n = @ + WriteSize] \in Ops
    OBVIOUS
  <2> QED BY <2>1, <2>2, <2>3, Zenon
<1>6. CASE wear_leveling_lock
  <2>1. op' = [op EXCEPT !.pc = "idle", !.n = 0]
    BY <1>6, Zenon DEF wear_leveling_lock
  <2> QED BY <2>1
<1>7. CASE wear_leveling_erase
  <2> DEFINE call == [op EXCEPT !.kind = "erase", !.relock = ~unlocked]
  <2>1. op' = [op EXCEPT !.kind = "erase"] \/ op' = Consolidate(call)
    BY <1>7, Zenon DEF wear_leveling_erase
  <2>2. call \in Ops
    OBVIOUS
  <2> HIDE DEF call
  <2>3. Consolidate(call) \in Ops /\ [op EXCEPT !.kind = "erase"] \in Ops
    BY <2>2 DEF Consolidate
  <2> QED BY <2>1, <2>3, Zenon
<1>8. CASE PowerLoss
  BY <1>8 DEF PowerLoss, Off
<1>9. CASE UNCHANGED vars
  BY <1>9 DEF vars
<1> QED BY <1>1, <1>2, <1>3, <1>4, <1>5, <1>6, <1>7, <1>8, <1>9 DEF Next

\* Whoever has unlocked the store is going to lock it.
LockInv ==
  /\ op \in Ops /\ unlocked \in BOOLEAN
  /\ unlocked => op.relock
  /\ LockDiscipline

\* With a driver that can always be unlocked and locked, every write goes to
\* an unlocked store and every call leaves the store locked, also when calls
\* fail half way and the power goes.
THEOREM LockSafe ==
  ASSUME "unlock" \notin Faults, "lock" \notin Faults
  PROVE  Spec => []LockDiscipline
<1>0. Off \in Ops /\ Off.pc = "off"
  BY DEF Off, Ops, Pcs, Statuses
<1>1. Init => LockInv
  BY <1>0, Zenon DEF Init, LockInv, LockDiscipline
<1>2. LockInv /\ [Next]_vars => LockInv'
  <2> SUFFICES ASSUME LockInv, [Next]_vars PROVE LockInv'
    OBVIOUS
  <2>0. /\ ~Driver("unlock", TRUE) /\ ~Driver("lock", TRUE)
        /\ op \in Ops /\ op' \in Ops
    BY OpSteps DEF Driver, LockInv
  <2> SUFFICES unlocked' \in BOOLEAN /\ (unlocked' => op'.relock) /\ LockDiscipline'
    BY <2>0 DEF LockInv
  <2> USE DEF LockInv, LockDiscipline
  <2>1. CASE wear_leveling_init
    <3>1. \/ op' = [op EXCEPT !.pc = "idle", !.kind = "init"]
          \/ op' = Consolidate([op EXCEPT !.kind = "init"])
      BY <2>1, Zenon DEF wear_leveling_init
    <3>2. op'.pc \in {"idle", "erase"} /\ op'.relock = op.relock
      BY <2>0, <3>1 DEF Consolidate, Ops
    <3>3. unlocked' = unlocked /\ op.pc = "off"
      BY <2>1, Zenon DEF wear_leveling_init
    <3> QED BY <3>2, <3>3
  <2>2. ASSUME NEW w \in WriteSet, wear_leveling_write(w[1], w[2])
        PROVE  unlocked' \in BOOLEAN /\ (unlocked' => op'.relock) /\ LockDiscipline'
    <3> DEFINE call == [op EXCEPT !.kind = "write", !.relock = ~unlocked]
    <3>1. unlocked = FALSE /\ op.pc = "idle"
      BY <2>2 DEF wear_leveling_write
    <3>2. \/ op' = call /\ unlocked' = unlocked
          \/ op' = [call EXCEPT !.pc = "append"] /\ unlocked' = TRUE
      BY <2>2, Zenon DEF wear_leveling_write, ram
    <3>3. /\ call.pc = "idle" /\ call.relock = TRUE
          /\ [call EXCEPT !.pc = "append"].pc = "append"
          /\ [call EXCEPT !.pc = "append"].relock = TRUE
      BY <2>0, <3>1 DEF Ops
    <3> HIDE DEF call
    <3> QED BY <3>1, <3>2, <3>3
  <2>3. CASE wear_leveling_append_raw
    <3>1. \/ op' = Return("FAILED") \/ op' = Return("SUCCESS")
          \/ op' = Consolidate(op) \/ op' = op
      BY <2>3, Zenon DEF wear_leveling_append_raw
    <3>2. op.pc = "append" /\ unlocked' = unlocked
      BY <2>3, Zenon DEF wear_leveling_append_raw
    <3>3. op'.pc \in {"append", "erase", "return"} /\ op'.relock = op.relock
      BY <2>0, <3>1, <3>2 DEF Return, Consolidate, Ops
    <3> QED BY <3>2, <3>3
  <2>4. CASE backing_store_erase
    <3> DEFINE image_op(b) == [op EXCEPT !.pc = "image", !.n = 0,
                                 !.relock = IF unlocked THEN @ ELSE ~b]
    <3>1. op.pc = "erase"
      BY <2>4, Zenon DEF backing_store_erase
    <3>2. \/ /\ unlocked' = unlocked
             /\ \/ op' = [op EXCEPT !.n = 2]
                \/ op' = Return("FAILED") \/ op' = Return("SUCCESS")
          \/ unlocked' = (unlocked \/ ~FALSE) /\ op' = image_op(FALSE)
      BY <2>0, <2>4, Zenon DEF backing_store_erase, ram
    <3>3. /\ [op EXCEPT !.n = 2].pc = "erase" /\ [op EXCEPT !.n = 2].relock = op.relock
          /\ Return("FAILED").pc = "return" /\ Return("FAILED").relock = op.relock
          /\ Return("SUCCESS").pc = "return" /\ Return("SUCCESS").relock = op.relock
      BY <2>0, <3>1 DEF Return, Ops
    <3>4. image_op(FALSE).pc = "image" /\ image_op(FALSE).relock = TRUE
      BY <2>0 DEF Ops
    <3> HIDE DEF image_op
    <3>5. CASE unlocked' = unlocked /\ op'.relock = op.relock /\ op'.pc \in {"erase", "return"}
      BY <3>5
    <3>6. CASE unlocked' = TRUE /\ op'.relock = TRUE /\ op'.pc = "image"
      BY <3>6
    <3> HIDE DEF LockInv, LockDiscipline
    <3> QED BY <3>1, <3>2, <3>3, <3>4, <3>5, <3>6
  <2>5. CASE wear_leveling_write_consolidated
    <3>1. unlocked' = unlocked /\ op.pc \in {"image", "checksum"}
      BY <2>5, Zenon DEF wear_leveling_write_consolidated
    <3>2. \/ op' = Return("FAILED") \/ op' = Return("CONSOLIDATED")
          \/ op' = [op EXCEPT !.pc = "checksum"] \/ op' = [op EXCEPT !.n = @ + WriteSize]
      BY <2>5, Zenon DEF wear_leveling_write_consolidated
    <3>3. op'.pc \in {"image", "checksum", "return"} /\ op'.relock = op.relock
      BY <2>0, <3>1, <3>2 DEF Return, Ops
    <3> QED BY <3>1, <3>3
  <2>6. CASE wear_leveling_lock
    <3>1. op' = [op EXCEPT !.pc = "idle", !.n = 0]
      BY <2>6, Zenon DEF wear_leveling_lock
    <3>2. op'.pc = "idle"
      BY <2>0, <3>1 DEF Ops
    <3>3. PICK bad \in BOOLEAN : Driver("lock", bad) /\ unlocked' = UnlockedAfter(bad)
      BY <2>6, Zenon DEF wear_leveling_lock
    <3>4. unlocked' = FALSE
      BY <2>0, <3>3 DEF UnlockedAfter
    <3> QED BY <3>2, <3>4
  <2>7. CASE wear_leveling_erase
    <3> DEFINE call == Consolidate([op EXCEPT !.kind = "erase", !.relock = ~unlocked])
    <3>1. op.pc = "idle"
      BY <2>7, Zenon DEF wear_leveling_erase
    <3>2. op' = call /\ unlocked' = TRUE
      BY <2>0, <2>7, Zenon DEF wear_leveling_erase
    <3>3. call.pc = "erase" /\ call.relock = TRUE
      BY <2>0, <3>1 DEF Consolidate, Ops
    <3> QED BY <3>2, <3>3
  <2>8. CASE PowerLoss
    BY <1>0, <2>8, Zenon DEF PowerLoss
  <2>9. CASE UNCHANGED vars
    BY <2>9 DEF vars
  <2> QED BY <2>1, <2>2, <2>3, <2>4, <2>5, <2>6, <2>7, <2>8, <2>9 DEF Next
<1>3. LockInv => LockDiscipline
  BY DEF LockInv
<1> QED BY <1>1, <1>2, <1>3, PTL DEF Spec

\* Outside of a consolidation the log has a free slot.
BoundsInv ==
  /\ op \in Ops /\ write_address \in Nat \ {0}
  /\ op.pc \notin {"erase", "image", "checksum"} => write_address <= LogSlots

\* With a driver whose erase does not fail, no write ever leaves the store,
\* however calls fail otherwise and whenever the power goes.
THEOREM BoundsSafe ==
  ASSUME "erase" \notin Faults
  PROVE  Spec => []WritesInBounds
<1> USE SizeAssumption
<1>0. Off \in Ops
  BY DEF Off, Ops, Pcs, Statuses
<1>1. Init => BoundsInv
  BY <1>0 DEF Init, BoundsInv
<1>2. BoundsInv /\ [Next]_vars => BoundsInv'
  <2> SUFFICES ASSUME BoundsInv, [Next]_vars PROVE BoundsInv'
    OBVIOUS
  <2> DEFINE Bounded == /\ write_address' \in Nat \ {0}
                        /\ \/ op'.pc \in {"erase", "image", "checksum"}
                           \/ write_address' <= LogSlots
  <2>0. ~Driver("erase", TRUE) /\ op \in Ops /\ op' \in Ops
    BY OpSteps DEF Driver, BoundsInv
  <2> SUFFICES Bounded
    BY <2>0 DEF BoundsInv
  <2> USE DEF BoundsInv
  <2>a. wear_leveling_clear_cache => Bounded
    BY DEF wear_leveling_clear_cache
  <2>1. CASE wear_leveling_init
    <3>1. ASSUME NEW bad \in 0 .. LogSlots, NEW start,
                 write_address' = Playback(start, bad).next,
                 \/ op' = Consolidate([op EXCEPT !.kind = "init"])
                 \/ ~LogFull(Playback(start, bad).next)
          PROVE  Bounded
      <4>1. write_address' \in Nat \ {0}
        BY <3>1, PlaybackNext
      <4>2. CASE op' = Consolidate([op EXCEPT !.kind = "init"])
        <5>1. op'.pc = "erase"
          BY <2>0, <4>2 DEF Consolidate, Ops
        <5> QED BY <4>1, <5>1
      <4>3. CASE ~LogFull(write_address')
        BY <4>1, <4>3 DEF LogFull
      <4> QED BY <3>1, <4>2, <4>3
    <3>2. \/ wear_leveling_clear_cache
          \/ \E bad \in 0 .. LogSlots : \E start :
               /\ write_address' = Playback(start, bad).next
               /\ \/ op' = Consolidate([op EXCEPT !.kind = "init"])
                  \/ ~LogFull(Playback(start, bad).next)
      BY <2>1, Zenon DEF wear_leveling_init
    <3> HIDE DEF Bounded
    <3> QED BY <2>a, <3>1, <3>2, Zenon
  <2>2. ASSUME NEW w \in WriteSet, wear_leveling_write(w[1], w[2]) PROVE Bounded
    <3>1. write_address' = write_address /\ op.pc = "idle"
      BY <2>2, Zenon DEF wear_leveling_write, ram
    <3> QED BY <3>1
  <2>3. CASE wear_leveling_append_raw
    <3>1. op.pc = "append"
      BY <2>3, Zenon DEF wear_leveling_append_raw
    <3>2. \/ write_address' = write_address
          \/ write_address' = write_address + 1 /\ ~LogFull(write_address + 1)
          \/ write_address' = write_address + 1 /\ op' = Consolidate(op)
      BY <2>3, Zenon DEF wear_leveling_append_raw
    <3>3. Consolidate(op).pc = "erase"
      BY <2>0 DEF Consolidate, Ops
    <3> QED BY <3>1, <3>2, <3>3 DEF LogFull
  <2>4. CASE backing_store_erase
    <3> DEFINE image_op(b) == [op EXCEPT !.pc = "image", !.n = 0,
                                 !.relock = IF unlocked THEN @ ELSE ~b]
    <3>1. \/ op' = [op EXCEPT !.n = 2] /\ write_address' = write_address
          \/ wear_leveling_clear_cache
          \/ /\ write_address' = write_address
             /\ \E b \in BOOLEAN : op' = image_op(b)
      BY <2>0, <2>4, Zenon DEF backing_store_erase, ram
    <3>2. op.pc = "erase"
      BY <2>4, Zenon DEF backing_store_erase
    <3>3. [op EXCEPT !.n = 2].pc = "erase"
      BY <2>0, <3>2 DEF Ops
    <3>4. \A b \in BOOLEAN : image_op(b).pc = "image"
      BY <2>0 DEF Ops
    <3> HIDE DEF image_op
    <3> QED BY <2>a, <3>1, <3>3, <3>4
  <2>5. CASE wear_leveling_write_consolidated
    <3>1. op.pc \in {"image", "checksum"}
      BY <2>5, Zenon DEF wear_leveling_write_consolidated
    <3>2. \/ write_address' = 1
          \/ /\ write_address' = write_address
             /\ \/ op' = [op EXCEPT !.pc = "checksum"]
                \/ op' = [op EXCEPT !.n = @ + WriteSize]
      BY <2>5, Zenon DEF wear_leveling_write_consolidated
    <3>3. /\ [op EXCEPT !.pc = "checksum"].pc = "checksum"
          /\ [op EXCEPT !.n = @ + WriteSize].pc = op.pc
      BY <2>0 DEF Ops
    <3>4. CASE write_address' = 1
      BY <3>4
    <3>5. CASE write_address' = write_address /\ op'.pc \in {"image", "checksum"}
      BY <3>5
    <3> HIDE DEF Bounded
    <3> QED BY <3>1, <3>2, <3>3, <3>4, <3>5
  <2>6. CASE wear_leveling_lock
    <3>1. op.pc = "return"
      BY <2>6, Zenon DEF wear_leveling_lock
    <3>2. write_address' = 1 \/ write_address' = write_address
      BY <2>6, Zenon DEF wear_leveling_lock, wear_leveling_clear_cache
    <3> QED BY <3>1, <3>2
  <2>7. CASE wear_leveling_erase
    <3>1. op.pc = "idle" /\ write_address' = write_address
      BY <2>7, Zenon DEF wear_leveling_erase
    <3> QED BY <3>1
  <2>8. CASE PowerLoss
    BY <2>a, <2>8, Zenon DEF PowerLoss
  <2>9. CASE UNCHANGED vars
    BY <2>9 DEF vars
  <2> HIDE DEF Bounded
  <2> QED BY <2>1, <2>2, <2>3, <2>4, <2>5, <2>6, <2>7, <2>8, <2>9 DEF Next
<1>3. BoundsInv => WritesInBounds
  BY DEF BoundsInv, WritesInBounds, Slots
<1> QED BY <1>1, <1>2, <1>3, PTL DEF Spec
-----------------------------------------------------------------------------
(* Entries: what is encoded is decoded.                                    *)

\* Division with remainder determines the quotient.
LEMMA DivUnique ==
  ASSUME NEW M \in Nat \ {0}, NEW a \in Nat, NEW q \in Nat, NEW r \in 0 .. M - 1, a = q * M + r
  PROVE  a \div M = q /\ a % M = r
<1>1. PICK d \in Int : d = a \div M
  OBVIOUS
<1>2. PICK m \in 0 .. M - 1 : m = a % M
  OBVIOUS
<1>3. a = d * M + m
  BY <1>1, <1>2
<1>4. (d - q) * M = r - m
  BY <1>3
<1>5. d - q = 0
  <2>1. CASE d - q >= 1
    <3>1. (d - q) * M >= M
      BY <2>1
    <3> QED BY <3>1, <1>4
  <2>2. CASE d - q <= -1
    <3>1. (d - q) * M <= -M
      BY <2>2
    <3> QED BY <3>1, <1>4
  <2> QED BY <2>1, <2>2
<1> QED BY <1>1, <1>2, <1>4, <1>5

\* An address is put together again from its three parts.
LEMMA AddressParts ==
  ASSUME NEW a \in Nat, a < LogicalSize
  PROVE  /\ (a \div (ByteRadix * ByteRadix)) % 8 \in 0 .. 7
         /\ (a \div ByteRadix) % ByteRadix \in Byte /\ a % ByteRadix \in Byte
         /\ ((a \div (ByteRadix * ByteRadix)) % 8) * ByteRadix * ByteRadix
              + ((a \div ByteRadix) % ByteRadix) * ByteRadix + (a % ByteRadix) = a
<1>1. PICK R \in Nat \ {0} : R = ByteRadix /\ R <= 256
  BY EncodingAssumption
<1>2. PICK q \in Nat, r \in 0 .. R - 1 : q = a \div R /\ r = a % R /\ a = q * R + r
  BY <1>1
<1>3. PICK h \in Nat, m \in 0 .. R - 1 : h = q \div R /\ m = q % R /\ q = h * R + m
  BY <1>1
<1>4. PICK S \in Nat \ {0} : S = R * R
  BY <1>1
<1>5. a = h * S + (m * R + r)
  <2>1. (h * R + m) * R = h * (R * R) + m * R
    BY <1>1
  <2>2. q * R = h * S + m * R
    BY <1>3, <1>4, <2>1
  <2>3. h * S \in Nat /\ m * R \in Nat /\ q * R \in Nat
    BY <1>1, <1>4
  <2> QED BY <1>2, <2>2, <2>3
<1>6. m * R + r \in 0 .. S - 1
  <2>1. m * R <= (R - 1) * R
    BY <1>1
  <2>2. (R - 1) * R = S - R
    BY <1>1, <1>4
  <2>3. m * R \in Nat
    BY <1>1
  <2> QED BY <1>1, <1>2, <1>4, <2>1, <2>2, <2>3
<1>7. a \div S = h
  <2>1. PICK t \in 0 .. S - 1 : t = m * R + r
    BY <1>6
  <2> QED BY <1>4, <1>5, <2>1, DivUnique
<1>8. h \in 0 .. 7
  <2>1. a < 8 * S
    BY <1>1, <1>4, EncodingAssumption, SizeAssumption
  <2>2. CASE h >= 8
    <3>1. h * S >= 8 * S
      BY <1>4, <2>2
    <3> QED BY <1>4, <1>5, <1>6, <2>1, <3>1
  <2> QED BY <2>2
<1>9. h % 8 = h
  BY <1>8
<1>10. (a \div (ByteRadix * ByteRadix)) % 8 = h /\ (a \div ByteRadix) % ByteRadix = m
       /\ a % ByteRadix = r
  BY <1>1, <1>2, <1>3, <1>4, <1>7, <1>9
<1>11. h * ByteRadix * ByteRadix = h * S
  BY <1>1, <1>4
<1> QED BY <1>1, <1>5, <1>8, <1>10, <1>11 DEF Byte

\* A log word that holds an entry for bytes of the logical data.
Good(e) ==
  /\ e \in [1 .. 8 -> Byte] /\ e # Erased /\ GetType(e) = TYPE_MULTIBYTE
  /\ MultibyteLength(e) \in 1 .. 5 /\ MultibyteAddress(e) \in Nat
  /\ MultibyteAddress(e) + MultibyteLength(e) <= LogicalSize

\* The word e holds the bytes vals for address a.
Holds(e, a, vals) ==
  /\ Good(e) /\ MultibyteAddress(e) = a /\ MultibyteLength(e) = Len(vals)
  /\ \A i \in 1 .. Len(vals) : e[3 + i] = vals[i]

LEMMA EntryHolds ==
  ASSUME WriteSize = 8, NEW a \in Nat, NEW vals \in Seq(Byte), Len(vals) \in 1 .. 5,
         a + Len(vals) <= LogicalSize
  PROVE  /\ Len(Words(MakeMultibyte(a, vals), 1)) = 1
         /\ Words(MakeMultibyte(a, vals), 1) \in Seq([1 .. 8 -> Byte])
         /\ Holds(Words(MakeMultibyte(a, vals), 1)[1], a, vals)
<1>4. PICK l \in 1 .. 5 : l = Len(vals)
  OBVIOUS
<1>0. a < LogicalSize
  BY <1>4, SizeAssumption
<1>1. PICK h \in 0 .. 7 : h = (a \div (ByteRadix * ByteRadix)) % 8
  BY <1>0, AddressParts, Zenon
<1>2. PICK m \in Byte : m = (a \div ByteRadix) % ByteRadix
  BY <1>0, AddressParts, Zenon
<1>3. PICK r \in Byte : r = a % ByteRadix
  BY <1>0, AddressParts, Zenon
<1>5. PICK t \in Byte : t = l * 8 + h
  BY DEF Byte
<1>6. MakeMultibyte(a, vals) = <<t, m, r>> \o vals
  <2>1. TYPE_MULTIBYTE * 64 + Len(vals) * 8 + ((a \div (ByteRadix * ByteRadix)) % 8) = t
    BY <1>1, <1>4, <1>5 DEF TYPE_MULTIBYTE
  <2> QED BY <1>2, <1>3, <2>1 DEF MakeMultibyte
<1>7. PICK e \in Seq(Byte) : e = <<t, m, r>> \o vals
  <2>1. <<t, m, r>> \in Seq(Byte)
    OBVIOUS
  <2>2. <<t, m, r>> \o vals \in Seq(Byte)
    BY <2>1
  <2> QED BY <2>2
<1>8. /\ Len(e) = 3 + l /\ e[1] = t /\ e[2] = m /\ e[3] = r
      /\ \A i \in 1 .. l : e[3 + i] = vals[i]
  BY <1>4, <1>7
<1>9. PICK w \in [1 .. 8 -> Byte] : w = [k \in 1 .. 8 |-> IF k <= Len(e) THEN e[k] ELSE 0]
  <2>1. \A k \in 1 .. 8 : (IF k <= Len(e) THEN e[k] ELSE 0) \in Byte
    <3>1. \A k \in 1 .. Len(e) : e[k] \in Byte
      BY <1>7
    <3> QED BY <1>8, <3>1 DEF Byte
  <2> QED BY <2>1
<1>10. /\ w[1] = t /\ w[2] = m /\ w[3] = r
       /\ \A i \in 1 .. l : w[3 + i] = vals[i]
  <2>1. \A k \in 1 .. 3 + l : w[k] = e[k]
    BY <1>8, <1>9
  <2>2. \A i \in 1 .. l : 3 + i \in 1 .. 3 + l
    OBVIOUS
  <2> QED BY <1>8, <2>1, <2>2
<1>11. Words(e, 1) = [i \in 1 .. 1 |-> w]
  <2>1. \A i \in 1 .. 1 : \A k \in 1 .. 8 : (i - 1) * WriteSize + k = k
    OBVIOUS
  <2> QED BY <1>9, <2>1 DEF Words
<1>12. GetType(w) = 0 /\ MultibyteLength(w) = l /\ w[1] % 8 = h
  <2>1. t \div 64 = 0
    <3>1. t = 0 * 64 + t /\ t \in 0 .. 64 - 1 /\ t \in Nat
      BY <1>5
    <3> QED BY <3>1, DivUnique
  <2>2. t \div 8 = l /\ t % 8 = h
    <3>1. t = l * 8 + h /\ h \in 0 .. 8 - 1 /\ t \in Nat /\ l \in Nat
      BY <1>5
    <3> QED BY <3>1, DivUnique
  <2>3. l % 8 = l
    <3>1. 8 \in Nat \ {0} /\ l \in Int /\ 0 <= l /\ l < 8
      OBVIOUS
    <3> QED BY <3>1, ModNear
  <2> QED BY <1>10, <2>1, <2>2, <2>3 DEF GetType, MultibyteLength
<1>13. MultibyteAddress(w) = a
  <2>1. h * ByteRadix * ByteRadix + m * ByteRadix + r = a
    BY <1>0, <1>1, <1>2, <1>3, AddressParts, Zenon
  <2> QED BY <1>10, <1>12, <2>1 DEF MultibyteAddress
<1>14. w # Erased
  BY <1>5, <1>10 DEF Erased
<1>15. Holds(w, a, vals)
  BY <1>4, <1>10, <1>12, <1>13, <1>14 DEF Holds, Good, TYPE_MULTIBYTE
<1>16. [i \in 1 .. 1 |-> w] = <<w>>
  OBVIOUS
<1>17. Words(MakeMultibyte(a, vals), 1) = <<w>>
  BY <1>6, <1>7, <1>11, <1>16, Zenon
<1>18. Len(<<w>>) = 1 /\ <<w>> \in Seq([1 .. 8 -> Byte]) /\ <<w>>[1] = w
  OBVIOUS
<1> QED BY <1>15, <1>17, <1>18, Zenon

\* The first entry is one word and holds the bytes it takes.
LEMMA FirstEntryFacts ==
  ASSUME WriteSize = 8, NEW a \in Nat, NEW vals \in Seq(Byte), Len(vals) > 0,
         a + Len(vals) <= LogicalSize
  PROVE  /\ FirstEntry(a, vals).bytes \in 1 .. Len(vals)
         /\ FirstEntry(a, vals).words \in Seq([1 .. 8 -> Byte])
         /\ Len(FirstEntry(a, vals).words) = 1
         /\ Holds(FirstEntry(a, vals).words[1], a, SubSeq(vals, 1, FirstEntry(a, vals).bytes))
<1>1. PICK n \in Nat \ {0} : n = Len(vals)
  OBVIOUS
<1>2. PICK l \in 1 .. 5 : l = (IF n >= 5 THEN 5 ELSE n) /\ l <= n
  OBVIOUS
<1>3. PICK sub \in Seq(Byte) : sub = SubSeq(vals, 1, l) /\ Len(sub) = l
  <2>1. SubSeq(vals, 1, l) \in Seq(Byte) /\ Len(SubSeq(vals, 1, l)) = l
    BY <1>1, <1>2
  <2> QED BY <2>1
<1>4. FirstEntry(a, vals) = [bytes |-> l, words |-> Words(MakeMultibyte(a, sub), EntryWords(l))]
  BY <1>1, <1>2, <1>3 DEF FirstEntry, LOG_ENTRY_MULTIBYTE_MAX_BYTES
<1>5. EntryWords(l) = 1
  BY DEF EntryWords
<1>6. FirstEntry(a, vals).bytes = l /\ FirstEntry(a, vals).words = Words(MakeMultibyte(a, sub), 1)
  BY <1>4, <1>5
<1>7. a + Len(sub) <= LogicalSize /\ Len(sub) \in 1 .. 5
  BY <1>1, <1>2, <1>3, SizeAssumption
<1>8. /\ Len(Words(MakeMultibyte(a, sub), 1)) = 1
      /\ Words(MakeMultibyte(a, sub), 1) \in Seq([1 .. 8 -> Byte])
      /\ Holds(Words(MakeMultibyte(a, sub), 1)[1], a, sub)
  BY <1>7, EntryHolds, Zenon
<1> QED BY <1>1, <1>2, <1>3, <1>6, <1>8

\* The encodings of the ends of vals, as LogWords makes them.
Encoding(a, vals) ==
  LET n == Len(vals)
      enc[r \in 0 .. n] ==
        IF r = 0 THEN <<>>
        ELSE LET e == FirstEntry(a + n - r, SubSeq(vals, n - r + 1, n))
             IN e.words \o enc[r - e.bytes]
  IN enc

\* Bytes that may be written.
Fits(a, vals) == a \in Nat /\ vals \in Seq(Byte) /\ a + Len(vals) <= LogicalSize

\* The entry for the last r bytes, how many of them it takes, and its word.
Part(a, vals, r) == FirstEntry(a + Len(vals) - r, SubSeq(vals, Len(vals) - r + 1, Len(vals)))

LEMMA PartFacts ==
  ASSUME WriteSize = 8, NEW a, NEW vals, Fits(a, vals), NEW r \in 1 .. Len(vals)
  PROVE  /\ Part(a, vals, r).bytes \in 1 .. r
         /\ Part(a, vals, r).words \in Seq([1 .. 8 -> Byte])
         /\ Len(Part(a, vals, r).words) = 1
         /\ LET w == Part(a, vals, r).words[1] IN
              /\ Good(w) /\ MultibyteAddress(w) = a + Len(vals) - r
              /\ MultibyteLength(w) = Part(a, vals, r).bytes
              /\ \A i \in 1 .. Part(a, vals, r).bytes : w[3 + i] = vals[Len(vals) - r + i]
<1>1. PICK n \in Nat : n = Len(vals)
  BY DEF Fits
<1>2. PICK b \in Nat : b = a + n - r
  BY <1>1 DEF Fits
<1>3. PICK sub \in Seq(Byte) :
        /\ sub = SubSeq(vals, n - r + 1, n) /\ Len(sub) = r
        /\ \A i \in 1 .. r : sub[i] = vals[n - r + i]
  <2>1. n - r + 1 \in 1 .. n /\ vals \in Seq(Byte)
    BY <1>1 DEF Fits
  <2>2. SubSeq(vals, n - r + 1, n) \in Seq(Byte) /\ Len(SubSeq(vals, n - r + 1, n)) = r
    BY <1>1, <2>1
  <2>3. \A i \in 1 .. r : SubSeq(vals, n - r + 1, n)[i] = vals[n - r + i]
    BY <1>1, <2>1
  <2> QED BY <2>2, <2>3
<1>4. b + Len(sub) <= LogicalSize /\ Len(sub) > 0
  BY <1>1, <1>2, <1>3, SizeAssumption DEF Fits
<1>5. PICK e : e = FirstEntry(b, sub)
  OBVIOUS
<1>6. /\ e.bytes \in 1 .. Len(sub)
      /\ e.words \in Seq([1 .. 8 -> Byte])
      /\ Len(e.words) = 1
      /\ Holds(e.words[1], b, SubSeq(sub, 1, e.bytes))
  BY <1>4, <1>5, FirstEntryFacts, Zenon
<1>7. Part(a, vals, r) = e
  BY <1>1, <1>2, <1>3, <1>5, Zenon DEF Part
<1>8. /\ Len(SubSeq(sub, 1, e.bytes)) = e.bytes
      /\ \A i \in 1 .. e.bytes : SubSeq(sub, 1, e.bytes)[i] = vals[n - r + i]
  BY <1>3, <1>6, SMTT(40)
<1> QED BY <1>1, <1>2, <1>3, <1>6, <1>7, <1>8 DEF Holds

\* A sequence of one element, and one element in front of a sequence.
LEMMA OneSeq ==
  ASSUME NEW S, NEW u \in Seq(S), Len(u) = 1
  PROVE  u = <<u[1]>> /\ u[1] \in S
<1>1. u[1] \in S
  OBVIOUS
<1>2. u = <<u[1]>>
  BY <1>1
<1> QED BY <1>1, <1>2

LEMMA ConsSeq ==
  ASSUME NEW S, NEW w \in S, NEW t \in Seq(S)
  PROVE  /\ <<w>> \o t \in Seq(S) /\ <<w>> \o t # <<>>
         /\ Head(<<w>> \o t) = w /\ Tail(<<w>> \o t) = t
<1>1. <<w>> \o t \in Seq(S)
  OBVIOUS
<1>2. Tail(<<w>> \o t) = t
  OBVIOUS
<1>3. Head(<<w>> \o t) = w
  OBVIOUS
<1>4. <<w>> \o t # <<>>
  OBVIOUS
<1> QED BY <1>1, <1>2, <1>3, <1>4, Zenon

\* f encodes the ends of vals of up to n bytes.
Encodes(f, a, vals, n) ==
  f = [r \in 0 .. n |->
         IF r = 0 THEN <<>> ELSE Part(a, vals, r).words \o f[r - Part(a, vals, r).bytes]]

LEMMA EncodingExists ==
  ASSUME WriteSize = 8, NEW a, NEW vals, Fits(a, vals)
  PROVE  \A n \in 0 .. Len(vals) : \E f : Encodes(f, a, vals, n)
<1>0. PICK N \in Nat : N = Len(vals)
  BY DEF Fits
<1> DEFINE S == {n \in 0 .. N : ~ \E f : Encodes(f, a, vals, n)}
<1>1. SUFFICES ASSUME S # {} PROVE FALSE
  BY <1>0
<1>2. PICK m \in S : \A j \in S : m <= j
  <2>1. S \subseteq Nat
    OBVIOUS
  <2> HIDE DEF S
  <2> QED BY <1>1, <2>1, SmallestElement
<1>3. m # 0
  <2>1. Encodes([k \in 0 .. 0 |-> <<>>], a, vals, 0)
    BY DEF Encodes
  <2> QED BY <2>1
<1>4. m \in 1 .. N /\ m - 1 \in 0 .. N /\ m - 1 \notin S
  BY <1>2, <1>3
<1>5. PICK f : Encodes(f, a, vals, m - 1)
  BY <1>4
<1>6. \A r \in 1 .. m : r - Part(a, vals, r).bytes \in 0 .. m - 1 /\ r - Part(a, vals, r).bytes < r
  <2> SUFFICES ASSUME NEW r \in 1 .. m
               PROVE  r - Part(a, vals, r).bytes \in 0 .. m - 1 /\ r - Part(a, vals, r).bytes < r
    OBVIOUS
  <2>1. r \in 1 .. Len(vals)
    BY <1>0, <1>4
  <2>2. Part(a, vals, r).bytes \in 1 .. r
    BY <2>1, PartFacts, Zenon
  <2> QED BY <1>4, <2>2
<1> DEFINE last == Part(a, vals, m).words \o f[m - Part(a, vals, m).bytes]
           g == [k \in 0 .. m |-> IF k = m THEN last ELSE f[k]]
<1>7. \A k \in 0 .. m - 1 :
        f[k] = IF k = 0 THEN <<>> ELSE Part(a, vals, k).words \o f[k - Part(a, vals, k).bytes]
  BY <1>5, Zenon DEF Encodes
<1>8. Encodes(g, a, vals, m)
  <2>1. ASSUME NEW k \in 0 .. m
        PROVE  g[k] = IF k = 0 THEN <<>> ELSE Part(a, vals, k).words \o g[k - Part(a, vals, k).bytes]
    <3>1. CASE k = 0
      <4>1. 0 \in 0 .. m - 1 /\ g[0] = f[0]
        BY <1>4
      <4> QED BY <1>7, <3>1, <4>1
    <3>2. CASE k # 0
      <4>1. PICK j \in 0 .. m - 1 : j = k - Part(a, vals, k).bytes
        BY <1>6, <3>2
      <4>2. g[j] = f[j]
        BY <1>4
      <4>3. g[k] = Part(a, vals, k).words \o f[j]
        <5>1. CASE k = m
          <6>1. g[k] = last
            BY <5>1
          <6> QED BY <4>1, <5>1, <6>1
        <5>2. CASE k # m
          <6>1. k \in 0 .. m - 1 /\ g[k] = f[k]
            BY <1>4, <5>2
          <6> HIDE DEF g, last
          <6> QED BY <1>7, <3>2, <4>1, <6>1
        <5> QED BY <5>1, <5>2
      <4> HIDE DEF g
      <4> QED BY <3>2, <4>1, <4>2, <4>3
    <3> QED BY <3>1, <3>2
  <2>2. g = [k \in 0 .. m |-> g[k]]
    OBVIOUS
  <2> HIDE DEF g
  <2> QED BY <2>1, <2>2, Zenon DEF Encodes
<1> QED BY <1>2, <1>8

\* Every end is encoded by the word of its first entry and the encoding of the
\* rest.
LEMMA EncodingFacts ==
  ASSUME WriteSize = 8, NEW a, NEW vals, Fits(a, vals)
  PROVE  /\ LogWords(a, vals) = Encoding(a, vals)[Len(vals)]
         /\ Encoding(a, vals)[0] = <<>>
         /\ \A r \in 1 .. Len(vals) :
              /\ Encoding(a, vals)[r] \in Seq([1 .. 8 -> Byte])
              /\ Encoding(a, vals)[r] # <<>>
              /\ Head(Encoding(a, vals)[r]) = Part(a, vals, r).words[1]
              /\ Tail(Encoding(a, vals)[r]) = Encoding(a, vals)[r - Part(a, vals, r).bytes]
<1>0. PICK N \in Nat : N = Len(vals)
  BY DEF Fits
<1> DEFINE f == CHOOSE g : Encodes(g, a, vals, N)
           W == [1 .. 8 -> Byte]
           S == {r \in 0 .. N : f[r] \notin Seq(W)}
<1>1. Encodes(f, a, vals, N)
  <2>1. N \in 0 .. Len(vals)
    BY <1>0
  <2>2. \E g : Encodes(g, a, vals, N)
    BY <2>1, EncodingExists, Zenon
  <2> QED BY <2>2, Zenon
<1>2. Encoding(a, vals) = f
  BY <1>0, Zenon DEF Encoding, Part, Encodes
<1>3. LogWords(a, vals) = f[Len(vals)]
  BY <1>0, Zenon DEF LogWords, Part, Encodes
<1> HIDE DEF f
<1>4. \A r \in 0 .. N :
        f[r] = IF r = 0 THEN <<>> ELSE Part(a, vals, r).words \o f[r - Part(a, vals, r).bytes]
  BY <1>1, Zenon DEF Encodes
<1>5. \A r \in 1 .. N : r - Part(a, vals, r).bytes \in 0 .. N /\ r - Part(a, vals, r).bytes < r
  <2> SUFFICES ASSUME NEW r \in 1 .. N
               PROVE  r - Part(a, vals, r).bytes \in 0 .. N /\ r - Part(a, vals, r).bytes < r
    OBVIOUS
  <2>1. Part(a, vals, r).bytes \in 1 .. r
    BY <1>0, PartFacts, Zenon
  <2> QED BY <2>1
<1> HIDE DEF W
<1>7. ASSUME NEW r \in 1 .. N, NEW j \in 0 .. N, j = r - Part(a, vals, r).bytes, f[j] \in Seq(W)
      PROVE  /\ f[r] \in Seq(W) /\ f[r] # <<>>
             /\ Head(f[r]) = Part(a, vals, r).words[1]
             /\ Tail(f[r]) = f[j]
  <2>1. PICK u : u = Part(a, vals, r).words
    OBVIOUS
  <2>2. u \in Seq(W) /\ Len(u) = 1
    BY <1>0, <2>1, PartFacts, Zenon DEF W
  <2>3. u = <<u[1]>> /\ u[1] \in W
    BY <2>2, OneSeq, Zenon
  <2>4. PICK w \in W : w = u[1]
    BY <2>3
  <2>5. PICK t \in Seq(W) : t = f[j]
    BY <1>7
  <2>6. r \in 0 .. N /\ r # 0
    OBVIOUS
  <2>7. f[r] = <<w>> \o t
    BY <1>4, <1>7, <2>1, <2>3, <2>4, <2>5, <2>6, Zenon
  <2>8. /\ <<w>> \o t \in Seq(W) /\ <<w>> \o t # <<>>
        /\ Head(<<w>> \o t) = w /\ Tail(<<w>> \o t) = t
    BY ConsSeq, Zenon
  <2> QED BY <2>1, <2>4, <2>5, <2>7, <2>8, Zenon
<1>6. S = {}
  <2>1. SUFFICES ASSUME S # {} PROVE FALSE
    OBVIOUS
  <2>2. PICK m \in S : \A j \in S : m <= j
    <3>1. S \subseteq Nat
      OBVIOUS
    <3> HIDE DEF S
    <3> QED BY <2>1, <3>1, SmallestElement
  <2>3. m # 0
    <3>1. <<>> \in Seq(W) /\ 0 \in 0 .. N
      OBVIOUS
    <3>2. f[0] = <<>>
      BY <1>4, <3>1, Zenon
    <3> QED BY <2>2, <3>1, <3>2
  <2>4. m \in 1 .. N
    BY <2>2, <2>3
  <2>5. PICK j \in 0 .. N : j = m - Part(a, vals, m).bytes /\ j < m
    BY <1>5, <2>4
  <2>6. f[j] \in Seq(W)
    BY <2>2, <2>5
  <2>7. f[m] \in Seq(W)
    BY <1>7, <2>4, <2>5, <2>6, Zenon
  <2> QED BY <2>2, <2>7
<1>8. ASSUME NEW r \in 1 .. N
      PROVE  /\ f[r] \in Seq(W) /\ f[r] # <<>>
             /\ Head(f[r]) = Part(a, vals, r).words[1]
             /\ Tail(f[r]) = f[r - Part(a, vals, r).bytes]
  <2>1. PICK j \in 0 .. N : j = r - Part(a, vals, r).bytes
    BY <1>5
  <2>2. f[j] \in Seq(W)
    BY <1>6
  <2> QED BY <1>7, <2>1, <2>2, Zenon
<1>9. f[0] = <<>>
  <2>1. 0 \in 0 .. N
    OBVIOUS
  <2> QED BY <1>4, <2>1, Zenon
<1> QED BY <1>0, <1>2, <1>3, <1>8, <1>9, Zenon DEF W

-----------------------------------------------------------------------------
(* Playback of a log of good entries.                                      *)

\* The data after the entry e.
Apply(c, e) == Put(c, MultibyteAddress(e), SubSeq(e, 4, 3 + MultibyteLength(e)))

LEMMA FunSeq ==
  ASSUME NEW S, NEW n \in Nat, NEW e \in [1 .. n -> S]
  PROVE  e \in Seq(S) /\ Len(e) = n
OBVIOUS

LEMMA ApplyFacts ==
  ASSUME NEW c \in Image, NEW e, Good(e)
  PROVE  /\ Apply(c, e) \in Image
         /\ \A x \in Addr : Apply(c, e)[x] =
              IF x \in MultibyteAddress(e) .. MultibyteAddress(e) + MultibyteLength(e) - 1
              THEN e[3 + (x - MultibyteAddress(e) + 1)] ELSE c[x]
<1>1. PICK a \in Nat, l \in 1 .. 5 : a = MultibyteAddress(e) /\ l = MultibyteLength(e)
  BY DEF Good
<1>2. e \in Seq(Byte) /\ Len(e) = 8 /\ \A k \in 1 .. 8 : e[k] \in Byte
  <2>1. e \in [1 .. 8 -> Byte]
    BY DEF Good
  <2>2. e \in Seq(Byte) /\ Len(e) = 8
    <3>1. 8 \in Nat
      OBVIOUS
    <3> QED BY <2>1, <3>1, FunSeq, Zenon
  <2> QED BY <2>1, <2>2
<1>3. PICK s : s = SubSeq(e, 4, 3 + l)
  OBVIOUS
<1>4. Len(s) = l /\ \A i \in 1 .. l : s[i] = e[3 + i]
  <2>1. Len(SubSeq(e, 4, 3 + l)) = l
    BY <1>2
  <2>2. \A i \in 1 .. l : SubSeq(e, 4, 3 + l)[i] = e[3 + i]
    BY <1>2
  <2> QED BY <1>3, <2>1, <2>2
<1>5. Apply(c, e) = [x \in Addr |-> IF x \in a .. a + l - 1 THEN s[x - a + 1] ELSE c[x]]
  BY <1>1, <1>3, <1>4 DEF Apply, Put
<1>6. \A x \in Addr : x \in a .. a + l - 1 => x - a + 1 \in 1 .. l /\ 3 + (x - a + 1) \in 1 .. 8
  BY SizeAssumption DEF Addr
<1>7. \A x \in Addr : Apply(c, e)[x] = IF x \in a .. a + l - 1 THEN e[3 + (x - a + 1)] ELSE c[x]
  BY <1>4, <1>5, <1>6
<1>8. \A x \in Addr : Apply(c, e)[x] \in Byte
  BY <1>2, <1>6, <1>7 DEF Image
<1>9. Apply(c, e) \in Image
  BY <1>5, <1>8 DEF Image
<1> QED BY <1>1, <1>7, <1>9

\* The data after each of the first n entries of the log L.
Replays(f, L, start, n) == f = [k \in 0 .. n |-> IF k = 0 THEN start ELSE Apply(f[k - 1], L[k])]
Replay(L, start) == CHOOSE f : Replays(f, L, start, LogSlots)

LEMMA ReplayExists ==
  ASSUME NEW L, NEW start
  PROVE  \A n \in Nat : \E f : Replays(f, L, start, n)
<1> DEFINE S == {n \in Nat : ~ \E f : Replays(f, L, start, n)}
<1>1. SUFFICES ASSUME S # {} PROVE FALSE
  OBVIOUS
<1>2. PICK m \in S : \A j \in S : m <= j
  <2>1. S \subseteq Nat
    OBVIOUS
  <2> HIDE DEF S
  <2> QED BY <1>1, <2>1, SmallestElement
<1>3. m # 0
  <2>1. Replays([k \in 0 .. 0 |-> start], L, start, 0)
    BY DEF Replays
  <2> QED BY <2>1
<1>4. PICK f : Replays(f, L, start, m - 1)
  <2>1. m - 1 \in Nat /\ m - 1 \notin S
    BY <1>2, <1>3
  <2> QED BY <2>1
<1>5. Replays([k \in 0 .. m |-> IF k = m THEN Apply(f[m - 1], L[m]) ELSE f[k]], L, start, m)
  <2> DEFINE g == [k \in 0 .. m |-> IF k = m THEN Apply(f[m - 1], L[m]) ELSE f[k]]
  <2>1. ASSUME NEW k \in 0 .. m
        PROVE  g[k] = IF k = 0 THEN start ELSE Apply(g[k - 1], L[k])
    BY <1>3, <1>4 DEF Replays
  <2> QED BY <2>1 DEF Replays
<1> QED BY <1>2, <1>5

LEMMA ReplaySteps ==
  ASSUME NEW L, NEW start
  PROVE  /\ Replay(L, start)[0] = start
         /\ \A k \in 1 .. LogSlots : Replay(L, start)[k] = Apply(Replay(L, start)[k - 1], L[k])
<1>1. LogSlots \in Nat
  BY SizeAssumption
<1>2. PICK f : f = Replay(L, start)
  OBVIOUS
<1>3. Replays(f, L, start, LogSlots)
  <2>1. \E g : Replays(g, L, start, LogSlots)
    BY <1>1, ReplayExists, Zenon
  <2> QED BY <1>2, <2>1, Zenon DEF Replay
<1>4. f[0] = start /\ \A k \in 1 .. LogSlots : f[k] = Apply(f[k - 1], L[k])
  BY <1>1, <1>3 DEF Replays
<1> QED BY <1>2, <1>4, Zenon

\* Replaying good entries gives an image.
LEMMA ReplayImage ==
  ASSUME NEW L, NEW start \in Image, NEW n \in 0 .. LogSlots, \A i \in 1 .. n : Good(L[i])
  PROVE  \A k \in 0 .. n : Replay(L, start)[k] \in Image
<1>1. LogSlots \in Nat
  BY SizeAssumption
<1>2. PICK f : f = Replay(L, start) /\ f[0] = start
               /\ \A k \in 1 .. LogSlots : f[k] = Apply(f[k - 1], L[k])
  BY ReplaySteps
<1> DEFINE S == {k \in 0 .. n : f[k] \notin Image}
<1>3. SUFFICES ASSUME S # {} PROVE FALSE
  BY <1>2
<1>4. PICK m \in S : \A j \in S : m <= j
  <2>1. S \subseteq Nat
    BY <1>1
  <2> HIDE DEF S
  <2> QED BY <1>3, <2>1, SmallestElement
<1>5. m \in 1 .. n /\ m \in 1 .. LogSlots /\ m - 1 \in 0 .. n /\ m - 1 \notin S
  BY <1>1, <1>2, <1>4
<1>6. f[m - 1] \in Image /\ Good(L[m])
  BY <1>5
<1>7. f[m] \in Image
  BY <1>2, <1>5, <1>6, ApplyFacts
<1> QED BY <1>4, <1>7

\* Logs that agree in their first n slots replay alike.
LEMMA ReplaySame ==
  ASSUME NEW L, NEW M, NEW start, NEW n \in 0 .. LogSlots, \A i \in 1 .. n : L[i] = M[i]
  PROVE  \A k \in 0 .. n : Replay(L, start)[k] = Replay(M, start)[k]
<1>1. LogSlots \in Nat
  BY SizeAssumption
<1>2. PICK f : f = Replay(L, start) /\ f[0] = start
               /\ \A k \in 1 .. LogSlots : f[k] = Apply(f[k - 1], L[k])
  BY ReplaySteps
<1>3. PICK g : g = Replay(M, start) /\ g[0] = start
               /\ \A k \in 1 .. LogSlots : g[k] = Apply(g[k - 1], M[k])
  BY ReplaySteps
<1> DEFINE S == {k \in 0 .. n : f[k] # g[k]}
<1>4. SUFFICES ASSUME S # {} PROVE FALSE
  BY <1>2, <1>3
<1>5. PICK m \in S : \A j \in S : m <= j
  <2>1. S \subseteq Nat
    BY <1>1
  <2> HIDE DEF S
  <2> QED BY <1>4, <2>1, SmallestElement
<1>6. m \in 1 .. n /\ m \in 1 .. LogSlots /\ m - 1 \in 0 .. n /\ m - 1 \notin S
  BY <1>1, <1>2, <1>3, <1>5
<1>7. f[m - 1] = g[m - 1] /\ L[m] = M[m]
  BY <1>6
<1>8. f[m] = g[m]
  BY <1>2, <1>3, <1>6, <1>7
<1> QED BY <1>5, <1>8

\* A log whose first n slots hold good entries and whose other slots are blank.
Filled(n) ==
  /\ n \in 0 .. LogSlots
  /\ \A i \in 1 .. n : Good(log[i])
  /\ \A i \in n + 1 .. LogSlots : log[i] = Erased

LEMMA ReadGood ==
  ASSUME WriteSize = 8, NEW i \in Slots, Good(log[i])
  PROVE  ReadEntry(i) = log[i] /\ ReadSlot(i) = log[i] /\ PlaybackWords(log[i]) = 1
<1>1. log[i] \in [1 .. 8 -> Byte] /\ GetType(log[i]) = TYPE_MULTIBYTE
      /\ MultibyteAddress(log[i]) + MultibyteLength(log[i]) <= LogicalSize
  BY DEF Good
<1>2. ReadSlot(i) = log[i]
  BY DEF ReadSlot
<1>3. \A b \in 1 .. 8 : (b - 1) \div 8 = 0 /\ (b - 1) % 8 = b - 1
  <2> SUFFICES ASSUME NEW b \in 1 .. 8 PROVE (b - 1) \div 8 = 0 /\ (b - 1) % 8 = b - 1
    OBVIOUS
  <2>1. 8 \in Nat \ {0} /\ b - 1 \in Nat /\ 0 \in Nat /\ b - 1 \in 0 .. 8 - 1 /\ b - 1 = 0 * 8 + (b - 1)
    OBVIOUS
  <2> QED BY <2>1, DivUnique
<1>4. i \in Int
  BY SizeAssumption DEF Slots
<1>5. \A b \in 1 .. 8 : ReadSlot(i + (b - 1) \div WriteSize)[((b - 1) % WriteSize) + 1] = log[i][b]
  <2> SUFFICES ASSUME NEW b \in 1 .. 8
               PROVE  ReadSlot(i + (b - 1) \div WriteSize)[((b - 1) % WriteSize) + 1] = log[i][b]
    OBVIOUS
  <2>1. i + (b - 1) \div WriteSize = i /\ ((b - 1) % WriteSize) + 1 = b
    BY <1>3, <1>4
  <2> QED BY <1>2, <2>1
<1>6. ReadEntry(i) = [b \in 1 .. 8 |-> log[i][b]]
  BY <1>5 DEF ReadEntry
<1>7. ReadEntry(i) = log[i]
  BY <1>1, <1>6
<1>8. PlaybackWords(log[i]) = 1
  <2>1. EntryWords(MultibyteLength(log[i])) = 1
    BY DEF EntryWords
  <2>2. \/ PlaybackWords(log[i]) = EntryWords(MultibyteLength(log[i]))
        \/ MultibyteAddress(log[i]) + MultibyteLength(log[i]) > LogicalSize
    BY <1>1 DEF PlaybackWords
  <2>3. ~(MultibyteAddress(log[i]) + MultibyteLength(log[i]) > LogicalSize)
    BY SizeAssumption DEF Good
  <2> QED BY <2>1, <2>2, <2>3
<1> QED BY <1>2, <1>7, <1>8

\* A turn of playback at a good entry, at a blank slot, at a slot that the
\* driver fails to read, and when it is over.
LEMMA TurnOfGood ==
  ASSUME WriteSize = 8, NEW i \in Slots, Good(log[i]), NEW bad \in Nat, bad # i, NEW l, NEW c
  PROVE  PlaybackTurn(Played(i, l, c, FALSE, FALSE), bad)
           = Played(i + 1, i, Apply(c, log[i]), FALSE, FALSE)
<1>1. PICK p : p = Played(i, l, c, FALSE, FALSE)
  OBVIOUS
<1>2. p.next = i /\ p.cache = c /\ ~p.done
  BY <1>1 DEF Played
<1>3. PICK e : e = log[i]
  OBVIOUS
<1>4. ReadEntry(i) = e /\ ReadSlot(i) = e /\ PlaybackWords(e) = 1 /\ e # Erased
      /\ GetType(e) = TYPE_MULTIBYTE
  BY <1>3, ReadGood DEF Good
<1>5. MultibyteAddress(e) + MultibyteLength(e) <= LogicalSize
  BY <1>3 DEF Good
<1>6. i \in Nat /\ ~(i > LogSlots) /\ bad \notin i .. i + 1 - 1
  BY SizeAssumption DEF Slots
<1>7. PlaybackTurn(p, bad) = PlaybackEntry(p, bad)
  BY <1>2, <1>6 DEF PlaybackTurn
<1>8. Apply(c, e) = Put(c, MultibyteAddress(e), SubSeq(e, 4, 3 + MultibyteLength(e)))
  BY DEF Apply
<1>9. PlaybackEntry(p, bad) = Played(i + 1, i + 1 - 1, Apply(c, e), FALSE, FALSE)
  <2>1. GetType(e) = 0 /\ GetType(e) # TYPE_OPTIMIZED_64 /\ GetType(e) # TYPE_WORD_01
    BY <1>4 DEF TYPE_MULTIBYTE, TYPE_OPTIMIZED_64, TYPE_WORD_01
  <2>2. (CASE GetType(e) = TYPE_MULTIBYTE -> MultibyteAddress(e) + MultibyteLength(e) <= LogicalSize
          [] WriteSize = 2 /\ GetType(e) = TYPE_OPTIMIZED_64 -> Optimized64Address(e) < LogicalSize
          [] WriteSize = 2 /\ GetType(e) = TYPE_WORD_01 -> Word01Address(e) + 1 < LogicalSize
          [] OTHER -> FALSE) = TRUE
    BY <1>4, <1>5, <2>1
  <2>3. (CASE GetType(e) = TYPE_MULTIBYTE ->
                Put(c, MultibyteAddress(e), SubSeq(e, 4, 3 + MultibyteLength(e)))
           [] GetType(e) = TYPE_OPTIMIZED_64 -> Put(c, Optimized64Address(e), <<e[2]>>)
           [] GetType(e) = TYPE_WORD_01 -> Put(c, Word01Address(e), <<Word01Value(e), 0>>))
        = Apply(c, e)
    BY <1>4, <1>8, <2>1
  <2> QED BY <1>2, <1>4, <1>6, <2>2, <2>3, Zenon DEF PlaybackEntry
<1>10. i + 1 - 1 = i
  BY <1>6
<1> QED BY <1>1, <1>3, <1>7, <1>9, <1>10

LEMMA TurnOfBlank ==
  ASSUME NEW i \in Slots, log[i] = Erased, NEW bad \in Nat, bad # i, NEW l, NEW c
  PROVE  PlaybackTurn(Played(i, l, c, FALSE, FALSE), bad) = Played(i, i, c, TRUE, FALSE)
<1>1. PICK p : p = Played(i, l, c, FALSE, FALSE)
  OBVIOUS
<1>2. p.next = i /\ p.cache = c /\ ~p.done
  BY <1>1 DEF Played
<1>3. ReadSlot(i) = Erased
  BY DEF ReadSlot
<1>4. ~(i > LogSlots)
  BY SizeAssumption DEF Slots
<1>5. PlaybackTurn(p, bad) = PlaybackEntry(p, bad)
  BY <1>2, <1>4 DEF PlaybackTurn
<1>6. PlaybackEntry(p, bad) = Played(i, i, c, TRUE, FALSE)
  BY <1>2, <1>3, Zenon DEF PlaybackEntry
<1> QED BY <1>1, <1>5, <1>6

LEMMA TurnOfBad ==
  ASSUME NEW i \in Slots, NEW l, NEW c
  PROVE  PlaybackTurn(Played(i, l, c, FALSE, FALSE), i) = Played(i, i, c, TRUE, TRUE)
<1>1. PICK p : p = Played(i, l, c, FALSE, FALSE)
  OBVIOUS
<1>2. p.next = i /\ p.cache = c /\ ~p.done
  BY <1>1 DEF Played
<1>4. ~(i > LogSlots)
  BY SizeAssumption DEF Slots
<1>5. PlaybackTurn(p, i) = PlaybackEntry(p, i)
  BY <1>2, <1>4 DEF PlaybackTurn
<1>6. PlaybackEntry(p, i) = Played(i, i, c, TRUE, TRUE)
  BY <1>2, Zenon DEF PlaybackEntry
<1> QED BY <1>1, <1>5, <1>6

LEMMA TurnOver ==
  ASSUME NEW i, NEW l, NEW c, NEW failed, NEW bad
  PROVE  PlaybackTurn(Played(i, l, c, TRUE, failed), bad) = Played(i, l, c, TRUE, failed)
BY DEF PlaybackTurn, Played

\* The turns of playback.
LEMMA PlaybackTurns ==
  ASSUME NEW start, NEW bad
  PROVE  \E f : /\ f[0] = PlaybackStart(start)
                /\ \A k \in 1 .. LogSlots : f[k] = PlaybackTurn(f[k - 1], bad)
                /\ Playback(start, bad) = f[LogSlots]
<1> DEFINE Turns(f) == f = [k \in 0 .. LogSlots |->
             IF k = 0 THEN PlaybackStart(start) ELSE PlaybackTurn(f[k - 1], bad)]
           f == CHOOSE g : Turns(g)
<1>1. LogSlots \in Nat
  BY SizeAssumption
<1>2. Turns(f)
  BY <1>1, TurnsExist
<1>3. Playback(start, bad) = f[LogSlots]
  BY DEF Playback
<1>4. /\ f[0] = PlaybackStart(start)
      /\ \A k \in 1 .. LogSlots : f[k] = PlaybackTurn(f[k - 1], bad)
  <2> HIDE DEF f
  <2> QED BY <1>1, <1>2
<1> QED BY <1>3, <1>4

\* Playback of a filled log ends behind its last entry, with the entries'
\* data, or at the slot that cannot be read, if it gets there.
PlaybackEnd(n, start, bad) ==
  IF bad \in 1 .. n + 1 THEN Played(bad, bad, Replay(log, start)[bad - 1], TRUE, TRUE)
  ELSE IF n = LogSlots THEN Played(n + 1, n, Replay(log, start)[n], FALSE, FALSE)
  ELSE Played(n + 1, n + 1, Replay(log, start)[n], TRUE, FALSE)

LEMMA PlaybackFilled ==
  WriteSize = 8 => \A n, start : \A bad \in 0 .. LogSlots :
                     Filled(n) => Playback(start, bad) = PlaybackEnd(n, start, bad)
<1> SUFFICES ASSUME WriteSize = 8, NEW n, NEW start, NEW bad \in 0 .. LogSlots, Filled(n)
             PROVE  Playback(start, bad) = PlaybackEnd(n, start, bad)
  BY Zenon
<1>1. LogSlots \in Nat \ {0} /\ n \in 0 .. LogSlots
  BY SizeAssumption DEF Filled
<1>2. PICK f : /\ f[0] = PlaybackStart(start)
               /\ \A k \in 1 .. LogSlots : f[k] = PlaybackTurn(f[k - 1], bad)
               /\ Playback(start, bad) = f[LogSlots]
  BY PlaybackTurns, Zenon
<1>3. PICK d : /\ d = Replay(log, start) /\ d[0] = start
               /\ \A k \in 1 .. LogSlots : d[k] = Apply(d[k - 1], log[k])
  BY ReplaySteps
<1>4. PICK m \in Nat : m = (IF bad \in 1 .. n + 1 THEN bad - 1 ELSE n) /\ m <= n
  BY <1>1
<1>0. n \in Nat /\ n <= LogSlots /\ bad \in Nat /\ bad <= LogSlots
  BY <1>1
<1> DEFINE S == {k \in 0 .. m : f[k] # Played(k + 1, k, d[k], FALSE, FALSE)}
<1>5. S = {}
  <2> SUFFICES ASSUME S # {} PROVE FALSE
    OBVIOUS
  <2>1. PICK j \in S : \A i \in S : j <= i
    <3>1. S \subseteq 0 .. m
      BY Zenon
    <3>2. 0 .. m \subseteq Nat
      OBVIOUS
    <3>3. S \subseteq Nat
      BY <3>1, <3>2, Zenon
    <3> HIDE DEF S
    <3> QED BY <3>3, SmallestElement
  <2>2. j # 0
    <3>1. f[0] = Played(1, 0, start, FALSE, FALSE)
      BY <1>2 DEF PlaybackStart
    <3>2. 0 + 1 = 1 /\ f[0] = Played(0 + 1, 0, d[0], FALSE, FALSE)
      BY <1>3, <3>1
    <3> QED BY <2>1, <3>2
  <2>3. j \in 1 .. m /\ j \in Slots /\ j \in 1 .. n /\ j - 1 \in 0 .. m /\ j - 1 \notin S
    <3>1. j \in 0 .. m
      BY <2>1, Zenon
    <3> HIDE DEF S
    <3> QED BY <1>0, <1>1, <1>4, <2>1, <2>2, <3>1 DEF Slots
  <2>4. f[j - 1] = Played(j, j - 1, d[j - 1], FALSE, FALSE)
    <3>1. j - 1 + 1 = j
      BY <2>3
    <3> QED BY <2>3, <3>1
  <2>5. bad # j /\ bad \in Nat
    BY <1>1, <1>4, <2>3
  <2>6. Good(log[j])
    BY <2>3 DEF Filled
  <2>7. f[j] = Played(j + 1, j, Apply(d[j - 1], log[j]), FALSE, FALSE)
    <3>1. f[j] = PlaybackTurn(Played(j, j - 1, d[j - 1], FALSE, FALSE), bad)
      BY <1>2, <2>3, <2>4 DEF Slots
    <3>2. PlaybackTurn(Played(j, j - 1, d[j - 1], FALSE, FALSE), bad)
            = Played(j + 1, j, Apply(d[j - 1], log[j]), FALSE, FALSE)
      BY <2>3, <2>5, <2>6, TurnOfGood, Zenon
    <3> QED BY <3>1, <3>2
  <2>8. f[j] = Played(j + 1, j, d[j], FALSE, FALSE)
    BY <1>3, <2>3, <2>7 DEF Slots
  <2> QED BY <2>1, <2>8
<1>6. f[m] = Played(m + 1, m, d[m], FALSE, FALSE)
  <2>1. m \in 0 .. m
    OBVIOUS
  <2> QED BY <1>5, <2>1
<1>7. CASE m = LogSlots
  <2>1. m = n /\ bad \notin 1 .. n + 1
    BY <1>0, <1>4, <1>7
  <2> QED BY <1>2, <1>3, <1>6, <1>7, <2>1 DEF PlaybackEnd
<1>8. CASE m # LogSlots
  <2>1. m + 1 \in Slots /\ m + 1 - 1 = m
    BY <1>0, <1>1, <1>4, <1>8 DEF Slots
  <2>2. PICK failed \in BOOLEAN : failed <=> bad \in 1 .. n + 1
    <3>1. CASE bad \in 1 .. n + 1
      BY <3>1
    <3>2. CASE bad \notin 1 .. n + 1
      BY <3>2
    <3> QED BY <3>1, <3>2
  <2>3. f[m + 1] = PlaybackTurn(Played(m + 1, m, d[m], FALSE, FALSE), bad)
    <3>1. PICK k \in 1 .. LogSlots : k = m + 1
      BY <2>1 DEF Slots
    <3>2. f[k] = PlaybackTurn(f[k - 1], bad)
      BY <1>2
    <3>3. k - 1 = m
      BY <3>1
    <3> QED BY <1>6, <3>1, <3>2, <3>3
  <2>4. f[m + 1] = Played(m + 1, m + 1, d[m], TRUE, failed)
    <3>1. CASE bad \in 1 .. n + 1
      <4>1. bad = m + 1
        BY <1>1, <1>4, <3>1
      <4>2. PlaybackTurn(Played(m + 1, m, d[m], FALSE, FALSE), m + 1)
              = Played(m + 1, m + 1, d[m], TRUE, TRUE)
        BY <2>1, TurnOfBad, Zenon
      <4>3. failed = TRUE
        BY <2>2, <3>1
      <4> QED BY <2>3, <4>1, <4>2, <4>3, Zenon
    <3>2. CASE bad \notin 1 .. n + 1
      <4>1. m = n
        BY <1>4, <3>2
      <4>5. bad # m + 1 /\ bad \in Nat
        BY <1>0, <1>4, <3>2
      <4>2. log[m + 1] = Erased
        <5>1. m + 1 \in n + 1 .. LogSlots
          BY <1>1, <2>1, <4>1 DEF Slots
        <5> QED BY <5>1 DEF Filled
      <4>3. PlaybackTurn(Played(m + 1, m, d[m], FALSE, FALSE), bad)
              = Played(m + 1, m + 1, d[m], TRUE, FALSE)
        BY <2>1, <4>2, <4>5, TurnOfBlank, ZenonT(60)
      <4>4. failed = FALSE
        BY <2>2, <3>2
      <4> QED BY <2>3, <4>3, <4>4, Zenon
    <3> QED BY <3>1, <3>2
  <2>5. PICK e : e = Played(m + 1, m + 1, d[m], TRUE, failed)
    OBVIOUS
  <2>6. PlaybackTurn(e, bad) = e
    BY <2>5, TurnOver, Zenon
  <2> DEFINE T == {k \in m + 1 .. LogSlots : f[k] # e}
  <2>7. T = {}
    <3> SUFFICES ASSUME T # {} PROVE FALSE
      OBVIOUS
    <3>1. PICK j \in T : \A i \in T : j <= i
      <4>1. T \subseteq Nat
        BY <1>1
      <4> HIDE DEF T
      <4> QED BY <4>1, SmallestElement
    <3>2. j # m + 1
      BY <2>4, <2>5, <3>1
    <3>3. j \in 1 .. LogSlots /\ j - 1 \in m + 1 .. LogSlots /\ j - 1 \notin T
      BY <1>1, <3>1, <3>2
    <3>4. f[j] = PlaybackTurn(e, bad)
      BY <1>2, <3>3
    <3> QED BY <2>6, <3>1, <3>4
  <2>8. LogSlots \in m + 1 .. LogSlots
    BY <1>0, <1>1, <1>4, <1>8
  <2>9. Playback(start, bad) = Played(m + 1, m + 1, d[m], TRUE, failed)
    BY <1>2, <2>5, <2>7, <2>8
  <2>10. CASE bad \in 1 .. n + 1
    <3>1. m = bad - 1 /\ m + 1 = bad /\ failed = TRUE
      BY <1>0, <1>4, <2>2, <2>10
    <3> QED BY <1>3, <2>9, <2>10, <3>1, Zenon DEF PlaybackEnd
  <2>11. CASE bad \notin 1 .. n + 1
    <3>1. m = n /\ n # LogSlots /\ failed = FALSE
      BY <1>0, <1>4, <1>8, <2>2, <2>11
    <3> QED BY <1>3, <2>9, <2>11, <3>1, Zenon DEF PlaybackEnd
  <2> QED BY <2>10, <2>11
<1> QED BY <1>7, <1>8

\* What the refinement mapping reads off the store is what a restart would read.
LEMMA KeptIsRecovered == Kept = Recovered
<1>1. LogSlots \in Nat
  BY SizeAssumption
<1> DEFINE start == ReadConsolidated
           Turns(g) == g = [k \in 0 .. LogSlots |->
             IF k = 0 THEN {PlaybackStart(start)} ELSE {PlaybackTurn(p, 0) : p \in g[k - 1]}]
           h == CHOOSE g : Turns(g)
<1>2. Kept = (CHOOSE p \in h[LogSlots] : TRUE).cache
  BY DEF Kept
<1> HIDE DEF start
<1>3. PICK f : /\ f[0] = PlaybackStart(start)
               /\ \A k \in 1 .. LogSlots : f[k] = PlaybackTurn(f[k - 1], 0)
               /\ Playback(start, 0) = f[LogSlots]
  BY PlaybackTurns, Zenon
<1>4. Turns([k \in 0 .. LogSlots |-> {f[k]}])
  <2> DEFINE g == [k \in 0 .. LogSlots |-> {f[k]}]
  <2>1. ASSUME NEW k \in 0 .. LogSlots
        PROVE  {f[k]} = IF k = 0 THEN {PlaybackStart(start)} ELSE {PlaybackTurn(p, 0) : p \in g[k - 1]}
    <3>1. CASE k = 0
      BY <1>3, <3>1
    <3>2. CASE k # 0
      <4>1. k \in 1 .. LogSlots /\ k - 1 \in 0 .. LogSlots
        BY <1>1, <3>2
      <4>2. f[k] = PlaybackTurn(f[k - 1], 0) /\ g[k - 1] = {f[k - 1]}
        BY <1>3, <4>1
      <4>3. {PlaybackTurn(p, 0) : p \in {f[k - 1]}} = {PlaybackTurn(f[k - 1], 0)}
        BY Zenon
      <4> HIDE DEF g
      <4> QED BY <3>2, <4>2, <4>3
    <3> QED BY <3>1, <3>2
  <2> QED BY <2>1, Zenon
<1>5. Turns(h)
  BY <1>4
<1>6. /\ h[0] = {PlaybackStart(start)}
      /\ \A k \in 1 .. LogSlots : h[k] = {PlaybackTurn(p, 0) : p \in h[k - 1]}
  <2> HIDE DEF h
  <2> QED BY <1>1, <1>5
<1> HIDE DEF h
<1> DEFINE S == {k \in 0 .. LogSlots : h[k] # {f[k]}}
<1>7. S = {}
  <2> SUFFICES ASSUME S # {} PROVE FALSE
    OBVIOUS
  <2>1. PICK j \in S : \A i \in S : j <= i
    <3>1. S \subseteq Nat
      BY <1>1
    <3> HIDE DEF S
    <3> QED BY <3>1, SmallestElement
  <2>2. j # 0
    BY <1>3, <1>6, <2>1
  <2>3. j \in 1 .. LogSlots /\ j - 1 \in 0 .. LogSlots /\ j - 1 \notin S
    BY <1>1, <2>1, <2>2
  <2>4. h[j - 1] = {f[j - 1]}
    BY <2>3
  <2>5. h[j] = {PlaybackTurn(f[j - 1], 0)}
    <3>1. {PlaybackTurn(p, 0) : p \in {f[j - 1]}} = {PlaybackTurn(f[j - 1], 0)}
      BY Zenon
    <3> QED BY <1>6, <2>3, <2>4, <3>1
  <2> QED BY <1>3, <2>1, <2>3, <2>5
<1>8. h[LogSlots] = {f[LogSlots]}
  BY <1>1, <1>7
<1>9. (CHOOSE p \in h[LogSlots] : TRUE) = f[LogSlots]
  BY <1>8
<1> QED BY <1>2, <1>3, <1>9 DEF Recovered, start

\* What a restart reads from a filled log.
ReadsEntries ==
  WriteSize = 8 => \A n : Filled(n) => Recovered = Replay(log, ReadConsolidated)[n]

LEMMA RecoveredFilled == ReadsEntries
<1> SUFFICES ASSUME WriteSize = 8, NEW n, Filled(n)
             PROVE  Recovered = Replay(log, ReadConsolidated)[n]
  BY Zenon DEF ReadsEntries
<1>1. n \in 0 .. LogSlots /\ LogSlots \in Nat /\ 0 \in 0 .. LogSlots /\ 0 \notin 1 .. n + 1
  BY SizeAssumption DEF Filled
<1>2. Playback(ReadConsolidated, 0) = PlaybackEnd(n, ReadConsolidated, 0)
  BY <1>1, PlaybackFilled, Zenon
<1>3. PlaybackEnd(n, ReadConsolidated, 0).cache = Replay(log, ReadConsolidated)[n]
  BY <1>1 DEF PlaybackEnd, Played
<1> QED BY <1>2, <1>3 DEF Recovered

LEMMA RecoveredImage ==
  WriteSize = 8 /\ image \in Image => \A n : Filled(n) => ReadConsolidated \in Image /\ Recovered \in Image
<1> SUFFICES ASSUME WriteSize = 8, image \in Image, NEW n, Filled(n)
             PROVE  ReadConsolidated \in Image /\ Recovered \in Image
  BY Zenon
<1>1. Zeros \in Image
  BY DEF Zeros, Image, Byte
<1>2. ReadConsolidated \in Image
  BY <1>1, Zenon DEF ReadConsolidated
<1>3. n \in 0 .. LogSlots /\ n \in 0 .. n /\ \A i \in 1 .. n : Good(log[i])
  BY SizeAssumption DEF Filled
<1>4. Replay(log, ReadConsolidated)[n] \in Image
  BY <1>2, <1>3, ReplayImage, Zenon
<1>5. Recovered = Replay(log, ReadConsolidated)[n]
  BY RecoveredFilled, Zenon DEF ReadsEntries
<1> QED BY <1>2, <1>4, <1>5, Zenon

-----------------------------------------------------------------------------
(* What the steps of the algorithm do to what a restart reads.             *)

LEMMA StoreSame ==
  ASSUME WriteSize = 8, NEW n, Filled(n), UNCHANGED store
  PROVE  Filled(n)' /\ Recovered' = Recovered
<1>1. image' = image /\ checksum' = checksum /\ log' = log
  BY DEF store
<1>2. Filled(n)'
  BY <1>1 DEF Filled
<1>3. ReadConsolidated' = ReadConsolidated
  BY <1>1, Zenon DEF ReadConsolidated
<1>4. Recovered = Replay(log, ReadConsolidated)[n]
  BY RecoveredFilled, Zenon DEF ReadsEntries
<1>5. ReadsEntries'
  BY RecoveredFilled, PTL
<1>6. Recovered' = Replay(log', ReadConsolidated')[n]
  BY <1>2, <1>5, Zenon DEF ReadsEntries
<1> QED BY <1>1, <1>2, <1>3, <1>4, <1>6, Zenon

\* One good entry more.
LEMMA StoreAppend ==
  ASSUME WriteSize = 8, NEW n, Filled(n), n < LogSlots, NEW w, Good(w),
         log' = [i \in Slots |-> IF i = n + 1 THEN w ELSE log[i]],
         image' = image, checksum' = checksum
  PROVE  Filled(n + 1)' /\ Recovered' = Apply(Recovered, w)
<1>1. n \in Nat /\ LogSlots \in Nat /\ n + 1 \in 1 .. LogSlots /\ n \in 0 .. LogSlots
  BY SizeAssumption DEF Filled
<1>2. log'[n + 1] = w
  BY <1>1 DEF Slots
<1>3. \A i \in 1 .. n : log'[i] = log[i]
  BY <1>1 DEF Slots
<1>4. \A i \in n + 2 .. LogSlots : log'[i] = log[i]
  BY <1>1 DEF Slots
<1>5. Filled(n + 1)'
  <2>1. n + 1 \in 0 .. LogSlots /\ n + 1 + 1 = n + 2
    BY <1>1
  <2>2. \A i \in 1 .. n + 1 : Good(log'[i])
    <3> SUFFICES ASSUME NEW i \in 1 .. n + 1 PROVE Good(log'[i])
      OBVIOUS
    <3>1. CASE i = n + 1
      BY <1>2, <3>1
    <3>2. CASE i # n + 1
      <4>1. i \in 1 .. n
        BY <1>1, <3>2
      <4> QED BY <1>3, <4>1 DEF Filled
    <3> QED BY <3>1, <3>2
  <2>3. \A i \in n + 2 .. LogSlots : log'[i] = Erased
    <3> SUFFICES ASSUME NEW i \in n + 2 .. LogSlots PROVE log'[i] = Erased
      OBVIOUS
    <3>1. i \in n + 1 .. LogSlots
      BY <1>1
    <3> QED BY <1>4, <3>1 DEF Filled
  <2> QED BY <2>1, <2>2, <2>3 DEF Filled
<1>6. ReadConsolidated' = ReadConsolidated
  BY Zenon DEF ReadConsolidated
<1>7. Recovered = Replay(log, ReadConsolidated)[n]
  BY RecoveredFilled, Zenon DEF ReadsEntries
<1>8. ReadsEntries'
  BY RecoveredFilled, PTL
<1>9. Recovered' = Replay(log', ReadConsolidated')[n + 1]
  BY <1>5, <1>8, Zenon DEF ReadsEntries
<1>10. PICK L, start : L = log' /\ start = ReadConsolidated
  OBVIOUS
<1>11. Replay(L, start)[n + 1] = Apply(Replay(L, start)[n], L[n + 1])
  <2>1. n + 1 - 1 = n
    BY <1>1
  <2>2. Replay(L, start)[n + 1] = Apply(Replay(L, start)[n + 1 - 1], L[n + 1])
    BY <1>1, ReplaySteps
  <2> QED BY <2>1, <2>2, Zenon
<1>12. Replay(L, start)[n] = Replay(log, start)[n]
  <2>1. \A i \in 1 .. n : L[i] = log[i]
    BY <1>3, <1>10
  <2>2. n \in 0 .. n
    BY <1>1
  <2> QED BY <1>1, <2>1, <2>2, ReplaySame
<1>13. Recovered' = Apply(Recovered, w)
  BY <1>2, <1>6, <1>7, <1>9, <1>10, <1>11, <1>12, Zenon
<1> QED BY <1>5, <1>13

\* An empty log: the image, if its checksum is right.
LEMMA StoreEmpty == WriteSize = 8 /\ Filled(0) => Recovered = ReadConsolidated
<1> SUFFICES ASSUME WriteSize = 8, Filled(0) PROVE Recovered = ReadConsolidated
  OBVIOUS
<1>1. Recovered = Replay(log, ReadConsolidated)[0]
  BY RecoveredFilled, Zenon DEF ReadsEntries
<1>2. Replay(log, ReadConsolidated)[0] = ReadConsolidated
  BY ReplaySteps, Zenon
<1> QED BY <1>1, <1>2

\* An empty log and no checksum: nothing.
LEMMA StoreBlank ==
  WriteSize = 8 /\ Filled(0) /\ image \in Image /\ checksum = NoChecksum => Recovered = Zeros
BY StoreEmpty, ChecksumAssumption DEF ReadConsolidated

-----------------------------------------------------------------------------
(* The inductive invariant.                                                *)

\* The stores the refinement is proved for.
EightByteStore == WriteSize = 8 /\ FirstSector = LogSlots /\ "erase" \notin Faults

\* The addresses whose bytes a restart would not bring back.
Behind == {x \in Addr : Recovered[x] # cache[x]}

\* The log is filled up to the append position, or nothing is promised; when
\* the image is being written it is empty.
LogInv ==
  \E n \in 0 .. LogSlots :
    /\ Filled(n)
    /\ op.pc \in {"idle", "append", "return"} =>
         \/ write_address = n + 1 /\ n < LogSlots
         \/ write_address = 1 /\ dirty = Addr
    /\ op.pc \in {"image", "checksum"} => n = 0

\* How far a consolidation has come.
RewriteInv ==
  /\ op.pc = "erase" => op.n = 1
  /\ op.pc \in {"image", "checksum"} => checksum = NoChecksum
  /\ op.pc = "image" => \A x \in Addr : x < op.n => image[x] = cache[x]
  /\ op.pc = "checksum" => image = cache

\* The bytes that are not in the store are in doubt or being written.
CallInv ==
  /\ Fits(req.a, req.vals)
  /\ op.pc = "append" => op.kind = "write"
  /\ op.pc \in {"idle", "return"} => Behind \subseteq dirty
  /\ op.pc \in {"append", "erase"} /\ op.kind = "write" => Behind \subseteq dirty \cup Range(req)
  /\ op.pc = "return" /\ op.kind = "init" /\ op.res = "FAILED" => dirty = Addr

\* A write has r bytes to go, with the words that encode them; the bytes before
\* them are in the store.
WriteInv ==
  op.pc = "append" =>
    \E r \in 1 .. Len(req.vals) :
      /\ req.words = Encoding(req.a, req.vals)[r]
      /\ \A x \in Range(req) : cache[x] = req.vals[x - req.a + 1]
      /\ \A x \in Range(req) : x < req.a + Len(req.vals) - r => x \notin Behind

StoreInv == TypeOK /\ LogInv /\ RewriteInv /\ CallInv /\ WriteInv

LEMMA DriverSteps ==
  ASSUME faults \in 0 .. MaxFaults, NEW f, NEW bad \in BOOLEAN, Driver(f, bad)
  PROVE  /\ faults' \in 0 .. MaxFaults
         /\ bad => f \in Faults /\ faults' = faults + 1
         /\ ~bad => faults' = faults
BY FaultAssumption DEF Driver

\* The types that do not depend on what is in the log.
LEMMA PlainTypes ==
  ASSUME TypeOK, [Next]_vars
  PROVE  /\ op' \in Ops /\ unlocked' \in BOOLEAN /\ status' \in Statuses
         /\ faults' \in 0 .. MaxFaults /\ losses' \in 0 .. MaxLosses
         /\ write_address' \in Nat \ {0}
<1>0. /\ op \in Ops /\ unlocked \in BOOLEAN /\ status \in Statuses
      /\ faults \in 0 .. MaxFaults /\ losses \in 0 .. MaxLosses /\ write_address \in Nat \ {0}
  BY DEF TypeOK, Ops, Pcs
<1>1. op' \in Ops
  BY <1>0, OpSteps, Zenon
<1>2. faults' \in 0 .. MaxFaults
  <2>1. \/ faults' = faults
        \/ \E f, bad : bad \in BOOLEAN /\ Driver(f, bad)
    <3>1. CASE wear_leveling_init
      BY <3>1, Zenon DEF wear_leveling_init
    <3>2. ASSUME NEW w \in WriteSet, wear_leveling_write(w[1], w[2])
          PROVE  \/ faults' = faults
                 \/ \E f, bad : bad \in BOOLEAN /\ Driver(f, bad)
      BY <3>2, Zenon DEF wear_leveling_write
    <3>3. CASE wear_leveling_append_raw
      BY <3>3, Zenon DEF wear_leveling_append_raw
    <3>4. CASE backing_store_erase
      BY <3>4, Zenon DEF backing_store_erase
    <3>5. CASE wear_leveling_write_consolidated
      BY <3>5, Zenon DEF wear_leveling_write_consolidated
    <3>6. CASE wear_leveling_lock
      BY <3>6, Zenon DEF wear_leveling_lock
    <3>7. CASE wear_leveling_erase
      BY <3>7, Zenon DEF wear_leveling_erase
    <3>8. CASE PowerLoss
      BY <3>8, Zenon DEF PowerLoss
    <3>9. CASE UNCHANGED vars
      BY <3>9 DEF vars
    <3> QED BY <3>1, <3>2, <3>3, <3>4, <3>5, <3>6, <3>7, <3>8, <3>9, Zenon DEF Next
  <2> QED BY <1>0, <2>1, DriverSteps, Zenon
<1>3. losses' \in 0 .. MaxLosses
  <2>1. losses' = losses \/ (losses < MaxLosses /\ losses' = losses + 1)
    BY Zenon DEF Next, vars, wear_leveling_init, wear_leveling_write, wear_leveling_append_raw,
       backing_store_erase, wear_leveling_write_consolidated, wear_leveling_lock,
       wear_leveling_erase, PowerLoss
  <2> QED BY <1>0, <2>1, FaultAssumption
<1>4. status' \in Statuses
  <2>1. status' \in {status, op.res, "FAILED", "SUCCESS", "none"}
    <3>1. CASE wear_leveling_init
      BY <3>1, Zenon DEF wear_leveling_init
    <3>2. ASSUME NEW w \in WriteSet, wear_leveling_write(w[1], w[2])
          PROVE  status' \in {status, op.res, "FAILED", "SUCCESS", "none"}
      BY <3>2, Zenon DEF wear_leveling_write
    <3>3. CASE wear_leveling_append_raw
      BY <3>3, Zenon DEF wear_leveling_append_raw
    <3>4. CASE backing_store_erase
      BY <3>4, Zenon DEF backing_store_erase
    <3>5. CASE wear_leveling_write_consolidated
      BY <3>5, Zenon DEF wear_leveling_write_consolidated
    <3>6. CASE wear_leveling_lock
      BY <3>6, Zenon DEF wear_leveling_lock
    <3>7. CASE wear_leveling_erase
      BY <3>7, Zenon DEF wear_leveling_erase
    <3>8. CASE PowerLoss
      BY <3>8, Zenon DEF PowerLoss
    <3>9. CASE UNCHANGED vars
      BY <3>9 DEF vars
    <3> QED BY <3>1, <3>2, <3>3, <3>4, <3>5, <3>6, <3>7, <3>8, <3>9, Zenon DEF Next
  <2>2. op.res \in Statuses
    BY <1>0 DEF Ops
  <2> QED BY <1>0, <2>1, <2>2 DEF Statuses
<1>5. unlocked' \in BOOLEAN
  <2>1. CASE wear_leveling_init
    BY <1>0, <2>1, Zenon DEF wear_leveling_init
  <2>2. ASSUME NEW w \in WriteSet, wear_leveling_write(w[1], w[2]) PROVE unlocked' \in BOOLEAN
    BY <1>0, <2>2, Zenon DEF wear_leveling_write, ram
  <2>3. CASE wear_leveling_append_raw
    BY <1>0, <2>3, Zenon DEF wear_leveling_append_raw
  <2>4. CASE backing_store_erase
    BY <1>0, <2>4, Zenon DEF backing_store_erase, ram
  <2>5. CASE wear_leveling_write_consolidated
    BY <1>0, <2>5, Zenon DEF wear_leveling_write_consolidated
  <2>6. CASE wear_leveling_lock
    BY <1>0, <2>6, Zenon DEF wear_leveling_lock, UnlockedAfter
  <2>7. CASE wear_leveling_erase
    BY <1>0, <2>7, Zenon DEF wear_leveling_erase
  <2>8. CASE PowerLoss
    BY <2>8, Zenon DEF PowerLoss
  <2>9. CASE UNCHANGED vars
    BY <1>0, <2>9 DEF vars
  <2> QED BY <2>1, <2>2, <2>3, <2>4, <2>5, <2>6, <2>7, <2>8, <2>9, Zenon DEF Next
<1>6. write_address' \in Nat \ {0}
  <2>1. CASE wear_leveling_init
    <3>1. \/ write_address' = 1
          \/ \E bad \in 0 .. LogSlots : \E start : write_address' = Playback(start, bad).next
      BY <2>1, Zenon DEF wear_leveling_init, wear_leveling_clear_cache
    <3>2. 0 .. LogSlots \subseteq Nat
      BY SizeAssumption
    <3>3. ASSUME NEW bad \in 0 .. LogSlots, NEW start PROVE Playback(start, bad).next \in Nat \ {0}
      BY <3>2, PlaybackNext, Zenon
    <3> QED BY <3>1, <3>3
  <2>2. write_address' \in {1, write_address, write_address + 1} \/ wear_leveling_init
    BY Zenon DEF Next, vars, ram, wear_leveling_write, wear_leveling_append_raw,
       backing_store_erase, wear_leveling_write_consolidated, wear_leveling_lock,
       wear_leveling_erase, PowerLoss, wear_leveling_clear_cache
  <2> QED BY <1>0, <2>1, <2>2
<1> QED BY <1>1, <1>2, <1>3, <1>4, <1>5, <1>6

LEMMA RangeFits ==
  ASSUME NEW r, Fits(r.a, r.vals) PROVE Range(r) \subseteq Addr
BY SizeAssumption DEF Fits, Range, Addr

ModeFacts ==
  op \in Ops => /\ op.pc = "off" => Mode = "off"
                /\ op.pc = "idle" => Mode = "idle"
                /\ op.pc \in {"image", "checksum"} => Mode = "rewriting"
                /\ op.pc \in {"append", "erase", "return"} => Mode = "busy"

LEMMA ModeOfPc == ModeFacts
BY DEF ModeFacts, Mode, Ops, Pcs

\* The refinement mapping before and after a step.
LEMMA Mapping ==
  /\ ModeFacts /\ ModeFacts' /\ Kept = Recovered /\ Kept' = Recovered'
<1>1. ModeFacts'
  BY ModeOfPc, PTL
<1>2. (Kept = Recovered)'
  BY KeptIsRecovered, PTL
<1> QED BY <1>1, <1>2, ModeOfPc, KeptIsRecovered, Zenon

\* What holds in every state the invariant allows.
LEMMA StateFacts ==
  ASSUME EightByteStore, StoreInv
  PROVE  /\ WriteSize = 8 /\ op \in Ops /\ cache \in Image /\ image \in Image
         /\ Recovered \in Image /\ Zeros \in Image
         /\ Behind \subseteq Addr /\ dirty \subseteq Addr /\ Range(req) \subseteq Addr
<1>1. WriteSize = 8 /\ cache \in Image /\ image \in Image /\ dirty \subseteq Addr /\ op \in Ops
  BY DEF EightByteStore, StoreInv, TypeOK, Ops, Pcs
<1>2. Recovered \in Image
  BY <1>1, RecoveredImage, Zenon DEF StoreInv, LogInv
<1>3. Zeros \in Image
  BY DEF Zeros, Image, Byte
<1>4. Range(req) \subseteq Addr
  BY RangeFits, Zenon DEF StoreInv, CallInv
<1> QED BY <1>1, <1>2, <1>3, <1>4, Zenon DEF Behind

\* Putting the types of the next state together.
LEMMA TypesTogether ==
  ASSUME TypeOK, [Next]_vars, image' \in Image, checksum' \in Image \cup {NoChecksum},
         log' \in [Slots -> [1 .. WriteSize -> Byte]], cache' \in Image,
         req' \in [a : Addr, vals : Seq(Byte), words : Seq([1 .. WriteSize -> Byte])],
         dirty' \subseteq Addr
  PROVE  TypeOK'
<1>1. /\ op' \in Ops /\ unlocked' \in BOOLEAN /\ status' \in Statuses
      /\ faults' \in 0 .. MaxFaults /\ losses' \in 0 .. MaxLosses
      /\ write_address' \in Nat \ {0}
  BY PlainTypes, Zenon
<1> QED BY <1>1, Zenon DEF TypeOK, Ops, Pcs

LEMMA NoRequestFits ==
  /\ NoRequest \in [a : Addr, vals : Seq(Byte), words : Seq([1 .. WriteSize -> Byte])]
  /\ Fits(NoRequest.a, NoRequest.vals)
<1>1. 0 \in Addr
  BY SizeAssumption DEF Addr
<1>2. <<>> \in Seq(Byte) /\ <<>> \in Seq([1 .. WriteSize -> Byte]) /\ Len(<<>>) = 0
  OBVIOUS
<1> QED BY <1>1, <1>2, SizeAssumption DEF NoRequest, Fits

-----------------------------------------------------------------------------
(* Every action keeps the invariant and is a step of the abstract EEPROM.  *)

LEMMA PowerLossStep ==
  ASSUME EightByteStore, StoreInv, PowerLoss
  PROVE  StoreInv' /\ Promise!PowerOff
<1>1. /\ op.pc # "off" /\ op' = Off /\ req' = NoRequest /\ dirty' = {}
      /\ cache' = Zeros /\ UNCHANGED store /\ faults' = faults
  BY Zenon DEF PowerLoss, wear_leveling_clear_cache
<1>2. WriteSize = 8 /\ op \in Ops /\ Zeros \in Image
  BY StateFacts, Zenon
<1>3. PICK n \in 0 .. LogSlots : Filled(n)
  BY Zenon DEF StoreInv, LogInv
<1>4. Filled(n)' /\ Recovered' = Recovered
  BY <1>1, <1>2, <1>3, StoreSame, Zenon
<1>5. op'.pc = "off"
  BY <1>1 DEF Off
<1>6. TypeOK'
  <2>1. Next
    BY Zenon DEF Next
  <2>2. TypeOK /\ image' = image /\ checksum' = checksum /\ log' = log
    BY <1>1, Zenon DEF StoreInv, store
  <2> QED BY <1>1, <1>2, <2>1, <2>2, NoRequestFits, TypesTogether DEF TypeOK
<1>7. LogInv' /\ RewriteInv' /\ WriteInv'
  BY <1>4, <1>5 DEF LogInv, RewriteInv, WriteInv
<1>8. CallInv'
  BY <1>1, <1>5, NoRequestFits DEF CallInv
<1>9. Promise!PowerOff
  <2>1. op' \in Ops
    BY <1>6 DEF TypeOK, Ops, Pcs
  <2>2. Mode # "off" /\ Mode' = "off"
    BY <1>1, <1>2, <1>5, <2>1, Mapping DEF ModeFacts, Ops, Pcs
  <2>3. Writing' = {}
    BY <1>5 DEF Writing
  <2>4. Kept' = Kept
    BY <1>4, Mapping
  <2> QED BY <1>1, <2>2, <2>3, <2>4 DEF Promise!PowerOff, Promise!Blank, Zeros
<1> QED BY <1>6, <1>7, <1>8, <1>9 DEF StoreInv

LEMMA LockStep ==
  ASSUME EightByteStore, StoreInv, wear_leveling_lock
  PROVE  StoreInv' /\ (Promise!Store \/ Promise!GiveUp \/ Promise!Failure)
<1>1. PICK bad \in BOOLEAN : Driver("lock", bad)
  BY Zenon DEF wear_leveling_lock
<1>2. /\ op.pc = "return" /\ op' = [op EXCEPT !.pc = "idle", !.n = 0]
      /\ req' = [req EXCEPT !.words = <<>>] /\ UNCHANGED store
  BY Zenon DEF wear_leveling_lock
<1>3. \/ /\ op.kind = "init" /\ op.res = "FAILED"
         /\ cache' = Zeros /\ write_address' = 1 /\ dirty' = Addr
      \/ UNCHANGED <<cache, write_address, dirty>>
  BY Zenon DEF wear_leveling_lock, wear_leveling_clear_cache
<1>4. /\ WriteSize = 8 /\ op \in Ops /\ cache \in Image /\ Recovered \in Image /\ Zeros \in Image
      /\ Behind \subseteq Addr /\ dirty \subseteq Addr
  BY StateFacts, Zenon
<1>5. PICK n \in 0 .. LogSlots :
        Filled(n) /\ (\/ write_address = n + 1 /\ n < LogSlots
                      \/ write_address = 1 /\ dirty = Addr)
  BY <1>2, Zenon DEF StoreInv, LogInv
<1>6. Filled(n)' /\ Recovered' = Recovered
  BY <1>2, <1>4, <1>5, StoreSame, Zenon
<1>7. op'.pc = "idle" /\ op'.kind = op.kind
  BY <1>2, <1>4 DEF Ops
<1>8. req \in [a : Addr, vals : Seq(Byte), words : Seq([1 .. WriteSize -> Byte])]
      /\ <<>> \in Seq([1 .. WriteSize -> Byte])
  BY DEF StoreInv, TypeOK
<1>9. /\ req'.a = req.a /\ req'.vals = req.vals
      /\ req' \in [a : Addr, vals : Seq(Byte), words : Seq([1 .. WriteSize -> Byte])]
  BY <1>2, <1>8
<1>10. TypeOK'
  <2>1. Next
    BY Zenon DEF Next
  <2>2. TypeOK /\ image' = image /\ checksum' = checksum /\ log' = log
    BY <1>2, Zenon DEF StoreInv, store
  <2>3. cache' \in Image /\ dirty' \subseteq Addr
    BY <1>3, <1>4
  <2> QED BY <1>9, <2>1, <2>2, <2>3, TypesTogether DEF TypeOK
<1>11. LogInv'
  <2>1. (write_address' = n + 1 /\ n < LogSlots) \/ (write_address' = 1 /\ dirty' = Addr)
    BY <1>3, <1>5
  <2> QED BY <1>6, <1>7, <2>1 DEF LogInv
<1>12. RewriteInv' /\ WriteInv'
  BY <1>7 DEF RewriteInv, WriteInv
<1>13. Behind' \subseteq dirty'
  <2>1. CASE dirty' = Addr
    BY <2>1 DEF Behind
  <2>2. CASE UNCHANGED <<cache, write_address, dirty>>
    <3>1. Behind' = Behind
      BY <1>6, <2>2 DEF Behind
    <3>2. Behind \subseteq dirty
      BY <1>2 DEF StoreInv, CallInv
    <3> QED BY <2>2, <3>1, <3>2
  <2> QED BY <1>3, <2>1, <2>2
<1>14. CallInv'
  <2>1. Fits(req.a, req.vals)
    BY DEF StoreInv, CallInv
  <2> QED BY <1>7, <1>9, <1>13, <2>1 DEF CallInv
<1>15. Mode = "busy" /\ Mode' = "idle" /\ Kept' = Kept
  <2>1. op' \in Ops
    BY <1>10 DEF TypeOK, Ops, Pcs
  <2> QED BY <1>2, <1>4, <1>6, <1>7, <2>1, Mapping DEF ModeFacts
<1>16. Writing' = Writing
  BY <1>2, <1>7, <1>9 DEF Writing, Range
<1>17. Promise!Differ(cache', Kept') \subseteq dirty'
  <2>1. Promise!Differ(cache', Kept') = Behind'
    BY Mapping DEF Promise!Differ, Behind
  <2> QED BY <1>13, <2>1
<1>18. Promise!MayReturn
  BY <1>15, <1>17 DEF Promise!MayReturn
<1>19. faults' = faults \/ faults' = faults + 1
  BY <1>1 DEF Driver
<1>22. StoreInv'
  BY <1>10, <1>11, <1>12, <1>14 DEF StoreInv
<1>20. CASE UNCHANGED <<cache, write_address, dirty>>
  <2>1. Promise!Differ(Kept, Kept') = {}
    BY <1>15 DEF Promise!Differ
  <2>2. CASE faults' = faults
    BY <1>15, <1>16, <1>18, <1>20, <1>22, <2>1, <2>2 DEF Promise!Store
  <2>3. CASE faults' = faults + 1
    BY <1>15, <1>16, <1>18, <1>20, <1>22, <2>1, <2>3 DEF Promise!Failure
  <2> QED BY <1>19, <2>2, <2>3
<1>21. CASE op.kind = "init" /\ op.res = "FAILED" /\ cache' = Zeros /\ dirty' = Addr
  <2>1. dirty = Addr
    BY <1>2, <1>21 DEF StoreInv, CallInv
  <2>2. Promise!MayFail
    BY <1>19 DEF Promise!MayFail
  <2> QED BY <1>15, <1>16, <1>21, <1>22, <2>1, <2>2 DEF Promise!GiveUp, Promise!Blank, Zeros
<1> QED BY <1>3, <1>20, <1>21

LEMMA EraseCallStep ==
  ASSUME EightByteStore, StoreInv, wear_leveling_erase
  PROVE  StoreInv' /\ (Promise!Call \/ Promise!Failure)
<1>1. PICK bad \in BOOLEAN :
        /\ Driver("unlock", bad)
        /\ IF bad THEN op' = [op EXCEPT !.kind = "erase"]
           ELSE op' = Consolidate([op EXCEPT !.kind = "erase", !.relock = ~unlocked])
  BY Zenon DEF wear_leveling_erase
<1>2. /\ op.pc = "idle" /\ UNCHANGED store /\ cache' = cache /\ write_address' = write_address
      /\ req' = req /\ dirty' = dirty
  BY Zenon DEF wear_leveling_erase
<1>3. /\ WriteSize = 8 /\ op \in Ops /\ cache \in Image /\ Recovered \in Image
      /\ Behind \subseteq Addr /\ dirty \subseteq Addr
  BY StateFacts, Zenon
<1>4. PICK n \in 0 .. LogSlots :
        Filled(n) /\ (\/ write_address = n + 1 /\ n < LogSlots
                      \/ write_address = 1 /\ dirty = Addr)
  BY <1>2, Zenon DEF StoreInv, LogInv
<1>5. Filled(n)' /\ Recovered' = Recovered
  BY <1>2, <1>3, <1>4, StoreSame, Zenon
<1>6. op'.kind = "erase" /\ (bad => op'.pc = "idle") /\ (~bad => op'.pc = "erase" /\ op'.n = 1)
  <2>1. [op EXCEPT !.kind = "erase"].pc = op.pc /\ [op EXCEPT !.kind = "erase"].kind = "erase"
    BY <1>3 DEF Ops
  <2>2. PICK o : o = Consolidate([op EXCEPT !.kind = "erase", !.relock = ~unlocked])
    OBVIOUS
  <2>3. o.pc = "erase" /\ o.n = 1 /\ o.kind = "erase"
    BY <1>3, <2>2 DEF Consolidate, Ops
  <2> QED BY <1>1, <1>2, <2>1, <2>2, <2>3
<1>7. TypeOK'
  <2>1. Next
    BY Zenon DEF Next
  <2>2. TypeOK /\ image' = image /\ checksum' = checksum /\ log' = log
    BY <1>2, Zenon DEF StoreInv, store
  <2> QED BY <1>2, <2>1, <2>2, TypesTogether DEF TypeOK
<1>8. op'.pc \in {"idle", "erase"}
  BY <1>6
<1>9. LogInv' /\ RewriteInv' /\ WriteInv'
  <2>1. LogInv'
    BY <1>2, <1>4, <1>5, <1>8 DEF LogInv
  <2> QED BY <1>6, <1>8, <2>1 DEF RewriteInv, WriteInv
<1>10. Behind' = Behind /\ Behind \subseteq dirty
  <2>1. Behind' = Behind
    BY <1>2, <1>5 DEF Behind
  <2> QED BY <1>2, <2>1 DEF StoreInv, CallInv
<1>11. CallInv'
  <2>1. Fits(req.a, req.vals)
    BY DEF StoreInv, CallInv
  <2> QED BY <1>2, <1>6, <1>8, <1>10, <2>1 DEF CallInv
<1>12. op' \in Ops
  BY <1>7 DEF TypeOK, Ops, Pcs
<1>13. Mode = "idle" /\ Mode' \in {"idle", "busy"} /\ Kept' = Kept
  BY <1>2, <1>3, <1>5, <1>8, <1>12, Mapping DEF ModeFacts
<1>14. Writing' = {}
  BY <1>6 DEF Writing
<1>15. Promise!Differ(cache', Kept') \subseteq dirty'
  <2>1. Promise!Differ(cache', Kept') = Behind'
    BY Mapping DEF Promise!Differ, Behind
  <2> QED BY <1>2, <1>10, <2>1
<1>16. Promise!MayReturn
  BY <1>13, <1>15 DEF Promise!MayReturn
<1>17. Promise!Differ(cache, cache') = {}
  BY <1>2 DEF Promise!Differ
<1>18. CASE bad
  <2>1. faults' = faults + 1
    BY <1>1, <1>18 DEF Driver
  <2>2. Promise!Failure
    BY <1>2, <1>13, <1>14, <1>17, <2>1 DEF Promise!Failure
  <2> QED BY <1>7, <1>9, <1>11, <2>2 DEF StoreInv
<1>19. CASE ~bad
  <2>1. faults' = faults
    BY <1>1, <1>19 DEF Driver
  <2>2. Promise!Call
    BY <1>2, <1>13, <1>14, <1>16, <1>17, <2>1 DEF Promise!Call
  <2> QED BY <1>7, <1>9, <1>11, <2>2 DEF StoreInv
<1> QED BY <1>18, <1>19

LEMMA ConsolidateStep ==
  ASSUME EightByteStore, StoreInv, wear_leveling_write_consolidated
  PROVE  StoreInv' /\ (Promise!Rewrite \/ Promise!Failure)
<1>1. op.pc \in {"image", "checksum"} /\ cache' = cache /\ req' = req
  BY Zenon DEF wear_leveling_write_consolidated
<1>2. PICK bad \in BOOLEAN :
        /\ Driver("write", bad)
        /\ IF bad
           THEN /\ op' = Return("FAILED") /\ write_address' = 1 /\ dirty' = Addr
                /\ UNCHANGED store
           ELSE IF op.pc = "image"
           THEN /\ image' = [x \in Addr |-> IF x \in op.n .. op.n + WriteSize - 1
                                            THEN cache[x] ELSE image[x]]
                /\ op' = IF op.n + WriteSize >= LogicalSize THEN [op EXCEPT !.pc = "checksum"]
                         ELSE [op EXCEPT !.n = @ + WriteSize]
                /\ checksum' = checksum /\ log' = log /\ dirty' = dirty
           ELSE /\ checksum' = cache /\ op' = Return("CONSOLIDATED")
                /\ write_address' = 1 /\ dirty' = {}
                /\ image' = image /\ log' = log
  BY Zenon DEF wear_leveling_write_consolidated
<1>3. /\ WriteSize = 8 /\ op \in Ops /\ cache \in Image /\ image \in Image /\ Zeros \in Image
      /\ dirty \subseteq Addr
  BY StateFacts, Zenon
<1>4. Filled(0) /\ checksum = NoChecksum
  BY <1>1, Zenon DEF StoreInv, LogInv, RewriteInv
<1>5. Recovered = Zeros
  BY <1>3, <1>4, StoreBlank, Zenon
<1>6. TypeOK /\ Next /\ Fits(req.a, req.vals)
  BY Zenon DEF StoreInv, CallInv, Next
<1>7. /\ Return("FAILED").pc = "return" /\ Return("FAILED").kind = op.kind
      /\ Return("CONSOLIDATED").pc = "return" /\ Return("CONSOLIDATED").kind = op.kind
      /\ Return("CONSOLIDATED").res = "CONSOLIDATED"
  BY <1>3 DEF Return, Ops
<1>8. Mode = "rewriting" /\ Kept = Zeros
  BY <1>1, <1>3, <1>5, Mapping DEF ModeFacts
<1>9. 0 < LogSlots /\ 0 \in 0 .. LogSlots /\ 1 = 0 + 1
  BY SizeAssumption
<1>10. CASE bad
  <2>1. op'.pc = "return" /\ op'.kind = op.kind /\ dirty' = Addr /\ write_address' = 1
        /\ UNCHANGED store /\ faults' = faults + 1
    BY <1>2, <1>7, <1>10 DEF Driver
  <2>2. Filled(0)' /\ Recovered' = Recovered
    BY <1>3, <1>4, <2>1, StoreSame, Zenon
  <2>3. TypeOK'
    <3>1. image' = image /\ checksum' = checksum /\ log' = log
      BY <2>1, Zenon DEF store
    <3> QED BY <1>1, <1>6, <2>1, <3>1, TypesTogether DEF TypeOK
  <2>4. LogInv' /\ RewriteInv' /\ WriteInv'
    <3>1. LogInv'
      BY <1>9, <2>1, <2>2 DEF LogInv
    <3> QED BY <2>1, <3>1 DEF RewriteInv, WriteInv
  <2>5. CallInv'
    BY <1>1, <1>6, <2>1 DEF CallInv, Behind
  <2>6. op' \in Ops
    BY <2>3 DEF TypeOK, Ops, Pcs
  <2>7. Mode' = "busy" /\ Kept' = Kept
    BY <2>1, <2>2, <2>6, Mapping DEF ModeFacts
  <2>8. Writing' = Writing
    BY <1>1, <2>1 DEF Writing
  <2>9. Promise!Differ(Kept, Kept') = {}
    BY <2>7 DEF Promise!Differ
  <2>10. Promise!MayReturn
    BY <2>7 DEF Promise!MayReturn
  <2>11. Promise!Failure
    BY <1>1, <1>8, <2>1, <2>7, <2>8, <2>9, <2>10 DEF Promise!Failure
  <2> QED BY <2>3, <2>4, <2>5, <2>11 DEF StoreInv
<1>11. CASE ~bad /\ op.pc = "image"
  <2>0. PICK n \in Nat : n = op.n
    BY <1>3 DEF Ops
  <2>1. /\ image' = [x \in Addr |-> IF x \in n .. n + 7 THEN cache[x] ELSE image[x]]
        /\ op' = IF n + 8 >= LogicalSize THEN [op EXCEPT !.pc = "checksum"]
                 ELSE [op EXCEPT !.n = n + 8]
        /\ checksum' = checksum /\ log' = log /\ dirty' = dirty /\ faults' = faults
    BY <1>2, <1>3, <1>11, <2>0 DEF Driver
  <2>2. /\ [op EXCEPT !.pc = "checksum"].pc = "checksum" /\ [op EXCEPT !.pc = "checksum"].kind = op.kind
        /\ [op EXCEPT !.n = n + 8].pc = op.pc /\ [op EXCEPT !.n = n + 8].kind = op.kind
        /\ [op EXCEPT !.n = n + 8].n = n + 8
    BY <1>3 DEF Ops
  <2>3. op'.kind = op.kind /\ op'.pc \in {"image", "checksum"}
        /\ (op'.pc = "checksum" => n + 8 >= LogicalSize) /\ (op'.pc = "image" => op'.n = n + 8)
    BY <1>11, <2>1, <2>2
  <2>4. image' \in Image
    BY <1>3, <2>1 DEF Image
  <2>5. \A x \in Addr : x < n => image[x] = cache[x]
    BY <1>11, <2>0 DEF StoreInv, RewriteInv
  <2>6. \A x \in Addr : x < n + 8 => image'[x] = cache[x]
    <3> SUFFICES ASSUME NEW x \in Addr, x < n + 8 PROVE image'[x] = cache[x]
      OBVIOUS
    <3>1. x \in Int
      BY SizeAssumption DEF Addr
    <3>2. CASE x < n
      BY <2>1, <2>5, <3>1, <3>2
    <3>3. CASE ~(x < n)
      <4>1. x \in n .. n + 7
        BY <3>1, <3>3
      <4> QED BY <2>1, <4>1
    <3> QED BY <3>2, <3>3
  <2>7. op'.pc = "checksum" => image' = cache
    <3> SUFFICES ASSUME op'.pc = "checksum" PROVE image' = cache
      OBVIOUS
    <3>1. \A x \in Addr : x < n + 8
      BY <2>3, SizeAssumption DEF Addr
    <3> QED BY <1>3, <2>4, <2>6, <3>1 DEF Image
  <2>8. TypeOK'
    BY <1>1, <1>6, <2>1, <2>4, TypesTogether DEF TypeOK
  <2>9. Filled(0)'
    BY <1>4, <2>1 DEF Filled
  <2>10. LogInv' /\ RewriteInv' /\ WriteInv' /\ CallInv'
    <3>1. LogInv'
      BY <1>9, <2>3, <2>9 DEF LogInv
    <3>2. RewriteInv'
      BY <1>1, <1>4, <2>1, <2>3, <2>6, <2>7 DEF RewriteInv
    <3>3. WriteInv' /\ CallInv'
      BY <1>1, <1>6, <2>3 DEF WriteInv, CallInv
    <3> QED BY <3>1, <3>2, <3>3
  <2>11. Recovered' = Zeros
    <3>1. (WriteSize = 8 /\ Filled(0) /\ image \in Image /\ checksum = NoChecksum => Recovered = Zeros)'
      BY StoreBlank, PTL
    <3> QED BY <1>3, <1>4, <2>1, <2>4, <2>9, <3>1 DEF Zeros
  <2>12. op' \in Ops
    BY <2>8 DEF TypeOK, Ops, Pcs
  <2>13. Mode' = "rewriting" /\ Kept' = Kept
    BY <1>8, <2>3, <2>11, <2>12, Mapping DEF ModeFacts
  <2>14. Writing' = Writing
    BY <1>1, <2>3 DEF Writing
  <2>15. Promise!Rewrite
    BY <1>1, <1>8, <2>1, <2>13, <2>14 DEF Promise!Rewrite
  <2> QED BY <2>8, <2>10, <2>15 DEF StoreInv
<1>12. CASE ~bad /\ op.pc = "checksum"
  <2>1. /\ checksum' = cache /\ op' = Return("CONSOLIDATED") /\ write_address' = 1 /\ dirty' = {}
        /\ image' = image /\ log' = log /\ faults' = faults
    BY <1>2, <1>12 DEF Driver
  <2>2. op'.pc = "return" /\ op'.kind = op.kind /\ op'.res = "CONSOLIDATED"
    BY <1>7, <2>1
  <2>3. image = cache
    BY <1>12 DEF StoreInv, RewriteInv
  <2>4. Filled(0)'
    BY <1>4, <2>1 DEF Filled
  <2>5. Recovered' = cache
    <3>1. (WriteSize = 8 /\ Filled(0) => Recovered = ReadConsolidated)'
      BY StoreEmpty, PTL
    <3>2. ReadConsolidated' = cache
      BY <2>1, <2>3 DEF ReadConsolidated
    <3> QED BY <1>3, <2>4, <3>1, <3>2
  <2>6. TypeOK'
    BY <1>1, <1>3, <1>6, <2>1, TypesTogether DEF TypeOK
  <2>7. LogInv' /\ RewriteInv' /\ WriteInv' /\ CallInv'
    <3>1. LogInv'
      BY <1>9, <2>1, <2>2, <2>4 DEF LogInv
    <3>2. Behind' = {}
      BY <1>1, <2>5 DEF Behind
    <3> QED BY <1>1, <1>6, <2>1, <2>2, <3>1, <3>2 DEF RewriteInv, WriteInv, CallInv
  <2>8. op' \in Ops
    BY <2>6 DEF TypeOK, Ops, Pcs
  <2>9. Mode' = "busy" /\ Kept' = cache
    BY <2>2, <2>5, <2>8, Mapping DEF ModeFacts
  <2>10. Writing' = Writing
    BY <1>1, <2>2 DEF Writing
  <2>11. Promise!Rewrite
    BY <1>1, <1>8, <2>1, <2>9, <2>10 DEF Promise!Rewrite
  <2> QED BY <2>6, <2>7, <2>11 DEF StoreInv
<1> QED BY <1>1, <1>10, <1>11, <1>12

LEMMA EraseStep ==
  ASSUME EightByteStore, StoreInv, backing_store_erase
  PROVE  StoreInv' /\ Promise!Wipe
<1>0. FirstSector = LogSlots /\ "erase" \notin Faults
  BY DEF EightByteStore
<1>1. op.pc = "erase" /\ op.n = 1 /\ req' = req
  BY Zenon DEF backing_store_erase, StoreInv, RewriteInv
<1>2. PICK bad \in BOOLEAN, badUnlock \in BOOLEAN :
        /\ ~(bad /\ badUnlock)
        /\ IF badUnlock THEN Driver("unlock", TRUE) ELSE Driver("erase", bad)
        /\ IF bad THEN UNCHANGED store
           ELSE /\ log' = [i \in Slots |-> IF i \in 1 .. FirstSector THEN Erased ELSE log[i]]
                /\ image' = Zeros /\ checksum' = NoChecksum
        /\ IF op.kind = "erase"
           THEN /\ wear_leveling_clear_cache
                /\ op' = Return(IF bad THEN "FAILED" ELSE "SUCCESS")
                /\ dirty' = IF bad THEN Addr ELSE {}
           ELSE IF bad
           THEN op' = Return("FAILED") /\ dirty' = Addr /\ UNCHANGED ram
           ELSE /\ op' = [op EXCEPT !.pc = "image", !.n = 0,
                            !.relock = IF unlocked THEN @ ELSE ~badUnlock]
                /\ UNCHANGED <<cache, write_address, dirty>>
  BY <1>0, <1>1, Zenon DEF backing_store_erase
<1>3. ~bad
  BY <1>0, <1>2 DEF Driver
<1>4. /\ WriteSize = 8 /\ op \in Ops /\ cache \in Image /\ image \in Image /\ Zeros \in Image
      /\ dirty \subseteq Addr
  BY StateFacts, Zenon
<1>5. log' = [i \in Slots |-> Erased] /\ image' = Zeros /\ checksum' = NoChecksum
  BY <1>0, <1>2, <1>3 DEF Slots
<1>6. Filled(0)'
  BY <1>5, SizeAssumption DEF Filled, Slots
<1>7. Recovered' = Zeros
  <2>1. (WriteSize = 8 /\ Filled(0) /\ image \in Image /\ checksum = NoChecksum => Recovered = Zeros)'
    BY StoreBlank, PTL
  <2> QED BY <1>4, <1>5, <1>6, <2>1 DEF Zeros
<1>8. faults' = faults \/ faults' = faults + 1
  BY <1>2 DEF Driver
<1>9. TypeOK /\ Next /\ Fits(req.a, req.vals)
  BY Zenon DEF StoreInv, CallInv, Next
<1>10. Erased \in [1 .. WriteSize -> Byte]
  BY DEF Erased, Byte
<1>11. ASSUME cache' \in Image, dirty' \subseteq Addr PROVE TypeOK'
  <2>1. log' \in [Slots -> [1 .. WriteSize -> Byte]]
    BY <1>5, <1>10
  <2>2. req' \in [a : Addr, vals : Seq(Byte), words : Seq([1 .. WriteSize -> Byte])]
    BY <1>1, <1>9 DEF TypeOK
  <2> QED BY <1>4, <1>5, <1>9, <1>11, <2>1, <2>2, TypesTogether
<1>12. 0 < LogSlots /\ 0 \in 0 .. LogSlots /\ 1 = 0 + 1
  BY SizeAssumption
<1>13. Mode = "busy"
  BY <1>1, <1>4, Mapping DEF ModeFacts
<1>14. Promise!MayFail
  BY <1>8 DEF Promise!MayFail
<1>15. CASE op.kind = "erase"
  <2>1. cache' = Zeros /\ write_address' = 1 /\ dirty' = {} /\ op' = Return("SUCCESS")
    BY <1>2, <1>3, <1>15 DEF wear_leveling_clear_cache
  <2>2. op'.pc = "return" /\ op'.kind = "erase"
    BY <1>4, <1>15, <2>1 DEF Return, Ops
  <2>3. TypeOK'
    BY <1>4, <1>11, <2>1
  <2>4. LogInv' /\ RewriteInv' /\ WriteInv' /\ CallInv'
    <3>1. LogInv'
      BY <1>6, <1>12, <2>1, <2>2 DEF LogInv
    <3>2. Behind' = {}
      BY <1>7, <2>1 DEF Behind, Zeros
    <3> QED BY <1>1, <1>9, <2>1, <2>2, <3>1, <3>2 DEF RewriteInv, WriteInv, CallInv
  <2>5. op' \in Ops
    BY <2>3 DEF TypeOK, Ops, Pcs
  <2>6. Mode' = "busy" /\ Kept' = Zeros
    BY <1>7, <2>2, <2>5, Mapping DEF ModeFacts
  <2>7. Writing' = {} /\ Writing = {}
    BY <1>15, <2>2 DEF Writing
  <2>8. Promise!Wipe
    BY <1>13, <1>14, <2>1, <2>6, <2>7 DEF Promise!Wipe, Promise!Blank, Zeros
  <2> QED BY <2>3, <2>4, <2>8 DEF StoreInv
<1>16. CASE op.kind # "erase"
  <2>1. cache' = cache /\ dirty' = dirty
        /\ op' = [op EXCEPT !.pc = "image", !.n = 0, !.relock = IF unlocked THEN @ ELSE ~badUnlock]
    BY <1>2, <1>3, <1>16
  <2>2. op'.pc = "image" /\ op'.kind = op.kind /\ op'.n = 0
    BY <1>4, <2>1 DEF Ops
  <2>3. TypeOK'
    BY <1>4, <1>11, <2>1
  <2>4. LogInv' /\ RewriteInv' /\ WriteInv' /\ CallInv'
    <3>1. LogInv'
      BY <1>6, <1>12, <2>2 DEF LogInv
    <3>2. \A x \in Addr : ~(x < 0)
      BY SizeAssumption DEF Addr
    <3> QED BY <1>1, <1>5, <1>9, <2>2, <3>1, <3>2 DEF RewriteInv, WriteInv, CallInv
  <2>5. op' \in Ops
    BY <2>3 DEF TypeOK, Ops, Pcs
  <2>6. Mode' = "rewriting" /\ Kept' = Zeros
    BY <1>7, <2>2, <2>5, Mapping DEF ModeFacts
  <2>7. Writing' = Writing
    BY <1>1, <2>2 DEF Writing
  <2>8. Promise!Wipe
    BY <1>13, <1>14, <2>1, <2>6, <2>7 DEF Promise!Wipe, Promise!Blank, Zeros
  <2> QED BY <2>3, <2>4, <2>8 DEF StoreInv
<1> QED BY <1>15, <1>16

LEMMA InitStep ==
  ASSUME EightByteStore, StoreInv, wear_leveling_init
  PROVE  StoreInv' /\ (Promise!PowerOn \/ Promise!Failure)
<1>1. op.pc = "off" /\ UNCHANGED store /\ req' = req
  BY Zenon DEF wear_leveling_init
<1>2. /\ WriteSize = 8 /\ op \in Ops /\ cache \in Image /\ image \in Image /\ Zeros \in Image
      /\ Recovered \in Image
  BY StateFacts, Zenon
<1>3. PICK n \in 0 .. LogSlots : Filled(n)
  BY Zenon DEF StoreInv, LogInv
<1>4. Filled(n)' /\ Recovered' = Recovered
  BY <1>1, <1>2, <1>3, StoreSame, Zenon
<1>5. TypeOK /\ Next /\ Fits(req.a, req.vals)
  BY Zenon DEF StoreInv, CallInv, Next
<1>6. ASSUME cache' \in Image, dirty' \subseteq Addr PROVE TypeOK'
  <2>1. image' = image /\ checksum' = checksum /\ log' = log
    BY <1>1, Zenon DEF store
  <2> QED BY <1>1, <1>5, <1>6, <2>1, TypesTogether DEF TypeOK
<1>7. Mode = "off" /\ Kept' = Kept /\ Kept = Recovered
  BY <1>1, <1>2, <1>4, Mapping DEF ModeFacts
<1>8. PICK o1, o2 : o1 = [op EXCEPT !.pc = "idle", !.kind = "init"]
                    /\ o2 = Consolidate([op EXCEPT !.kind = "init"])
  OBVIOUS
<1>9. o1.pc = "idle" /\ o1.kind = "init" /\ o2.pc = "erase" /\ o2.kind = "init" /\ o2.n = 1
  BY <1>2, <1>8 DEF Consolidate, Ops
<1>10. Writing = {}
  BY <1>1 DEF Writing
<1>11. ASSUME op' \in {o1, o2}, cache' \in Image, dirty' \subseteq Addr,
              op' = o1 => \/ write_address' = n + 1 /\ n < LogSlots
                          \/ write_address' = 1 /\ dirty' = Addr,
              op' = o1 => Behind' \subseteq dirty'
       PROVE  StoreInv' /\ Mode' \in {"idle", "busy"} /\ (Mode' = "idle" => op' = o1) /\ Writing' = {}
  <2>1. TypeOK'
    BY <1>6, <1>11
  <2>2. op'.kind = "init" /\ op'.pc \in {"idle", "erase"} /\ (op'.pc = "erase" => op'.n = 1)
        /\ (op'.pc = "idle" => op' = o1)
    BY <1>9, <1>11
  <2>3. LogInv'
    BY <1>4, <1>11, <2>2 DEF LogInv
  <2>4. RewriteInv' /\ WriteInv' /\ CallInv'
    BY <1>1, <1>5, <1>11, <2>2 DEF RewriteInv, WriteInv, CallInv
  <2>5. op' \in Ops
    BY <2>1 DEF TypeOK, Ops, Pcs
  <2>6. Mode' \in {"idle", "busy"} /\ (Mode' = "idle" => op'.pc = "idle")
    BY <2>2, <2>5, Mapping DEF ModeFacts
  <2>7. Writing' = {}
    BY <2>2 DEF Writing
  <2> QED BY <2>1, <2>2, <2>3, <2>4, <2>6, <2>7 DEF StoreInv
<1>12. ASSUME NEW f \in {"init", "read"}, Driver(f, TRUE), wear_leveling_clear_cache,
              op' = [op EXCEPT !.pc = "idle", !.kind = "init"], dirty' = Addr
       PROVE  StoreInv' /\ (Promise!PowerOn \/ Promise!Failure)
  <2>1. cache' = Zeros /\ write_address' = 1 /\ faults' = faults + 1 /\ op' = o1
    BY <1>8, <1>12 DEF wear_leveling_clear_cache, Driver
  <2>2. Behind' \subseteq dirty'
    BY <1>12 DEF Behind
  <2>3. StoreInv' /\ Mode' \in {"idle", "busy"} /\ Writing' = {}
    BY <1>2, <1>11, <1>12, <2>1, <2>2
  <2>4. Promise!Failure
    BY <1>7, <1>10, <2>1, <2>3 DEF Promise!Failure
  <2> QED BY <2>3, <2>4
<1>13. ASSUME NEW bad \in 0 .. LogSlots, NEW badSum \in BOOLEAN, NEW start, NEW p,
              start = (IF badSum THEN Zeros ELSE ReadConsolidated), p = Playback(start, bad),
              bad # 0 => p.last = bad /\ ~badSum,
              Driver("read", bad # 0 \/ badSum),
              cache' = p.cache, write_address' = p.next,
              dirty' = (IF badSum THEN Addr ELSE {}),
              op' = IF p.failed \/ LogFull(p.next) THEN Consolidate([op EXCEPT !.kind = "init"])
                    ELSE [op EXCEPT !.pc = "idle", !.kind = "init"]
       PROVE  StoreInv' /\ (Promise!PowerOn \/ Promise!Failure)
  <2>1. start \in Image
    <3>1. ReadConsolidated \in Image
      BY <1>2, <1>3, RecoveredImage, Zenon
    <3> QED BY <1>2, <1>13, <3>1
  <2>2. p = PlaybackEnd(n, start, bad)
    BY <1>2, <1>3, <1>13, PlaybackFilled, Zenon
  <2>3. \A k \in 0 .. n : Replay(log, start)[k] \in Image
    BY <1>3, <2>1, ReplayImage, Zenon DEF Filled
  <2>4. LogSlots \in Nat /\ n \in Nat /\ n <= LogSlots /\ bad \in Nat
    BY SizeAssumption
  <2>5. CASE bad \in 1 .. n + 1
    <3>1. p = Played(bad, bad, Replay(log, start)[bad - 1], TRUE, TRUE)
      BY <2>2, <2>5 DEF PlaybackEnd
    <3>2. p.cache = Replay(log, start)[bad - 1] /\ p.failed
      BY <3>1 DEF Played
    <3>3. cache' \in Image
      BY <1>13, <2>3, <2>4, <2>5, <3>2
    <3>4. bad # 0
      BY <2>5
    <3>5. faults' = faults + 1 /\ dirty' \subseteq Addr /\ op' = o2
      BY <1>8, <1>13, <3>2, <3>4 DEF Driver
    <3>6. o2 # o1
      BY <1>9
    <3>7. StoreInv' /\ Mode' \in {"idle", "busy"} /\ Writing' = {}
      BY <1>11, <3>3, <3>5, <3>6
    <3>8. Promise!Failure
      BY <1>7, <1>10, <3>5, <3>7 DEF Promise!Failure
    <3> QED BY <3>7, <3>8
  <2>6. CASE bad \notin 1 .. n + 1
    <3>1. p.next = n + 1 /\ p.cache = Replay(log, start)[n] /\ ~p.failed /\ p.last \in {n, n + 1}
      BY <2>2, <2>6 DEF PlaybackEnd, Played
    <3>2. bad = 0
      BY <1>13, <2>4, <2>6, <3>1
    <3>3. cache' = Replay(log, start)[n] /\ cache' \in Image /\ write_address' = n + 1
      BY <1>13, <2>3, <2>4, <3>1
    <3>4. dirty' \subseteq Addr
      BY <1>13
    <3>5. op' \in {o1, o2} /\ (op' = o1 => n < LogSlots)
      <4>1. o1 # o2
        BY <1>9
      <4>2. LogFull(n + 1) <=> ~(n < LogSlots)
        BY <2>4 DEF LogFull
      <4> QED BY <1>8, <1>13, <3>1, <4>1, <4>2
    <3>6. ~badSum => cache' = Recovered
      BY <1>2, <1>3, <1>13, <3>3, RecoveredFilled DEF ReadsEntries
    <3>7. Behind' \subseteq dirty'
      <4>1. CASE badSum
        BY <1>13, <4>1 DEF Behind
      <4>2. CASE ~badSum
        BY <1>4, <3>6, <4>2 DEF Behind
      <4> QED BY <4>1, <4>2
    <3>8. StoreInv' /\ Mode' \in {"idle", "busy"} /\ Writing' = {}
      BY <1>11, <3>3, <3>4, <3>5, <3>7
    <3>9. CASE badSum
      <4>1. faults' = faults + 1
        BY <1>13, <3>9 DEF Driver
      <4>2. Promise!Failure
        BY <1>7, <1>10, <3>8, <4>1 DEF Promise!Failure
      <4> QED BY <3>8, <4>2
    <3>10. CASE ~badSum
      <4>1. faults' = faults /\ dirty' = {}
        BY <1>13, <3>2, <3>10 DEF Driver
      <4>2. cache' = Kept
        BY <1>7, <3>6, <3>10
      <4>3. Promise!Differ(cache', Kept') = {}
        BY <1>7, <4>2 DEF Promise!Differ
      <4>4. Promise!MayReturn
        BY <3>8, <4>3 DEF Promise!MayReturn
      <4>5. Promise!PowerOn
        BY <1>7, <1>10, <3>8, <4>1, <4>2, <4>4 DEF Promise!PowerOn
      <4> QED BY <3>8, <4>5
    <3> QED BY <3>9, <3>10
  <2> QED BY <2>5, <2>6
<1>14. \/ \E f \in {"init", "read"} :
            /\ Driver(f, TRUE) /\ wear_leveling_clear_cache
            /\ op' = [op EXCEPT !.pc = "idle", !.kind = "init"] /\ dirty' = Addr
       \/ \E bad \in 0 .. LogSlots, badSum \in BOOLEAN : \E start, p :
            /\ start = (IF badSum THEN Zeros ELSE ReadConsolidated)
            /\ p = Playback(start, bad)
            /\ bad # 0 => p.last = bad /\ ~badSum
            /\ Driver("read", bad # 0 \/ badSum)
            /\ cache' = p.cache /\ write_address' = p.next
            /\ dirty' = (IF badSum THEN Addr ELSE {})
            /\ op' = IF p.failed \/ LogFull(p.next) THEN Consolidate([op EXCEPT !.kind = "init"])
                     ELSE [op EXCEPT !.pc = "idle", !.kind = "init"]
  BY Zenon DEF wear_leveling_init
<1> QED BY <1>12, <1>13, <1>14, ZenonT(60)

\* Writing to the cache.
LEMMA PutFacts ==
  ASSUME NEW c \in Image, NEW a, NEW vals, Fits(a, vals)
  PROVE  /\ Put(c, a, vals) \in Image
         /\ \A x \in Addr : Put(c, a, vals)[x] = IF x \in a .. a + Len(vals) - 1 THEN vals[x - a + 1]
                                                 ELSE c[x]
<1>1. PICK l \in Nat : l = Len(vals)
  BY DEF Fits
<1>2. a \in Nat /\ vals \in Seq(Byte) /\ \A i \in 1 .. l : vals[i] \in Byte
  BY <1>1 DEF Fits
<1>3. \A x \in Addr : x \in a .. a + l - 1 => x - a + 1 \in 1 .. l
  BY <1>2, SizeAssumption DEF Addr
<1>4. \A x \in Addr : (IF x \in a .. a + Len(vals) - 1 THEN vals[x - a + 1] ELSE c[x]) \in Byte
  BY <1>1, <1>2, <1>3 DEF Image
<1> QED BY <1>4 DEF Put, Image

LEMMA WriteCallStep ==
  ASSUME EightByteStore, StoreInv, NEW w \in WriteSet, wear_leveling_write(w[1], w[2])
  PROVE  StoreInv' /\ (Promise!Call \/ Promise!Failure)
<1>1. PICK a, vals : a = w[1] /\ vals = w[2]
  OBVIOUS
<1>2. a \in Addr /\ vals \in Seq(Byte) /\ vals # <<>> /\ a + Len(vals) <= LogicalSize
  BY <1>1, WriteAssumption
<1>3. PICK l \in Nat \ {0} : l = Len(vals)
  BY <1>2
<1>4. Fits(a, vals) /\ a \in Nat
  BY <1>2, SizeAssumption DEF Fits, Addr
<1>5. PICK call, write : call = [op EXCEPT !.kind = "write", !.relock = ~unlocked]
                         /\ write = [a |-> a, vals |-> vals, words |-> <<>>]
  OBVIOUS
<1>6. op.pc = "idle" /\ UNCHANGED store
  BY Zenon DEF wear_leveling_write
<1>7. \/ /\ op' = call /\ req' = write /\ UNCHANGED <<ram, dirty, faults>>
      \/ /\ cache' = Put(cache, a, vals) /\ write_address' = write_address
         /\ \E bad \in BOOLEAN :
              /\ Driver("unlock", bad)
              /\ IF bad
                 THEN op' = call /\ req' = write /\ dirty' = dirty \cup Range(write)
                 ELSE /\ op' = [call EXCEPT !.pc = "append"]
                      /\ req' = [write EXCEPT !.words = LogWords(a, vals)]
                      /\ dirty' = dirty
  BY <1>1, <1>5, Zenon DEF wear_leveling_write
<1>8. /\ WriteSize = 8 /\ op \in Ops /\ cache \in Image /\ image \in Image /\ Recovered \in Image
      /\ dirty \subseteq Addr
  BY StateFacts, Zenon
<1>9. PICK n \in 0 .. LogSlots :
        Filled(n) /\ (\/ write_address = n + 1 /\ n < LogSlots
                      \/ write_address = 1 /\ dirty = Addr)
  BY <1>6, Zenon DEF StoreInv, LogInv
<1>10. Filled(n)' /\ Recovered' = Recovered
  BY <1>6, <1>8, <1>9, StoreSame, Zenon
<1>11. TypeOK /\ Next /\ Behind \subseteq dirty
  <2>1. Next
    BY Zenon DEF Next
  <2> QED BY <1>6, <2>1 DEF StoreInv, CallInv
<1>12. PICK R : R = a .. a + l - 1
  OBVIOUS
<1>13. /\ Put(cache, a, vals) \in Image /\ R \subseteq Addr
       /\ \A x \in Addr : Put(cache, a, vals)[x] = IF x \in R THEN vals[x - a + 1] ELSE cache[x]
  <2>1. R \subseteq Addr
    BY <1>2, <1>3, <1>4, <1>12, SizeAssumption DEF Addr
  <2>2. /\ Put(cache, a, vals) \in Image
        /\ \A x \in Addr : Put(cache, a, vals)[x] = IF x \in a .. a + Len(vals) - 1 THEN vals[x - a + 1]
                                                    ELSE cache[x]
    <3>1. PICK c \in Image : c = cache
      BY <1>8
    <3>2. /\ Put(c, a, vals) \in Image
          /\ \A x \in Addr : Put(c, a, vals)[x] = IF x \in a .. a + Len(vals) - 1 THEN vals[x - a + 1]
                                                  ELSE c[x]
      BY <1>4, PutFacts
    <3> QED BY <3>1, <3>2
  <2> QED BY <1>3, <1>12, <2>1, <2>2, Zenon
<1>14. Range(write) = R /\ write.a = a /\ write.vals = vals
       /\ write \in [a : Addr, vals : Seq(Byte), words : Seq([1 .. WriteSize -> Byte])]
  <2>1. <<>> \in Seq([1 .. WriteSize -> Byte])
    OBVIOUS
  <2> QED BY <1>2, <1>3, <1>5, <1>12, <2>1 DEF Range
<1>15. call.pc = "idle" /\ call.kind = "write" /\ [call EXCEPT !.pc = "append"].pc = "append"
       /\ [call EXCEPT !.pc = "append"].kind = "write"
  BY <1>5, <1>6, <1>8 DEF Ops
<1>16. Mode = "idle" /\ Kept = Recovered /\ Kept' = Kept
  BY <1>6, <1>8, <1>10, Mapping DEF ModeFacts
<1>17. ASSUME cache' \in Image, dirty' \subseteq Addr,
              req' \in [a : Addr, vals : Seq(Byte), words : Seq([1 .. WriteSize -> Byte])]
       PROVE  TypeOK'
  <2>1. image' = image /\ checksum' = checksum /\ log' = log
    BY <1>6, Zenon DEF store
  <2> QED BY <1>11, <1>17, <2>1, TypesTogether DEF TypeOK
<1>18. ASSUME op' = call, req' = write, cache' \in Image, dirty' \subseteq Addr,
              write_address' = write_address, dirty \subseteq dirty', Behind' \subseteq dirty'
       PROVE  StoreInv' /\ Mode' = "idle" /\ Writing' = R
  <2>1. TypeOK'
    BY <1>14, <1>17, <1>18
  <2>2. op'.pc = "idle" /\ op'.kind = "write"
    BY <1>15, <1>18
  <2>3. LogInv'
    <3>1. dirty = Addr => dirty' = Addr
      BY <1>18
    <3> QED BY <1>9, <1>10, <1>18, <2>2, <3>1 DEF LogInv
  <2>4. RewriteInv' /\ WriteInv' /\ CallInv'
    BY <1>4, <1>14, <1>18, <2>2 DEF RewriteInv, WriteInv, CallInv
  <2>5. op' \in Ops
    BY <2>1 DEF TypeOK, Ops, Pcs
  <2>6. Mode' = "idle"
    BY <2>2, <2>5, Mapping DEF ModeFacts
  <2>7. Writing' = R
    BY <1>14, <1>18, <2>2 DEF Writing, Range
  <2> QED BY <2>1, <2>3, <2>4, <2>6, <2>7 DEF StoreInv
<1>19. ASSUME cache' = Put(cache, a, vals)
       PROVE  Promise!Differ(cache, cache') \subseteq R /\ Behind' \subseteq Behind \cup R
  <2>1. \A x \in Addr \ R : cache'[x] = cache[x]
    BY <1>13, <1>19
  <2> QED BY <1>10, <2>1 DEF Promise!Differ, Behind
<1>20. CASE op' = call /\ req' = write /\ UNCHANGED <<ram, dirty, faults>>
  <2>1. cache' = cache /\ write_address' = write_address /\ dirty' = dirty /\ faults' = faults
    BY <1>20 DEF ram
  <2>2. Behind' = Behind
    BY <1>10, <2>1 DEF Behind
  <2>3. StoreInv' /\ Mode' = "idle" /\ Writing' = R
    BY <1>8, <1>11, <1>18, <1>20, <2>1, <2>2
  <2>4. Promise!Differ(cache', Kept') \subseteq dirty' /\ Promise!Differ(cache, cache') = {}
    <3>1. Promise!Differ(cache', Kept') = Behind'
      BY Mapping DEF Promise!Differ, Behind
    <3> QED BY <1>11, <2>1, <2>2, <3>1 DEF Promise!Differ
  <2>5. Promise!MayReturn
    BY <2>3, <2>4 DEF Promise!MayReturn
  <2>6. Promise!Call
    BY <1>13, <1>16, <2>1, <2>3, <2>4, <2>5 DEF Promise!Call
  <2> QED BY <2>3, <2>6
<1>21. ASSUME cache' = Put(cache, a, vals), write_address' = write_address, Driver("unlock", TRUE),
              op' = call, req' = write, dirty' = dirty \cup Range(write)
       PROVE  StoreInv' /\ (Promise!Call \/ Promise!Failure)
  <2>1. faults' = faults + 1 /\ dirty' = dirty \cup R
    BY <1>14, <1>21 DEF Driver
  <2>2. Promise!Differ(cache, cache') \subseteq R /\ Behind' \subseteq Behind \cup R
    BY <1>19, <1>21
  <2>3. StoreInv' /\ Mode' = "idle" /\ Writing' = R
    BY <1>8, <1>11, <1>13, <1>18, <1>21, <2>1, <2>2
  <2>4. Promise!Failure
    BY <1>16, <2>1, <2>2, <2>3 DEF Promise!Failure
  <2> QED BY <2>3, <2>4
<1>22. ASSUME cache' = Put(cache, a, vals), write_address' = write_address, Driver("unlock", FALSE),
              op' = [call EXCEPT !.pc = "append"],
              req' = [write EXCEPT !.words = LogWords(a, vals)], dirty' = dirty
       PROVE  StoreInv' /\ (Promise!Call \/ Promise!Failure)
  <2>1. faults' = faults
    BY <1>22 DEF Driver
  <2>2. Promise!Differ(cache, cache') \subseteq R /\ Behind' \subseteq Behind \cup R
    BY <1>19, <1>22
  <2>3. PICK words : words = LogWords(a, vals)
    OBVIOUS
  <2>4. words = Encoding(a, vals)[l] /\ words \in Seq([1 .. 8 -> Byte])
    <3>1. Len(vals) \in 1 .. Len(vals)
      BY <1>3
    <3>2. words = Encoding(a, vals)[Len(vals)] /\ Encoding(a, vals)[Len(vals)] \in Seq([1 .. 8 -> Byte])
      BY <1>4, <1>8, <2>3, <3>1, EncodingFacts, Zenon
    <3> QED BY <1>3, <3>2
  <2>5. req' = [a |-> a, vals |-> vals, words |-> words]
    BY <1>5, <1>22, <2>3
  <2>6. req'.a = a /\ req'.vals = vals /\ req'.words = words /\ Range(req)' = R
        /\ req' \in [a : Addr, vals : Seq(Byte), words : Seq([1 .. WriteSize -> Byte])]
    BY <1>2, <1>3, <1>8, <1>12, <2>4, <2>5 DEF Range
  <2>7. TypeOK'
    BY <1>8, <1>13, <1>17, <1>22, <2>6
  <2>8. op'.pc = "append" /\ op'.kind = "write"
    BY <1>15, <1>22
  <2>9. LogInv' /\ RewriteInv'
    BY <1>9, <1>10, <1>22, <2>8 DEF LogInv, RewriteInv
  <2>10. CallInv'
    BY <1>4, <1>11, <1>22, <2>2, <2>6, <2>8 DEF CallInv
  <2>11. WriteInv'
    <3>1. \A x \in R : cache'[x] = vals[x - a + 1]
      BY <1>13, <1>22
    <3>2. \A x \in R : ~(x < a + l - l)
      BY <1>4, <1>12
    <3>3. l \in 1 .. l
      OBVIOUS
    <3> QED BY <1>3, <2>4, <2>6, <3>1, <3>2, <3>3 DEF WriteInv
  <2>12. op' \in Ops
    BY <2>7 DEF TypeOK, Ops, Pcs
  <2>13. Mode' = "busy" /\ Writing' = R
    BY <2>6, <2>8, <2>12, Mapping DEF ModeFacts, Writing
  <2>14. Promise!MayReturn
    BY <2>13 DEF Promise!MayReturn
  <2>15. Promise!Call
    BY <1>13, <1>16, <1>22, <2>1, <2>2, <2>13, <2>14 DEF Promise!Call
  <2> QED BY <2>7, <2>9, <2>10, <2>11, <2>15 DEF StoreInv
<1>23. CASE /\ cache' = Put(cache, a, vals) /\ write_address' = write_address
            /\ \E bad \in BOOLEAN :
                 /\ Driver("unlock", bad)
                 /\ IF bad
                    THEN op' = call /\ req' = write /\ dirty' = dirty \cup Range(write)
                    ELSE /\ op' = [call EXCEPT !.pc = "append"]
                         /\ req' = [write EXCEPT !.words = LogWords(a, vals)]
                         /\ dirty' = dirty
  BY <1>21, <1>22, <1>23, Zenon
<1> QED BY <1>7, <1>20, <1>23

LEMMA LastElement ==
  ASSUME NEW S, NEW s \in Seq(S), s # <<>>
  PROVE  Len(s) = 1 <=> Tail(s) = <<>>
<1>1. Len(s) \in Nat \ {0} /\ Len(Tail(s)) = Len(s) - 1 /\ Tail(s) \in Seq(S)
  OBVIOUS
<1>2. ASSUME NEW t \in Seq(S) PROVE Len(t) = 0 <=> t = <<>>
  OBVIOUS
<1>3. Len(Tail(s)) = 0 <=> Tail(s) = <<>>
  BY <1>1, <1>2, Zenon
<1> QED BY <1>1, <1>3

\* What the word that is appended next holds, and what is left after it.
NextWord(a, vals, r, w, b) ==
  /\ b \in 1 .. r /\ Good(w) /\ MultibyteAddress(w) = a + Len(vals) - r
  /\ MultibyteLength(w) = b
  /\ \A i \in 1 .. b : w[3 + i] = vals[Len(vals) - r + i]
  /\ Encoding(a, vals)[r] # <<>> /\ Head(Encoding(a, vals)[r]) = w
  /\ Tail(Encoding(a, vals)[r]) = Encoding(a, vals)[r - b]

LEMMA NextWordFacts ==
  ASSUME WriteSize = 8, NEW a, NEW vals, Fits(a, vals), NEW r \in 1 .. Len(vals)
  PROVE  NextWord(a, vals, r, Part(a, vals, r).words[1], Part(a, vals, r).bytes)
<1> DEFINE w == Part(a, vals, r).words[1]
<1>1. /\ Part(a, vals, r).bytes \in 1 .. r
      /\ Good(w) /\ MultibyteAddress(w) = a + Len(vals) - r
      /\ MultibyteLength(w) = Part(a, vals, r).bytes
      /\ \A i \in 1 .. Part(a, vals, r).bytes : w[3 + i] = vals[Len(vals) - r + i]
  BY PartFacts, SMTT(40)
<1>2. /\ Encoding(a, vals)[r] # <<>> /\ Head(Encoding(a, vals)[r]) = w
      /\ Tail(Encoding(a, vals)[r]) = Encoding(a, vals)[r - Part(a, vals, r).bytes]
  BY EncodingFacts
<1> QED BY <1>1, <1>2, Zenon DEF NextWord

LEMMA AppendStep ==
  ASSUME EightByteStore, StoreInv, wear_leveling_append_raw
  PROVE  StoreInv' /\ (Promise!Store \/ Promise!Failure)
<1>1. op.pc = "append" /\ image' = image /\ checksum' = checksum /\ cache' = cache
  BY Zenon DEF wear_leveling_append_raw
<1>2. PICK bad \in BOOLEAN :
        /\ Driver("write", bad)
        /\ IF bad \/ ReadSlot(write_address) # Erased
           THEN /\ op' = Return("FAILED") /\ dirty' = dirty \cup Range(req)
                /\ UNCHANGED <<log, write_address, req>>
           ELSE /\ log' = [i \in Slots |-> IF i = write_address THEN Head(req.words) ELSE log[i]]
                /\ write_address' = write_address + 1
                /\ req' = [req EXCEPT !.words = Tail(@)]
                /\ op' = IF LogFull(write_address + 1) THEN Consolidate(op)
                         ELSE IF Len(req.words) = 1 THEN Return("SUCCESS") ELSE op
                /\ dirty' = IF Len(req.words) = 1 THEN dirty \ Range(req) ELSE dirty
  BY Zenon DEF wear_leveling_append_raw
<1>3. /\ WriteSize = 8 /\ op \in Ops /\ cache \in Image /\ image \in Image /\ Recovered \in Image
      /\ dirty \subseteq Addr /\ Range(req) \subseteq Addr
  BY StateFacts, Zenon
<1>4. PICK n \in 0 .. LogSlots :
        Filled(n) /\ (\/ write_address = n + 1 /\ n < LogSlots
                      \/ write_address = 1 /\ dirty = Addr)
  BY <1>1, Zenon DEF StoreInv, LogInv
<1>5. n \in Nat /\ LogSlots \in Nat \ {0}
  BY SizeAssumption
<1>6. TypeOK /\ Next /\ Fits(req.a, req.vals) /\ op.kind = "write" /\ Behind \subseteq dirty \cup Range(req)
  <2>1. Next
    BY Zenon DEF Next
  <2> QED BY <1>1, <2>1 DEF StoreInv, CallInv
<1>7. Mode = "busy" /\ Kept = Recovered /\ Writing = Range(req)
  BY <1>1, <1>3, <1>6, Mapping DEF ModeFacts, Writing
<1>8. req \in [a : Addr, vals : Seq(Byte), words : Seq([1 .. 8 -> Byte])]
  BY <1>3, <1>6 DEF TypeOK
<1>9. CASE bad \/ ReadSlot(write_address) # Erased
  <2>1. /\ op' = Return("FAILED") /\ dirty' = dirty \cup Range(req) /\ UNCHANGED store
        /\ write_address' = write_address /\ req' = req
    BY <1>1, <1>2, <1>9 DEF store
  <2>2. op'.pc = "return" /\ op'.kind = "write"
    BY <1>3, <1>6, <2>1 DEF Return, Ops
  <2>3. Filled(n)' /\ Recovered' = Recovered
    BY <1>3, <1>4, <2>1, StoreSame, Zenon
  <2>4. TypeOK'
    <3>1. image' = image /\ checksum' = checksum /\ log' = log
      BY <2>1, Zenon DEF store
    <3> QED BY <1>1, <1>3, <1>6, <2>1, <3>1, TypesTogether DEF TypeOK
  <2>5. LogInv'
    <3>1. dirty = Addr => dirty' = Addr
      BY <1>3, <2>1
    <3> QED BY <1>4, <2>1, <2>2, <2>3, <3>1 DEF LogInv
  <2>6. RewriteInv' /\ WriteInv'
    BY <2>2 DEF RewriteInv, WriteInv
  <2>7. CallInv'
    <3>1. Behind' = Behind
      BY <1>1, <2>3 DEF Behind
    <3> QED BY <1>6, <2>1, <2>2, <3>1 DEF CallInv
  <2>8. StoreInv'
    BY <2>4, <2>5, <2>6, <2>7 DEF StoreInv
  <2>9. op' \in Ops
    BY <2>4 DEF TypeOK, Ops, Pcs
  <2>10. Mode' = "busy" /\ Kept' = Kept /\ Writing' = Writing
    BY <1>7, <2>1, <2>2, <2>3, <2>9, Mapping DEF ModeFacts, Writing
  <2>11. Promise!MayReturn
    BY <2>10 DEF Promise!MayReturn
  <2>12. Promise!Differ(Kept, Kept') = {}
    BY <2>10 DEF Promise!Differ
  <2>13. CASE bad
    <3>1. faults' = faults + 1
      BY <1>2, <2>13 DEF Driver
    <3>2. Promise!Failure
      BY <1>1, <1>7, <2>1, <2>10, <2>11, <2>12, <3>1 DEF Promise!Failure
    <3> QED BY <2>8, <3>2
  <2>14. CASE ~bad
    <3>1. faults' = faults
      BY <1>2, <2>14 DEF Driver
    <3>2. dirty = Addr
      <4>1. SUFFICES ASSUME write_address = n + 1, n < LogSlots PROVE FALSE
        BY <1>4
      <4>2. n + 1 \in Slots /\ n + 1 \in n + 1 .. LogSlots
        BY <1>5, <4>1 DEF Slots
      <4>3. ReadSlot(write_address) = Erased
        BY <1>4, <4>1, <4>2 DEF ReadSlot, Filled
      <4> QED BY <1>9, <2>14, <4>3
    <3>3. dirty' = dirty
      BY <1>3, <2>1, <3>2
    <3>4. Promise!Store
      BY <1>1, <1>7, <2>10, <2>11, <2>12, <3>1, <3>3 DEF Promise!Store
    <3> QED BY <2>8, <3>4
  <2> QED BY <2>13, <2>14
<1>10. CASE ~bad /\ ReadSlot(write_address) = Erased
  <2>1. write_address = n + 1 /\ n < LogSlots
    <3>1. CASE write_address = 1 /\ n # 0
      <4>1. 1 \in Slots /\ 1 \in 1 .. n
        BY <1>5, <3>1 DEF Slots
      <4>2. Good(log[1]) /\ log[1] = Erased
        BY <1>4, <1>10, <3>1, <4>1 DEF Filled, ReadSlot
      <4> QED BY <4>2 DEF Good
    <3>2. CASE write_address = 1 /\ n = 0
      BY <1>5, <3>2
    <3> QED BY <1>4, <3>1, <3>2
  <2>2. PICK a, vals, words : a = req.a /\ vals = req.vals /\ words = req.words
    OBVIOUS
  <2>3. Fits(a, vals) /\ a \in Nat /\ words \in Seq([1 .. 8 -> Byte])
    BY <1>6, <1>8, <2>2 DEF Fits
  <2>36. WriteSize = 8
    BY <1>3
  <2>37. Fits(a, vals)
    BY <2>3
  <2>4. PICK N \in Nat : N = Len(vals)
    BY <2>3 DEF Fits
  <2>5. PICK r \in 1 .. N :
          /\ words = Encoding(a, vals)[r]
          /\ \A x \in Range(req) : cache[x] = vals[x - a + 1]
          /\ \A x \in Range(req) : x < a + N - r => x \notin Behind
    BY <1>1, <2>2, <2>4 DEF StoreInv, WriteInv
  <2>6. r \in 1 .. Len(vals)
    BY <2>4
  <2>7. PICK w, b : w = Part(a, vals, r).words[1] /\ b = Part(a, vals, r).bytes
    OBVIOUS
  <2>38. NextWord(a, vals, r, w, b)
    BY <2>6, <2>7, <2>36, <2>37, NextWordFacts, Zenon
  <2>8. /\ b \in 1 .. r /\ Good(w) /\ MultibyteAddress(w) = a + Len(vals) - r
        /\ MultibyteLength(w) = b
        /\ \A i \in 1 .. b : w[3 + i] = vals[Len(vals) - r + i]
    BY <2>38, Zenon DEF NextWord
  <2>9. words # <<>> /\ Head(words) = w /\ Tail(words) = Encoding(a, vals)[r - b]
    BY <2>5, <2>38, Zenon DEF NextWord
  <2>10. Len(words) = 1 <=> r - b = 0
    <3>1. Len(words) = 1 <=> Tail(words) = <<>>
      BY <2>3, <2>9, LastElement, Zenon
    <3>2. CASE r - b = 0
      <4>1. Encoding(a, vals)[0] = <<>>
        BY <2>36, <2>37, EncodingFacts, Zenon
      <4> QED BY <2>9, <3>1, <3>2, <4>1
    <3>3. CASE r - b # 0
      <4>1. r - b \in 1 .. Len(vals)
        BY <2>4, <2>8, <3>3
      <4>2. Encoding(a, vals)[r - b] # <<>>
        <5>1. PICK k \in 1 .. Len(vals) : k = r - b
          BY <4>1
        <5>2. NextWord(a, vals, k, Part(a, vals, k).words[1], Part(a, vals, k).bytes)
          BY <2>36, <2>37, NextWordFacts, Zenon
        <5> QED BY <5>1, <5>2 DEF NextWord
      <4> QED BY <2>9, <3>1, <3>3, <4>2
    <3> QED BY <3>2, <3>3
  <2>11. /\ log' = [i \in Slots |-> IF i = n + 1 THEN w ELSE log[i]]
         /\ write_address' = n + 2
         /\ req' = [req EXCEPT !.words = Tail(words)]
         /\ op' = IF n + 2 > LogSlots THEN Consolidate(op)
                  ELSE IF r - b = 0 THEN Return("SUCCESS") ELSE op
         /\ dirty' = IF r - b = 0 THEN dirty \ Range(req) ELSE dirty
         /\ faults' = faults
    <3>1. n + 1 + 1 = n + 2
      BY <1>5
    <3>2. req' = [req EXCEPT !.words = Tail(words)]
      BY <1>2, <1>10, <2>2
    <3>3. op' = IF n + 2 > LogSlots THEN Consolidate(op)
                  ELSE IF r - b = 0 THEN Return("SUCCESS") ELSE op
      BY <1>2, <1>10, <2>1, <2>2, <2>10, <3>1, Zenon DEF LogFull
    <3>4. dirty' = IF r - b = 0 THEN dirty \ Range(req) ELSE dirty
      BY <1>2, <1>10, <2>2, <2>10, Zenon
    <3>5. log' = [i \in Slots |-> IF i = n + 1 THEN w ELSE log[i]]
      BY <1>2, <1>10, <2>1, <2>2, <2>9, Zenon
    <3> QED BY <1>2, <1>10, <2>1, <3>1, <3>2, <3>3, <3>4, <3>5 DEF Driver
  <2>12. Filled(n + 1)' /\ Recovered' = Apply(Recovered, w)
    BY <1>1, <1>3, <1>4, <2>1, <2>8, <2>11, StoreAppend, Zenon
  <2>13. PICK A \in Nat : A = a + N - r
    BY <2>3
  <2>14. Range(req) = a .. a + N - 1
    BY <2>2, <2>4 DEF Range
  <2>15. /\ A .. A + b - 1 \subseteq Range(req)
         /\ \A x \in Addr : Recovered'[x] = IF x \in A .. A + b - 1 THEN cache[x] ELSE Recovered[x]
    <3>1. A .. A + b - 1 \subseteq Range(req)
      <4>1. a \in Nat /\ b \in 1 .. r /\ A \in Nat /\ A = a + N - r
        BY <2>3, <2>8, <2>13, Zenon
      <4>2. A .. A + b - 1 \subseteq a .. a + N - 1
        BY <4>1
      <4> QED BY <2>14, <4>2, Zenon
    <3>2. \A x \in Addr : Recovered'[x] = IF x \in A .. A + b - 1 THEN w[3 + (x - A + 1)] ELSE Recovered[x]
      <4>1. \A x \in Addr : Apply(Recovered, w)[x] =
              IF x \in MultibyteAddress(w) .. MultibyteAddress(w) + MultibyteLength(w) - 1
              THEN w[3 + (x - MultibyteAddress(w) + 1)] ELSE Recovered[x]
        BY <1>3, <2>8, ApplyFacts, Zenon
      <4>2. MultibyteAddress(w) = A /\ MultibyteLength(w) = b
        BY <2>4, <2>8, <2>13
      <4> QED BY <2>12, <4>1, <4>2
    <3>3. \A x \in A .. A + b - 1 : w[3 + (x - A + 1)] = vals[x - a + 1] /\ cache[x] = vals[x - a + 1]
      <4> SUFFICES ASSUME NEW x \in A .. A + b - 1
                   PROVE  w[3 + (x - A + 1)] = vals[x - a + 1] /\ cache[x] = vals[x - a + 1]
        OBVIOUS
      <4>1. PICK i \in 1 .. b : i = x - A + 1
        BY <2>8
      <4>2. w[3 + i] = vals[N - r + i]
        BY <2>4, <2>8
      <4>3. N - r + i = x - a + 1
        BY <2>3, <2>13, <4>1
      <4>4. cache[x] = vals[x - a + 1]
        BY <2>5, <3>1
      <4> QED BY <4>1, <4>2, <4>3, <4>4
    <3> QED BY <3>1, <3>2, <3>3
  <2>16. Behind' = Behind \ (A .. A + b - 1)
    BY <1>1, <2>15 DEF Behind
  <2>17. \A x \in Range(req) : x < a + N - (r - b) => x \notin Behind'
    <3> SUFFICES ASSUME NEW x \in Range(req), x < a + N - (r - b) PROVE x \notin Behind'
      OBVIOUS
    <3>1. x \in Int
      BY <2>3, <2>14
    <3>2. CASE x < A
      BY <2>5, <2>13, <2>16, <3>2
    <3>3. CASE ~(x < A)
      <4>1. x \in A .. A + b - 1
        BY <2>3, <2>8, <2>13, <3>1, <3>3
      <4> QED BY <2>16, <4>1
    <3> QED BY <3>2, <3>3
  <2>18. r - b = 0 => \A x \in Range(req) : x \notin Behind'
    <3> SUFFICES ASSUME r - b = 0, NEW x \in Range(req) PROVE x \notin Behind'
      OBVIOUS
    <3>1. x < a + N - (r - b)
      BY <2>3, <2>14
    <3> QED BY <2>17, <3>1
  <2>19. /\ op'.kind = "write" /\ op'.pc \in {"append", "erase", "return"}
         /\ op'.pc = "erase" => op'.n = 1
         /\ op'.pc \in {"append", "return"} => n + 1 < LogSlots
         /\ op'.pc = "append" => r - b # 0
         /\ op'.pc = "return" => r - b = 0
    <3>1. /\ Consolidate(op).pc = "erase" /\ Consolidate(op).n = 1 /\ Consolidate(op).kind = "write"
          /\ Return("SUCCESS").pc = "return" /\ Return("SUCCESS").kind = "write"
      BY <1>3, <1>6 DEF Consolidate, Return, Ops
    <3>2. n + 2 > LogSlots \/ n + 1 < LogSlots
      BY <1>5
    <3>3. CASE n + 2 > LogSlots
      BY <2>11, <3>1, <3>3
    <3>4. CASE ~(n + 2 > LogSlots) /\ r - b = 0
      BY <2>11, <3>1, <3>2, <3>4
    <3>5. CASE ~(n + 2 > LogSlots) /\ r - b # 0
      BY <1>1, <1>6, <2>11, <3>2, <3>5
    <3> QED BY <3>3, <3>4, <3>5
  <2>20. req'.a = a /\ req'.vals = vals /\ req'.words = Tail(words)
         /\ req' \in [a : Addr, vals : Seq(Byte), words : Seq([1 .. 8 -> Byte])]
    <3>1. Tail(words) \in Seq([1 .. 8 -> Byte])
      BY <2>3, <2>9
    <3> QED BY <1>8, <2>2, <2>11, <3>1
  <2>21. Range(req)' = Range(req)
    BY <2>2, <2>20 DEF Range
  <2>22. TypeOK'
    <3>1. w \in [1 .. 8 -> Byte]
      BY <2>8 DEF Good
    <3>2. log \in [Slots -> [1 .. 8 -> Byte]] /\ checksum \in Image \cup {NoChecksum}
      BY <1>3, <1>6 DEF TypeOK
    <3>3. log' \in [Slots -> [1 .. 8 -> Byte]]
      BY <2>11, <3>1, <3>2
    <3>4. dirty' \subseteq Addr
      BY <1>3, <2>11
    <3> QED BY <1>1, <1>3, <1>6, <2>20, <3>2, <3>3, <3>4, TypesTogether
  <2>23. LogInv'
    <3>1. n + 1 \in 0 .. LogSlots /\ n + 2 = n + 1 + 1
      BY <1>5, <2>1
    <3> QED BY <2>11, <2>12, <2>19, <3>1 DEF LogInv
  <2>24. RewriteInv'
    BY <2>19 DEF RewriteInv
  <2>25. /\ op'.pc = "return" => Behind' \subseteq dirty'
         /\ Behind' \subseteq dirty' \cup Range(req)
    <3>1. CASE r - b = 0
      BY <1>6, <2>11, <2>16, <2>18, <3>1
    <3>2. CASE r - b # 0
      BY <1>6, <2>11, <2>16, <2>19, <3>2
    <3> QED BY <3>1, <3>2
  <2>26. CallInv'
    BY <2>3, <2>19, <2>20, <2>21, <2>25 DEF CallInv
  <2>27. WriteInv'
    <3> SUFFICES ASSUME op'.pc = "append" PROVE WriteInv'
      BY DEF WriteInv
    <3>1. r - b \in 1 .. N
      BY <2>8, <2>19
    <3>2. \A x \in Range(req) : cache'[x] = vals[x - a + 1]
      BY <1>1, <2>5
    <3> QED BY <2>4, <2>9, <2>17, <2>20, <2>21, <3>1, <3>2 DEF WriteInv
  <2>28. StoreInv'
    BY <2>22, <2>23, <2>24, <2>26, <2>27 DEF StoreInv
  <2>29. op' \in Ops
    BY <2>22 DEF TypeOK, Ops, Pcs
  <2>30. Mode' = "busy" /\ Kept' = Recovered' /\ Writing' = Writing
    BY <1>7, <2>19, <2>21, <2>29, Mapping DEF ModeFacts, Writing
  <2>31. Promise!MayReturn
    BY <2>30 DEF Promise!MayReturn
  <2>32. Promise!Differ(Kept', cache) = Behind'
    BY <1>1, <2>30 DEF Promise!Differ, Behind
  <2>33. Promise!Differ(Kept, Kept') \subseteq dirty \cup (Writing \ Promise!Differ(Kept', cache))
    BY <1>7, <2>15, <2>16, <2>30, <2>32 DEF Promise!Differ
  <2>34. dirty' \subseteq dirty /\ Promise!Differ(Kept', cache) \cap dirty \subseteq dirty'
    BY <2>11, <2>18, <2>32
  <2>35. Promise!Store
    BY <1>1, <1>7, <2>11, <2>30, <2>31, <2>33, <2>34 DEF Promise!Store
  <2> QED BY <2>28, <2>35
<1> QED BY <1>9, <1>10

-----------------------------------------------------------------------------
(* The theorems.                                                           *)

LEMMA StoreInit == ASSUME EightByteStore, Init PROVE StoreInv
<1>1. WriteSize = 8 /\ op = Off /\ req = NoRequest /\ dirty = {} /\ log = [i \in Slots |-> Erased]
      /\ image = Zeros /\ checksum = NoChecksum /\ cache = Zeros
  BY DEF EightByteStore, Init
<1>2. op.pc = "off"
  BY <1>1 DEF Off
<1>3. Filled(0)
  BY <1>1, SizeAssumption DEF Filled, Slots
<1>4. TypeOK
  <2>1. Off \in Ops
    BY DEF Off, Ops, Pcs, Statuses
  <2>2. Zeros \in Image /\ Erased \in [1 .. WriteSize -> Byte]
    BY DEF Zeros, Erased, Image, Byte
  <2>3. log \in [Slots -> [1 .. WriteSize -> Byte]]
    BY <1>1, <2>2
  <2>4. req \in [a : Addr, vals : Seq(Byte), words : Seq([1 .. WriteSize -> Byte])]
    BY <1>1, NoRequestFits
  <2>5. faults \in 0 .. MaxFaults /\ losses \in 0 .. MaxLosses
    BY FaultAssumption DEF Init
  <2>6. write_address \in Nat \ {0} /\ unlocked \in BOOLEAN /\ status \in Statuses
    <3>1. write_address = 1 /\ unlocked = FALSE /\ status = "none"
      BY Zenon DEF Init
    <3>2. unlocked \in BOOLEAN
      BY <3>1, Zenon
    <3> QED BY <3>1, <3>2 DEF Statuses
  <2>7. image \in Image /\ checksum \in Image \cup {NoChecksum} /\ cache \in Image
        /\ op \in Ops /\ dirty \subseteq Addr
    BY <1>1, <2>1, <2>2
  <2> QED BY <2>3, <2>4, <2>5, <2>6, <2>7, Zenon DEF TypeOK, Ops, Pcs
<1>5. LogInv
  BY <1>2, <1>3, SizeAssumption DEF LogInv
<1>6. RewriteInv /\ WriteInv /\ CallInv
  BY <1>1, <1>2, NoRequestFits DEF RewriteInv, WriteInv, CallInv
<1> QED BY <1>4, <1>5, <1>6 DEF StoreInv

LEMMA StoreStep ==
  ASSUME EightByteStore, StoreInv, [Next]_vars
  PROVE  StoreInv' /\ [Promise!Next]_(Promise!vars)
<1>1. CASE wear_leveling_init
  BY <1>1, InitStep DEF Promise!Next
<1>2. ASSUME NEW w \in WriteSet, wear_leveling_write(w[1], w[2])
      PROVE  StoreInv' /\ [Promise!Next]_(Promise!vars)
  BY <1>2, WriteCallStep DEF Promise!Next
<1>3. CASE wear_leveling_append_raw
  BY <1>3, AppendStep DEF Promise!Next
<1>4. CASE backing_store_erase
  BY <1>4, EraseStep DEF Promise!Next
<1>5. CASE wear_leveling_write_consolidated
  BY <1>5, ConsolidateStep DEF Promise!Next
<1>6. CASE wear_leveling_lock
  BY <1>6, LockStep DEF Promise!Next
<1>7. CASE wear_leveling_erase
  BY <1>7, EraseCallStep DEF Promise!Next
<1>8. CASE PowerLoss
  BY <1>8, PowerLossStep DEF Promise!Next
<1>9. CASE UNCHANGED vars
  <2>1. /\ image' = image /\ checksum' = checksum /\ log' = log /\ cache' = cache /\ op' = op
        /\ req' = req /\ dirty' = dirty /\ faults' = faults /\ write_address' = write_address
        /\ unlocked' = unlocked /\ status' = status /\ losses' = losses
    BY <1>9 DEF vars
  <2>2. WriteSize = 8 /\ op \in Ops
    BY StateFacts, Zenon
  <2>3. PICK n \in 0 .. LogSlots : Filled(n)
    BY Zenon DEF StoreInv, LogInv
  <2>4. Filled(n)' /\ Recovered' = Recovered
    BY <2>1, <2>2, <2>3, StoreSame DEF store
  <2>5. Behind' = Behind
    BY <2>1, <2>4 DEF Behind
  <2>6. TypeOK' /\ RewriteInv'
    BY <2>1 DEF StoreInv, TypeOK, RewriteInv
  <2>7. LogInv'
    BY <2>1 DEF StoreInv, LogInv, Filled
  <2>8. CallInv' /\ WriteInv'
    BY <2>1, <2>5 DEF StoreInv, CallInv, WriteInv, Range
  <2>9. Mode' = Mode /\ Writing' = Writing
    BY <2>1 DEF Mode, Writing, Range
  <2>10. Kept' = Kept
    BY <2>4, Mapping
  <2>11. UNCHANGED Promise!vars
    BY <2>1, <2>9, <2>10 DEF Promise!vars
  <2> QED BY <2>6, <2>7, <2>8, <2>11 DEF StoreInv
<1> QED BY <1>1, <1>2, <1>3, <1>4, <1>5, <1>6, <1>7, <1>8, <1>9 DEF Next

\* The invariant holds, whatever the sizes of the data and the log, the writes
\* and the numbers of failures and power losses.
LEMMA StoreSafe == ASSUME EightByteStore PROVE Spec => []StoreInv
<1>1. Init => StoreInv
  BY StoreInit
<1>2. StoreInv /\ [Next]_vars => StoreInv'
  BY StoreStep
<1> QED BY <1>1, <1>2, PTL DEF Spec

\* wear_leveling.c keeps its state well formed: what playback reads back and
\* what writes append are bytes, and addresses stay inside the data.
THEOREM StoreTypes == ASSUME EightByteStore PROVE Spec => []TypeOK
<1>1. StoreInv => TypeOK
  BY DEF StoreInv
<1> QED BY <1>1, StoreSafe, PTL

\* Between calls a restart brings back what reads return, but for bytes whose
\* write was reported as failed; power loss in a write, before consolidation
\* starts erasing, costs no other byte.
THEOREM DataSurvives == ASSUME EightByteStore PROVE Spec => [](Durable /\ LossIsLocal)
<1>1. StoreInv => Durable /\ LossIsLocal
  <2> SUFFICES ASSUME StoreInv PROVE Durable /\ LossIsLocal
    OBVIOUS
  <2>1. Durable
    BY DEF StoreInv, CallInv, Durable, Behind
  <2>2. LossIsLocal
    BY DEF StoreInv, CallInv, LossIsLocal, Behind
  <2> QED BY <2>1, <2>2
<1> QED BY <1>1, StoreSafe, PTL

\* wear_leveling.c implements the EEPROM its clients see.
THEOREM EepromImplemented == ASSUME EightByteStore PROVE Spec => ImplementsEeprom
<1>1. Init => Promise!Init
  <2> SUFFICES ASSUME Init PROVE Promise!Init
    OBVIOUS
  <2>1. StoreInv /\ WriteSize = 8 /\ op = Off /\ dirty = {} /\ faults = 0 /\ cache = Zeros
        /\ image = Zeros /\ checksum = NoChecksum /\ log = [i \in Slots |-> Erased]
    BY StoreInit DEF Init, EightByteStore
  <2>2. Filled(0) /\ image \in Image /\ op \in Ops
    <3>1. image \in Image /\ op \in Ops
      BY <2>1, StateFacts, Zenon
    <3> QED BY <2>1, <3>1, SizeAssumption DEF Filled, Slots
  <2>3. Kept = Zeros
    BY <2>1, <2>2, StoreBlank, KeptIsRecovered, Zenon
  <2>4. Mode = "off" /\ Writing = {}
    BY <2>1, <2>2, Mapping DEF ModeFacts, Writing, Off
  <2> QED BY <2>1, <2>3, <2>4 DEF Promise!Init, Promise!Blank, Zeros
<1>2. StoreInv /\ [Next]_vars => [Promise!Next]_(Promise!vars)
  BY StoreStep
<1> QED BY <1>1, <1>2, StoreSafe, PTL DEF Spec, ImplementsEeprom, Promise!Spec
=============================================================================
