---------------------------- MODULE TappingProofs ----------------------------
(***************************************************************************)
(* Proofs about Tapping: its types for every keyboard, and, for keyboards  *)
(* with one tap-hold key, that no key gets stuck, that records wait only   *)
(* for that key and that each release goes to what its press switched on.  *)
(***************************************************************************)
EXTENDS Tapping, OrderLemmas, FiniteSetTheorems, TLAPS

KeyRecords == {r \in Records : r.key # NoKey}
Effects == Keys \X {"key", "tap", "hold"}
States == [tk : Records, buf : Seq(KeyRecords), out : Seq(Records), on : SUBSET Effects]

-----------------------------------------------------------------------------
(* Types.                                                                  *)

LEMMA RecordFacts ==
  /\ NoRecord \in Records /\ NoRecord.key = NoKey /\ ~NoRecord.pressed
  /\ \A k \in Keys \cup {NoKey}, p \in BOOLEAN, t \in 0 .. TimerMod - 1 :
       Event(k, p, t) \in Records
  /\ \A r \in Records : Processed(r) \in {r, [r EXCEPT !.count = 0]}
  /\ \A r \in Records : [r EXCEPT !.count = 0] \in Records
  /\ \A r, t \in Records : /\ WithTap(r, t) \in Records /\ WithTap(r, t).key = r.key
                             /\ WithTap(r, t).pressed = r.pressed /\ WithTap(r, t).count = t.count
<1> USE TermAssumption, BufferAssumption
<1>1. 0 \in 0 .. TimerMod - 1 /\ 0 \in 0 .. TapCountMax
  OBVIOUS
<1>2. \A k \in Keys \cup {NoKey}, p \in BOOLEAN, t \in 0 .. TimerMod - 1 :
        Event(k, p, t) \in Records
  BY <1>1 DEF Event, Records
<1>3. NoRecord \in Records /\ NoRecord.key = NoKey /\ ~NoRecord.pressed
  BY <1>1 DEF NoRecord, Event, Records
<1>4. \A r \in Records : Processed(r) \in {r, [r EXCEPT !.count = 0]}
  BY DEF Processed
<1>5. \A r \in Records : [r EXCEPT !.count = 0] \in Records
  BY <1>1 DEF Records
<1>6. \A r, t \in Records : /\ WithTap(r, t) \in Records /\ WithTap(r, t).key = r.key
                              /\ WithTap(r, t).pressed = r.pressed /\ WithTap(r, t).count = t.count
  BY DEF Records, WithTap
<1> QED BY <1>2, <1>3, <1>4, <1>5, <1>6

LEMMA ProcessedFacts ==
  ASSUME NEW r \in Records
  PROVE  /\ Processed(r) \in Records /\ Processed(r).key = r.key
         /\ Processed(r).pressed = r.pressed /\ Processed(r).time = r.time
         /\ r.count = 0 => Processed(r) = r
         /\ ~r.interrupted => Processed(r) = r
         /\ ~r.pressed => Processed(r) = r
<1>1. Processed(r) \in {r, [r EXCEPT !.count = 0]} /\ [r EXCEPT !.count = 0] \in Records
  BY RecordFacts
<1>2. Processed(r) \in Records /\ Processed(r).key = r.key
         /\ Processed(r).pressed = r.pressed /\ Processed(r).time = r.time
  BY <1>1 DEF Records
<1>3. (r.count = 0 \/ ~r.interrupted \/ ~r.pressed) => Processed(r) = r
  BY DEF Processed, Records
<1> QED BY <1>2, <1>3

LEMMA ProcessTypes ==
  ASSUME NEW s \in States, NEW r \in KeyRecords
  PROVE  LET t == process_record(s, r)
         IN /\ t \in States /\ t.tk = s.tk /\ t.buf = s.buf
            /\ t.out = Append(s.out, Processed(r)) /\ t.on = Apply(s.on, Processed(r))
<1>1. Processed(r) \in KeyRecords
  BY ProcessedFacts DEF KeyRecords
<1>2. Effect(Processed(r)) \in Effects
  BY <1>1 DEF Effect, Effects, KeyRecords, Records
<1>3. Apply(s.on, Processed(r)) \in SUBSET Effects
  BY <1>2 DEF Apply, States
<1>4. Append(s.out, Processed(r)) \in Seq(Records)
  BY <1>1 DEF KeyRecords, States
<1> QED BY <1>3, <1>4 DEF process_record, States

LEMMA FieldTypes ==
  ASSUME NEW s \in States
  PROVE  /\ s.tk \in Records /\ s.buf \in Seq(KeyRecords) /\ s.out \in Seq(Records)
         /\ s.on \in SUBSET Effects
         /\ Reset(s) \in States /\ Reset(s).buf = s.buf /\ Reset(s).tk = NoRecord
         /\ Reset(s).on = s.on /\ Reset(s).out = s.out
         /\ \A t \in Records : LET u == [s EXCEPT !.tk = t]
                               IN /\ u \in States /\ u.tk = t /\ u.buf = s.buf
                                  /\ u.on = s.on /\ u.out = s.out
BY RecordFacts DEF States, Reset

LEMMA BufTypes ==
  ASSUME NEW s \in States, NEW b \in Seq(KeyRecords)
  PROVE  LET t == [s EXCEPT !.buf = b]
         IN t \in States /\ t.buf = b /\ t.tk = s.tk /\ t.on = s.on /\ t.out = s.out
BY DEF States

LEMMA TappingKeyTypes ==
  ASSUME NEW s \in States, s.tk \in KeyRecords
  PROVE  LET t == ProcessTappingKey(s)
         IN /\ t \in States /\ t.tk = Processed(s.tk) /\ t.buf = s.buf
            /\ t.on = Apply(s.on, Processed(s.tk)) /\ t.out = Append(s.out, Processed(s.tk))
<1>1. process_record(s, s.tk) \in States /\ process_record(s, s.tk).buf = s.buf
      /\ process_record(s, s.tk).on = Apply(s.on, Processed(s.tk))
      /\ process_record(s, s.tk).out = Append(s.out, Processed(s.tk))
  BY ProcessTypes
<1>2. Processed(s.tk) \in Records
  BY ProcessedFacts DEF KeyRecords
<1> QED BY <1>1, <1>2, FieldTypes DEF ProcessTappingKey

\* tapping_key is processed as it is and forgotten.
LEMMA HoldTypes ==
  ASSUME NEW s \in States, s.tk \in KeyRecords
  PROVE  LET t == Reset(process_record(s, s.tk))
         IN /\ t \in States /\ t.tk = NoRecord /\ t.buf = s.buf
            /\ t.on = Apply(s.on, Processed(s.tk)) /\ t.out = Append(s.out, Processed(s.tk))
<1>1. /\ process_record(s, s.tk) \in States /\ process_record(s, s.tk).buf = s.buf
      /\ process_record(s, s.tk).on = Apply(s.on, Processed(s.tk))
      /\ process_record(s, s.tk).out = Append(s.out, Processed(s.tk))
  BY ProcessTypes
<1> HIDE DEF process_record
<1> QED BY <1>1, FieldTypes

\* What a call of process_tapping leaves is a state and a record of the same event.
StepTypes(q, s, r) ==
  /\ q.s \in States /\ Len(q.s.buf) = Len(s.buf)
  /\ q.rec \in Records /\ q.rec.key = r.key /\ q.rec.pressed = r.pressed /\ q.done \in BOOLEAN

LEMMA LeavesTypes ==
  ASSUME NEW s \in States, NEW t \in States, Len(t.buf) = Len(s.buf),
         NEW r, NEW u \in Records, u.key = r.key, u.pressed = r.pressed
  PROVE  StepTypes(Consumed(t, u), s, r) /\ StepTypes(Enqueue(t, u), s, r)
<1>1. ASSUME NEW d \in BOOLEAN PROVE StepTypes(Leaves(t, u, d), s, r)
  <2>1. Leaves(t, u, d).s = t /\ Leaves(t, u, d).rec = u /\ Leaves(t, u, d).done = d
    BY DEF Leaves
  <2> QED BY <2>1 DEF StepTypes
<1> QED BY <1>1 DEF Consumed, Enqueue

LEMMA StartTypes ==
  ASSUME NEW s \in States, NEW r \in KeyRecords
  PROVE  StartTapping(s, r) \in States /\ Len(StartTapping(s, r).buf) = Len(s.buf)
<1> DEFINE u == [s EXCEPT !.tk = r]
           found == {i \in 1 .. Len(u.buf) :
                       /\ u.buf[i].key = u.tk.key /\ ~u.buf[i].pressed
                       /\ WithinTappingTerm(u.buf[i], u.tk)}
           first == CHOOSE i \in found : \A j \in found : i <= j
           v == [u EXCEPT !.tk.count = 1, !.buf = MarkRelease(@, first)]
<1>1. u \in States /\ u.buf = s.buf /\ u.tk = r
  BY FieldTypes DEF KeyRecords
<1>2. CASE u.tk.count > 0 \/ ~u.tk.pressed \/ found = {}
  <2>1. StartTapping(s, r) = u
    BY <1>2 DEF StartTapping, waiting_buffer_scan_tap
  <2> QED BY <1>1, <2>1
<1>3. CASE ~(u.tk.count > 0 \/ ~u.tk.pressed \/ found = {})
  <2>1. StartTapping(s, r) = ProcessTappingKey(v)
    BY <1>3 DEF StartTapping, waiting_buffer_scan_tap
  <2>2. first \in found
    <3>1. found \subseteq Nat
      OBVIOUS
    <3> HIDE DEF found
    <3>2. \E m \in found : \A j \in found : m <= j
      BY <1>3, <3>1, SmallestElement
    <3> QED BY <3>2
  <2>3. first \in DOMAIN s.buf
    <3>1. found \subseteq 1 .. Len(s.buf)
      BY <1>1
    <3>2. DOMAIN s.buf = 1 .. Len(s.buf)
      BY FieldTypes
    <3> HIDE DEF first, found
    <3> QED BY <2>2, <3>1, <3>2, Zenon
  <2> HIDE DEF first, found
  <2>4. s.buf \in Seq(KeyRecords) /\ s.buf[first] \in KeyRecords /\ 1 \in 0 .. TapCountMax
    BY <2>3, FieldTypes, BufferAssumption
  <2>5. [s.buf[first] EXCEPT !.count = 1] \in KeyRecords
    BY <2>4 DEF KeyRecords, Records
  <2>6. MarkRelease(s.buf, first) \in Seq(KeyRecords) /\ Len(MarkRelease(s.buf, first)) = Len(s.buf)
    BY <2>3, <2>4, <2>5 DEF MarkRelease
  <2>7. [r EXCEPT !.count = 1] \in KeyRecords
    BY <2>4 DEF KeyRecords, Records
  <2>8. v \in States /\ v.tk \in KeyRecords /\ v.buf = MarkRelease(s.buf, first)
    BY <1>1, <2>6, <2>7 DEF States, KeyRecords
  <2> HIDE DEF v
  <2> QED BY <2>1, <2>6, <2>8, TappingKeyTypes
<1> QED BY <1>2, <1>3

LEMMA IdleTypes ==
  ASSUME NEW s \in States, NEW r \in Records
  PROVE  StepTypes(Idle(s, r), s, r)
<1>1. CASE IS_NOEVENT(r)
  BY <1>1, LeavesTypes DEF Idle
<1>2. CASE ~IS_NOEVENT(r)
  <2>1. r \in KeyRecords
    BY <1>2 DEF IS_NOEVENT, KeyRecords
  <2>2. StepTypes(Consumed(StartTapping(s, r), r), s, r)
    BY <2>1, StartTypes, LeavesTypes
  <2>3. StepTypes(Consumed(process_record(s, r), r), s, r)
    BY <2>1, ProcessTypes, LeavesTypes
  <2> QED BY <1>2, <2>2, <2>3 DEF Idle
<1> QED BY <1>1, <1>2

LEMMA UnsettledTypes ==
  ASSUME NEW s \in States, s.tk \in KeyRecords, NEW r \in KeyRecords
  PROVE  StepTypes(Unsettled(s, r), s, r)
<1> DEFINE u == [s EXCEPT !.tk.count = 1]
           tap == ProcessTappingKey(u)
           seen == [s EXCEPT !.tk.interrupted = TRUE]
<1>0. r \in Records /\ s.tk \in Records /\ 1 \in 0 .. TapCountMax
  BY BufferAssumption DEF KeyRecords
<1>1. [s.tk EXCEPT !.count = 1] \in KeyRecords /\ [s.tk EXCEPT !.interrupted = TRUE] \in KeyRecords
  BY <1>0 DEF KeyRecords, Records
<1>2. /\ u \in States /\ u.tk \in KeyRecords /\ u.buf = s.buf
      /\ seen \in States /\ seen.tk \in KeyRecords /\ seen.buf = s.buf
  BY <1>1 DEF States, KeyRecords
<1>3. tap \in States /\ Len(tap.buf) = Len(s.buf) /\ tap.tk \in Records
  <2> HIDE DEF u
  <2> QED BY <1>2, TappingKeyTypes, ProcessedFacts, FieldTypes DEF KeyRecords
<1>4. StepTypes(Enqueue(tap, WithTap(r, tap.tk)), s, r)
  <2>1. WithTap(r, tap.tk) \in Records /\ WithTap(r, tap.tk).key = r.key
        /\ WithTap(r, tap.tk).pressed = r.pressed
    <3> HIDE DEF tap
    <3> QED BY <1>0, <1>3, RecordFacts
  <2> HIDE DEF tap
  <2> QED BY <1>3, <2>1, LeavesTypes
<1>5. /\ StepTypes(Enqueue(Reset(process_record(s, s.tk)), r), s, r)
      /\ StepTypes(Consumed(process_record(s, r), r), s, r)
      /\ StepTypes(Enqueue(s, r), s, r)
  BY <1>0, HoldTypes, ProcessTypes, LeavesTypes
<1>6. StepTypes(Interrupt(s, r), s, r)
  <2>1. StepTypes(Enqueue(seen, r), s, r)
    BY <1>0, <1>2, LeavesTypes
  <2>2. StepTypes(Enqueue(Reset(process_record(seen, seen.tk)), r), s, r)
    <3> HIDE DEF seen
    <3> QED BY <1>0, <1>2, HoldTypes, LeavesTypes
  <2> QED BY <2>1, <2>2 DEF Interrupt
<1> HIDE DEF tap, u, seen
<1> QED BY <1>4, <1>5, <1>6 DEF Unsettled, tap, u

LEMMA TappedTypes ==
  ASSUME NEW s \in States, s.tk \in KeyRecords, NEW r \in KeyRecords, NEW within \in BOOLEAN
  PROVE  StepTypes(Tapped(s, r, within), s, r)
<1> DEFINE rec == WithTap(r, s.tk)
           out == process_record(s, rec)
           up == [s.tk EXCEPT !.pressed = FALSE, !.time = r.time]
<1>0. r \in Records /\ s.tk \in Records
  BY DEF KeyRecords
<1>1. rec \in KeyRecords /\ rec \in Records /\ rec.key = r.key /\ rec.pressed = r.pressed
  BY <1>0, RecordFacts DEF KeyRecords
<1>2. up \in KeyRecords
  BY <1>0 DEF KeyRecords, Records
<1>3. out \in States /\ Len(out.buf) = Len(s.buf)
  <2> HIDE DEF rec
  <2> QED BY <1>1, ProcessTypes
<1>4. /\ StepTypes(Consumed([out EXCEPT !.tk = rec], rec), s, r)
      /\ StepTypes(Consumed(Reset(out), rec), s, r)
  <2> HIDE DEF rec, out
  <2> QED BY <1>1, <1>3, FieldTypes, LeavesTypes
<1>5. StepTypes(Consumed(process_record(s, r), r), s, r)
  BY <1>0, ProcessTypes, LeavesTypes
<1>6. StepTypes(Consumed(StartTapping(ReleaseLastTap(s, r), r), r), s, r)
  <2>1. ReleaseLastTap(s, r) \in States /\ ReleaseLastTap(s, r).buf = s.buf
    <3> HIDE DEF up
    <3> QED BY <1>2, ProcessTypes DEF ReleaseLastTap, up
  <2> QED BY <1>0, <2>1, StartTypes, LeavesTypes
<1> HIDE DEF rec, out
<1> QED BY <1>4, <1>5, <1>6 DEF Tapped, rec, out

LEMMA ReleasedTypes ==
  ASSUME NEW s \in States, s.tk \in KeyRecords, NEW r \in KeyRecords
  PROVE  StepTypes(Released(s, r), s, r)
<1> DEFINE n == IF s.tk.count < TapCountMax THEN s.tk.count + 1 ELSE s.tk.count
           rec == Processed([WithTap(r, s.tk) EXCEPT !.count = n])
           seen == [s EXCEPT !.tk.interrupted = TRUE]
<1>0. r \in Records /\ s.tk \in Records
  BY DEF KeyRecords
<1>1. n \in 0 .. TapCountMax
  BY <1>0, BufferAssumption DEF Records
<1>2. rec \in KeyRecords /\ rec \in Records /\ rec.key = r.key /\ rec.pressed = r.pressed
  <2> HIDE DEF n
  <2>1. /\ WithTap(r, s.tk) \in Records /\ WithTap(r, s.tk).key = r.key
        /\ WithTap(r, s.tk).pressed = r.pressed
    BY <1>0, RecordFacts
  <2>2. /\ [WithTap(r, s.tk) EXCEPT !.count = n] \in Records
        /\ [WithTap(r, s.tk) EXCEPT !.count = n].key = r.key
        /\ [WithTap(r, s.tk) EXCEPT !.count = n].pressed = r.pressed
    BY <1>1, <2>1 DEF Records
  <2> QED BY <2>2, ProcessedFacts DEF KeyRecords
<1>3. StepTypes(Consumed([process_record(s, rec) EXCEPT !.tk = rec], rec), s, r)
  <2> HIDE DEF rec
  <2>1. process_record(s, rec) \in States /\ process_record(s, rec).buf = s.buf
    BY <1>2, ProcessTypes
  <2>2. /\ [process_record(s, rec) EXCEPT !.tk = rec] \in States
        /\ [process_record(s, rec) EXCEPT !.tk = rec].buf = s.buf
    BY <1>2, <2>1, FieldTypes
  <2> QED BY <1>2, <2>2, LeavesTypes
<1>4. StepTypes(Consumed([s EXCEPT !.tk = r], r), s, r)
  BY <1>0, FieldTypes, LeavesTypes
<1>5. StepTypes(Consumed(StartTapping(s, r), r), s, r)
  BY <1>0, StartTypes, LeavesTypes
<1>6. StepTypes(Consumed(process_record(seen, r), r), s, r)
  <2>1. [s.tk EXCEPT !.interrupted = TRUE] \in Records
    BY <1>0 DEF Records
  <2>2. seen \in States /\ seen.buf = s.buf
    BY <2>1 DEF States
  <2> HIDE DEF seen
  <2> QED BY <1>0, <2>2, ProcessTypes, LeavesTypes
<1>7. StepTypes(Consumed(process_record(s, r), r), s, r)
  BY <1>0, ProcessTypes, LeavesTypes
<1> HIDE DEF rec, seen, n
<1> QED BY <1>3, <1>4, <1>5, <1>6, <1>7 DEF Released, rec, seen, n

LEMMA TappingTypes ==
  ASSUME NEW s \in States, NEW r \in Records
  PROVE  StepTypes(process_tapping(s, r), s, r)
<1>1. CASE IS_NOEVENT(s.tk)
  BY <1>1, IdleTypes DEF process_tapping
<1>2. CASE ~IS_NOEVENT(s.tk)
  <2>1. s.tk \in KeyRecords
    BY <1>2, FieldTypes DEF IS_NOEVENT, KeyRecords
  <2>2. /\ StepTypes(Enqueue(Reset(process_record(s, s.tk)), r), s, r)
        /\ StepTypes(Enqueue(Reset(s), r), s, r) /\ StepTypes(Consumed(s, r), s, r)
    <3>1. Reset(s) \in States /\ Reset(s).buf = s.buf
      BY FieldTypes
    <3> QED BY <2>1, <3>1, HoldTypes, LeavesTypes
  <2>3. CASE IS_NOEVENT(r)
    BY <1>2, <2>2, <2>3 DEF process_tapping
  <2>4. CASE ~IS_NOEVENT(r)
    <3>1. r \in KeyRecords
      BY <2>4 DEF IS_NOEVENT, KeyRecords
    <3>2. WithinTappingTerm(r, s.tk) \in BOOLEAN
      BY DEF WithinTappingTerm
    <3>3. /\ StepTypes(Released(s, r), s, r) /\ StepTypes(Unsettled(s, r), s, r)
          /\ StepTypes(Tapped(s, r, WithinTappingTerm(r, s.tk)), s, r)
      BY <2>1, <3>1, <3>2, ReleasedTypes, UnsettledTypes, TappedTypes
    <3> QED BY <1>2, <2>2, <2>4, <3>3 DEF process_tapping
  <2> QED BY <2>3, <2>4
<1> QED BY <1>1, <1>2

-----------------------------------------------------------------------------
(* The loop over the waiting buffer.                                       *)

LEMMA TurnsExist ==
  ASSUME NEW s
  PROVE  \A n \in Nat : \E f : f = [k \in 0 .. n |->
           IF k = 0 THEN DrainStart(s) ELSE DrainTurn(f[k - 1])]
<1> DEFINE Turns(f, n) == f = [k \in 0 .. n |->
             IF k = 0 THEN DrainStart(s) ELSE DrainTurn(f[k - 1])]
           S == {n \in Nat : ~ \E f : Turns(f, n)}
<1>1. SUFFICES ASSUME S # {} PROVE FALSE
  OBVIOUS
<1>2. PICK m \in S : \A j \in S : m <= j
  <2> HIDE DEF S
  <2>1. S \subseteq Nat
    BY DEF S
  <2> QED BY <1>1, <2>1, SmallestElement
<1>3. m # 0
  <2>1. Turns([k \in 0 .. 0 |-> DrainStart(s)], 0)
    OBVIOUS
  <2> QED BY <2>1
<1>4. PICK f : Turns(f, m - 1)
  <2>1. m - 1 \in Nat /\ m - 1 \notin S
    BY <1>2, <1>3
  <2> QED BY <2>1
<1>5. Turns([k \in 0 .. m |-> IF k = m THEN DrainTurn(f[m - 1]) ELSE f[k]], m)
  <2> DEFINE g == [k \in 0 .. m |-> IF k = m THEN DrainTurn(f[m - 1]) ELSE f[k]]
  <2>1. ASSUME NEW k \in 0 .. m
        PROVE  g[k] = IF k = 0 THEN DrainStart(s) ELSE DrainTurn(g[k - 1])
    BY <1>3, <1>4
  <2> QED BY <2>1
<1> QED BY <1>2, <1>5

LEMMA DrainTurns ==
  ASSUME NEW s
  PROVE  \E f : /\ f[0] = DrainStart(s) /\ Drain(s) = f[WAITING_BUFFER_SIZE].s
                /\ \A n \in 1 .. WAITING_BUFFER_SIZE : f[n] = DrainTurn(f[n - 1])
<1> DEFINE Turns(f) == f = [k \in 0 .. WAITING_BUFFER_SIZE |->
             IF k = 0 THEN DrainStart(s) ELSE DrainTurn(f[k - 1])]
           f == CHOOSE g : Turns(g)
<1>1. WAITING_BUFFER_SIZE \in Nat
  BY BufferAssumption
<1>2. Turns(f)
  BY <1>1, TurnsExist
<1>3. /\ f[0] = DrainStart(s)
      /\ \A n \in 1 .. WAITING_BUFFER_SIZE : f[n] = DrainTurn(f[n - 1])
  <2> HIDE DEF f
  <2> QED BY <1>1, <1>2
<1>4. Drain(s) = f[WAITING_BUFFER_SIZE].s
  BY DEF Drain
<1> HIDE DEF f
<1> QED BY <1>3, <1>4

\* After n turns that all consumed their record the buffer is shorter by n.
TurnTypes(p, l, n) ==
  /\ p.s \in States /\ p.more \in BOOLEAN /\ Len(p.s.buf) <= l
  /\ p.more => p.s.buf = <<>> \/ Len(p.s.buf) + n <= l

LEMMA TailFacts ==
  ASSUME NEW b \in Seq(KeyRecords), b # <<>>
  PROVE  /\ Len(b) \in Nat \ {0} /\ Head(b) = b[1] /\ b[1] \in KeyRecords
         /\ Tail(b) \in Seq(KeyRecords) /\ Len(Tail(b)) = Len(b) - 1
         /\ \A i \in 1 .. Len(b) - 1 : Tail(b)[i] = b[i + 1]
         /\ DOMAIN Tail(b) = 1 .. Len(b) - 1 /\ DOMAIN b = 1 .. Len(b)
OBVIOUS

LEMMA HeadReplaced ==
  ASSUME NEW b \in Seq(KeyRecords), b # <<>>, NEW r \in KeyRecords
  PROVE  LET c == [b EXCEPT ![1] = r]
         IN /\ c \in Seq(KeyRecords) /\ Len(c) = Len(b) /\ c[1] = r
            /\ \A i \in DOMAIN b : i # 1 => c[i] = b[i]
<1>1. PICK n \in Nat : n = Len(b) /\ n # 0 /\ b \in [1 .. n -> KeyRecords]
  OBVIOUS
<1>2. [b EXCEPT ![1] = r] \in [1 .. n -> KeyRecords]
  BY <1>1
<1> QED BY <1>1, <1>2

LEMMA TurnStep ==
  ASSUME NEW p, NEW l \in Nat, NEW n \in Nat, TurnTypes(p, l, n)
  PROVE  TurnTypes(DrainTurn(p), l, n + 1)
<1>0. p.s \in States /\ p.s.buf \in Seq(KeyRecords) /\ Len(p.s.buf) \in Nat
  BY FieldTypes DEF TurnTypes
<1>1. CASE ~p.more \/ p.s.buf = <<>>
  <2>1. DrainTurn(p) = p
    BY <1>1 DEF DrainTurn
  <2> QED BY <1>1, <2>1 DEF TurnTypes
<1>2. CASE p.more /\ p.s.buf # <<>>
  <2> DEFINE h == Head(p.s.buf)
             q == process_tapping(p.s, h)
             b == IF q.done THEN Tail(q.s.buf) ELSE [q.s.buf EXCEPT ![1] = q.rec]
  <2>1. DrainTurn(p) = [s |-> [q.s EXCEPT !.buf = b], more |-> q.done]
    BY <1>2 DEF DrainTurn
  <2>2. h \in KeyRecords /\ h \in Records /\ h.key # NoKey /\ Len(p.s.buf) # 0
    BY <1>0, <1>2, TailFacts DEF KeyRecords
  <2>3. StepTypes(q, p.s, h)
    <3> HIDE DEF h
    <3> QED BY <1>0, <2>2, TappingTypes
  <2> HIDE DEF q, h
  <2>4. q.s \in States /\ q.s.buf \in Seq(KeyRecords) /\ Len(q.s.buf) = Len(p.s.buf)
    BY <2>3, FieldTypes DEF StepTypes
  <2>5. q.s.buf # <<>> /\ q.rec \in KeyRecords /\ q.done \in BOOLEAN
    BY <1>0, <2>2, <2>3, <2>4 DEF StepTypes, KeyRecords
  <2>6. b \in Seq(KeyRecords) /\ Len(b) = IF q.done THEN Len(p.s.buf) - 1 ELSE Len(p.s.buf)
    <3>1. CASE q.done
      BY <2>4, <2>5, <3>1, TailFacts
    <3>2. CASE ~q.done
      <4>1. b = [q.s.buf EXCEPT ![1] = q.rec]
        BY <3>2
      <4> HIDE DEF b
      <4>2. b \in Seq(KeyRecords) /\ Len(b) = Len(q.s.buf)
        BY <2>4, <2>5, <4>1, HeadReplaced, Zenon
      <4> QED BY <2>4, <3>2, <4>2
    <3> QED BY <3>1, <3>2
  <2> HIDE DEF b
  <2>7. PICK t \in States : t = [q.s EXCEPT !.buf = b] /\ t.buf = b
    <3>1. b \in Seq(KeyRecords)
      BY <2>6
    <3> QED BY <2>4, <3>1, BufTypes
  <2>8. DrainTurn(p).s = t /\ DrainTurn(p).more = q.done
    BY <2>1, <2>7
  <2>9. PICK k \in Nat : k = Len(p.s.buf) /\ k # 0 /\ k + n <= l
    BY <1>0, <1>2, <2>2 DEF TurnTypes
  <2>12. k # 0 /\ k + n <= l
    BY <2>9, Zenon
  <2>10. PICK m \in Int : m = Len(b)
    BY <2>6
  <2>11. Len(b) <= l /\ (q.done => Len(b) + (n + 1) <= l)
    <3>1. CASE q.done
      <4>1. m = k - 1
        BY <2>6, <2>9, <2>10, <3>1, Zenon
      <4>2. m <= l /\ m + (n + 1) <= l
        BY <2>12, <4>1
      <4> QED BY <2>10, <4>2, Zenon
    <3>2. CASE ~q.done
      <4>1. m = k
        BY <2>6, <2>9, <2>10, <3>2, Zenon
      <4>2. m <= l
        BY <2>12, <4>1
      <4> QED BY <2>10, <3>2, <4>2, Zenon
    <3> QED BY <3>1, <3>2
  <2> QED BY <2>5, <2>7, <2>8, <2>11 DEF TurnTypes
<1> QED BY <1>1, <1>2 DEF TurnTypes

LEMMA DrainTypes ==
  ASSUME NEW s \in States, Len(s.buf) < WAITING_BUFFER_SIZE
  PROVE  Drain(s) \in States /\ Len(Drain(s).buf) < WAITING_BUFFER_SIZE
<1>1. PICK f : /\ f[0] = DrainStart(s) /\ Drain(s) = f[WAITING_BUFFER_SIZE].s
               /\ \A n \in 1 .. WAITING_BUFFER_SIZE : f[n] = DrainTurn(f[n - 1])
  BY DrainTurns
<1>2. PICK l \in Nat : l = Len(s.buf)
  BY FieldTypes
<1>3. PICK w \in Nat : w = WAITING_BUFFER_SIZE
  BY BufferAssumption
<1> DEFINE S == {n \in 0 .. w : ~TurnTypes(f[n], l, n)}
<1>4. S = {}
  <2>1. SUFFICES ASSUME S # {} PROVE FALSE
    OBVIOUS
  <2>2. PICK m \in S : \A j \in S : m <= j
    <3>1. S \subseteq Nat
      OBVIOUS
    <3> HIDE DEF S
    <3> QED BY <2>1, <3>1, SmallestElement
  <2>3. TurnTypes(DrainStart(s), l, 0)
    BY <1>2 DEF TurnTypes, DrainStart
  <2>4. m # 0
    BY <1>1, <2>3
  <2>5. m \in 1 .. w /\ m - 1 \in Nat /\ m - 1 \notin S /\ m - 1 \in 0 .. w
    BY <2>2, <2>4
  <2>6. TurnTypes(f[m - 1], l, m - 1)
    BY <2>5
  <2>7. TurnTypes(DrainTurn(f[m - 1]), l, (m - 1) + 1)
    BY <2>5, <2>6, TurnStep
  <2>8. f[m] = DrainTurn(f[m - 1]) /\ (m - 1) + 1 = m
    BY <1>1, <1>3, <2>5
  <2> QED BY <2>7, <2>8
<1>5. TurnTypes(f[w], l, w)
  BY <1>4
<1>6. Len(f[w].s.buf) \in Nat
  BY <1>5, FieldTypes DEF TurnTypes
<1> QED BY <1>1, <1>2, <1>3, <1>5, <1>6 DEF TurnTypes

-----------------------------------------------------------------------------
(* action_tapping_process, in parts.                                       *)

Now == [tk |-> tapping_key, buf |-> waiting_buffer, out |-> <<>>, on |-> active]
Looked(r) == process_tapping(Now, r)
Overflows(r) == ~Looked(r).done /\ ~IS_NOEVENT(r) /\ Full(Looked(r).s)
Queued(r) ==
  IF Looked(r).done \/ IS_NOEVENT(r) THEN Looked(r).s
  ELSE IF Overflows(r) THEN [Reset(Looked(r).s) EXCEPT !.buf = <<>>]
  ELSE [Looked(r).s EXCEPT !.buf = Append(@, Looked(r).rec)]

LEMMA ActionParts ==
  ASSUME NEW r, action_tapping_process(r)
  PROVE  /\ tapping_key' = Drain(Queued(r)).tk /\ waiting_buffer' = Drain(Queued(r)).buf
         /\ processed' = Drain(Queued(r)).out
         /\ active' = IF Overflows(r) THEN Cleared(Drain(Queued(r)).on) ELSE Drain(Queued(r)).on
         /\ lost' = (Overflows(r) \/ (lost /\ (down # {} \/ Cleared(active') # {})))
BY DEF action_tapping_process, Looked, Overflows, Queued, Now

LEMMA NowTypes ==
  ASSUME TypeOK
  PROVE  /\ Now \in States /\ Now.tk = tapping_key /\ Now.buf = waiting_buffer
         /\ Now.on = active /\ Len(waiting_buffer) < WAITING_BUFFER_SIZE
<1>1. waiting_buffer \in Seq(KeyRecords)
  <2>1. PICK n \in Nat : n = Len(waiting_buffer) /\ waiting_buffer \in [1 .. n -> Records]
    BY DEF TypeOK
  <2>2. \A i \in 1 .. n : waiting_buffer[i] \in KeyRecords
    BY <2>1 DEF TypeOK, IS_NOEVENT, KeyRecords
  <2>3. waiting_buffer \in [1 .. n -> KeyRecords]
    BY <2>1, <2>2
  <2> QED BY <2>3
<1>2. <<>> \in Seq(Records)
  OBVIOUS
<1> QED BY <1>1, <1>2 DEF TypeOK, Now, States, Effects

LEMMA LookedTypes ==
  ASSUME TypeOK, NEW r \in Records
  PROVE  StepTypes(Looked(r), Now, r)
BY NowTypes, TappingTypes DEF Looked

\* The buffer has room for one more record when one is put into it.
LEMMA QueuedTypes ==
  ASSUME TypeOK, NEW r \in Records
  PROVE  Queued(r) \in States /\ Len(Queued(r).buf) < WAITING_BUFFER_SIZE
<1> DEFINE q == Looked(r)
<1>1. /\ q.s \in States /\ q.rec \in Records /\ q.rec.key = r.key
      /\ Len(q.s.buf) = Len(waiting_buffer) /\ Len(waiting_buffer) < WAITING_BUFFER_SIZE
  BY LookedTypes, NowTypes DEF StepTypes
<1> HIDE DEF q
<1>2. CASE q.done \/ IS_NOEVENT(r)
  BY <1>1, <1>2 DEF Queued, q
<1>3. CASE ~(q.done \/ IS_NOEVENT(r)) /\ Full(q.s)
  <2>1. Queued(r) = [Reset(q.s) EXCEPT !.buf = <<>>]
    BY <1>3 DEF Queued, Overflows, q
  <2>2. PICK u \in States : u = Reset(q.s)
    BY <1>1, FieldTypes
  <2>3. <<>> \in Seq(KeyRecords) /\ Len(<<>>) < WAITING_BUFFER_SIZE
    BY BufferAssumption
  <2> QED BY <2>1, <2>2, <2>3, BufTypes, ZenonT(60)
<1>4. CASE ~(q.done \/ IS_NOEVENT(r)) /\ ~Full(q.s)
  <2>1. Queued(r) = [q.s EXCEPT !.buf = Append(q.s.buf, q.rec)]
    BY <1>4 DEF Queued, Overflows, q
  <2>2. q.s.buf \in Seq(KeyRecords) /\ q.rec \in KeyRecords
    BY <1>1, <1>4, FieldTypes DEF IS_NOEVENT, KeyRecords
  <2>3. PICK b \in Seq(KeyRecords) : b = Append(q.s.buf, q.rec) /\ Len(b) = Len(q.s.buf) + 1
    <3>1. \A c \in Seq(KeyRecords), u \in KeyRecords :
            Append(c, u) \in Seq(KeyRecords) /\ Len(Append(c, u)) = Len(c) + 1
      OBVIOUS
    <3> QED BY <2>2, <3>1
  <2>4. Len(b) < WAITING_BUFFER_SIZE
    BY <1>4, <2>2, <2>3, BufferAssumption DEF Full
  <2> QED BY <1>1, <2>1, <2>3, <2>4, BufTypes, ZenonT(60)
<1> QED BY <1>2, <1>3, <1>4

LEMMA CallTypes ==
  ASSUME TypeOK, NEW r \in Records, action_tapping_process(r)
  PROVE  /\ tapping_key' \in Records /\ waiting_buffer' \in Seq(Records)
         /\ Len(waiting_buffer') < WAITING_BUFFER_SIZE
         /\ \A i \in DOMAIN waiting_buffer' : ~IS_NOEVENT(waiting_buffer'[i])
         /\ processed' \in Seq(Records) /\ active' \subseteq Effects /\ lost' \in BOOLEAN
<1> DEFINE t == Drain(Queued(r))
<1>1. t \in States /\ Len(t.buf) < WAITING_BUFFER_SIZE
  BY QueuedTypes, DrainTypes
<1>2. /\ tapping_key' = t.tk /\ waiting_buffer' = t.buf /\ processed' = t.out
      /\ active' = IF Overflows(r) THEN Cleared(t.on) ELSE t.on
      /\ lost' \in BOOLEAN
  BY ActionParts
<1> HIDE DEF t
<1>3. t.buf \in Seq(KeyRecords) /\ t.tk \in Records /\ t.out \in Seq(Records) /\ t.on \subseteq Effects
  BY <1>1, FieldTypes
<1>4. t.buf \in Seq(Records) /\ \A i \in DOMAIN t.buf : ~IS_NOEVENT(t.buf[i])
  BY <1>3 DEF KeyRecords, IS_NOEVENT
<1>5. Cleared(t.on) \subseteq t.on
  BY DEF Cleared
<1> QED BY <1>1, <1>2, <1>3, <1>4, <1>5

LEMMA InitTypes ==
  Init => TypeOK
<1> SUFFICES ASSUME Init PROVE TypeOK
  OBVIOUS
<1>1. tapping_key \in Records /\ now \in 0 .. TimerMod - 1 /\ lag \in 0 .. MaxLag
  BY RecordFacts, TermAssumption DEF Init
<1>2. /\ waiting_buffer \in Seq(Records) /\ processed \in Seq(Records)
      /\ Len(waiting_buffer) < WAITING_BUFFER_SIZE /\ DOMAIN waiting_buffer = {}
  BY BufferAssumption DEF Init
<1> QED BY <1>1, <1>2 DEF Init, TypeOK

LEMMA StepsKeepTypes ==
  TypeOK /\ [Next]_vars => TypeOK'
<1> SUFFICES ASSUME TypeOK, [Next]_vars PROVE TypeOK'
  OBVIOUS
<1>1. ASSUME NEW k \in Keys, KeyEvent(k) PROVE TypeOK'
  <2>1. Event(k, k \notin down, now) \in Records
    BY RecordFacts DEF TypeOK
  <2>2. action_tapping_process(Event(k, k \notin down, now))
    BY <1>1 DEF KeyEvent
  <2>3. /\ setup' = setup /\ now' = now /\ lag' = lag /\ moved' = moved \cup {k}
        /\ down' = IF k \in down THEN down \ {k} ELSE down \cup {k}
    BY <1>1 DEF KeyEvent
  <2>4. down' \subseteq Keys /\ moved' \subseteq Keys
    BY <2>3 DEF TypeOK
  <2> HIDE DEF Event
  <2> QED BY <2>1, <2>2, <2>3, <2>4, CallTypes DEF TypeOK, Effects, IS_NOEVENT
<1>2. CASE TickEvent
  <2>1. Event(NoKey, FALSE, now) \in Records
    BY RecordFacts DEF TypeOK
  <2>2. action_tapping_process(Event(NoKey, FALSE, now))
    BY <1>2 DEF TickEvent
  <2>3. setup' = setup /\ now' = now /\ lag' = 0 /\ moved' = {} /\ down' = down
    BY <1>2 DEF TickEvent
  <2>4. 0 \in 0 .. MaxLag
    BY TermAssumption
  <2> QED BY <2>1, <2>2, <2>3, <2>4, CallTypes DEF TypeOK, Effects, IS_NOEVENT
<1>3. CASE Pass
  <2>1. now' \in 0 .. TimerMod - 1 /\ lag' \in 0 .. MaxLag
    BY <1>3, TermAssumption DEF Pass, TypeOK
  <2> QED BY <1>3, <2>1 DEF Pass, TypeOK, IS_NOEVENT
<1>4. CASE UNCHANGED vars
  BY <1>4 DEF vars, TypeOK, IS_NOEVENT
<1> QED BY <1>1, <1>2, <1>3, <1>4 DEF Next

\* The waiting buffer never holds more records than the ring has room for, and
\* every record in it is a key event, for every keyboard.
THEOREM TappingTypesHold == Spec => []TypeOK
BY InitTypes, StepsKeepTypes, PTL DEF Spec

-----------------------------------------------------------------------------
(* One tap-hold key.  The invariants are about a tapping key t, a buffer b *)
(* and what is on, a.  D: the keys that are down when all records in the   *)
(* buffer have been processed; L: what an overflow may have left on.       *)

IsUnsettled(t) == t.key # NoKey /\ t.pressed /\ t.count = 0
IsTapped(t)    == t.key # NoKey /\ t.pressed /\ t.count # 0
IsReleased(t)  == t.key # NoKey /\ ~t.pressed

Alone(b) == \A i \in 1 .. Len(b) : b[i].key \notin TapKeys

\* The press b[i] comes after a release of its key in the buffer or, as the first
\* record of the key there, while the key is not on.
Opens(b, i, a, L) ==
  /\ \A j \in 1 .. i - 1 :
       b[j].key = b[i].key /\ (\A m \in 1 .. i - 1 : m > j => b[m].key # b[i].key) => ~b[j].pressed
  /\ (\A j \in 1 .. i - 1 : b[j].key # b[i].key) /\ <<b[i].key, "key">> \in a
        => <<b[i].key, "key">> \in L

\* The last record of a key in the buffer tells whether it is down, and what is on
\* without a record in the buffer belongs to a key that is down.
KeysInv(b, a, D, L) ==
  /\ \A i \in 1 .. Len(b) :
       b[i].pressed /\ (\A j \in 1 .. Len(b) : j > i => b[j].key # b[i].key) => b[i].key \in D
  /\ \A k \in Keys : (k \in TapKeys => <<k, "key">> \notin a)
                     /\ (k \notin TapKeys => <<k, "tap">> \notin a /\ <<k, "hold">> \notin a)
  /\ \A k \in Keys : <<k, "key">> \in a /\ (\A i \in 1 .. Len(b) : b[i].key # k)
                        => k \in D \/ <<k, "key">> \in L
  /\ \A i \in 1 .. Len(b) : b[i].pressed /\ b[i].key \notin TapKeys => Opens(b, i, a, L)

\* The tap-hold key has no record but the last one.
BufferInv(b) ==
  \A i \in 1 .. Len(b) : b[i].key \in TapKeys =>
     i = Len(b) /\ (b[i].pressed => b[i].count = 0 /\ ~b[i].interrupted)

\* By the state of tapping_key: records wait for an unsettled one; the release of
\* a tapped one is the last record.
StateInv(t, b, D) ==
  /\ t.key = NoKey \/ t.key \in TapKeys
  /\ IsUnsettled(t) =>
       /\ t.key \in D /\ Alone(b)
       /\ \A i \in 1 .. Len(b) : WithinTappingTerm(b[i], t)
       /\ t.key \in setup.hold_on_other_key_press =>
            ~t.interrupted /\ \A i \in 1 .. Len(b) : ~b[i].pressed
  /\ IsTapped(t) =>
       IF b = <<>> THEN t.key \in D ELSE b[Len(b)].key = t.key /\ ~b[Len(b)].pressed
  /\ IsReleased(t) => b = <<>>

\* The release of the key comes, or is the last record, and goes to the hold.
HoldEnds(b, k, D) ==
  IF b # <<>> /\ b[Len(b)].key = k THEN ~b[Len(b)].pressed /\ b[Len(b)].count = 0 ELSE k \in D

\* A tap that is on is the one tapping_key stands for; a hold that is on ends with
\* the release of the key.
EffectsInv(t, b, a, D, L) ==
  \A k \in TapKeys :
    /\ <<k, "tap">> \in a => t.key = k /\ IsTapped(t)
    /\ <<k, "hold">> \in a => <<k, "hold">> \in L \/ (t.key = NoKey /\ HoldEnds(b, k, D))

TapInv(t, b, a, D, L) ==
  KeysInv(b, a, D, L) /\ BufferInv(b) /\ StateInv(t, b, D) /\ EffectsInv(t, b, a, D, L)

\* The first record in the buffer cannot be processed yet.
Typed(b, r) == \E i \in 1 .. Len(b) : b[i].key = r.key /\ b[i].pressed # r.pressed
Waits(t, b) ==
  \/ b[1].pressed
  \/ Typed(b, b[1]) /\ t.key \notin setup.permissive_hold
  \/ ~Typed(b, b[1]) /\ Retained(b[1])

\* What is in the buffer waits for the tapping key or, where keys have moved since
\* the last tick, M, was left there by a decision.
Rests(t, b, D, M) ==
  b # <<>> =>
    \/ IsUnsettled(t) /\ Waits(t, b)
    \/ M # {} /\ t.key = NoKey /\ setup.permissive_hold # {} /\ D # {}

Left == IF lost THEN Cleared(Effects) ELSE {}

OneKeyInv ==
  /\ TypeOK /\ OneTapKey /\ IsFiniteSet(moved)
  /\ TapInv(tapping_key, waiting_buffer, active, down, Left)
  /\ Rests(tapping_key, waiting_buffer, down, moved)

-----------------------------------------------------------------------------
(* What an event does to the keys that are down.                           *)

\* D is what E becomes when the event r happens.
Moves(r, E, D) ==
  /\ \A k \in Keys : k # r.key => (k \in D <=> k \in E)
  /\ r.pressed <=> r.key \in D
  /\ r.pressed <=> r.key \notin E

\* What processing a record of a key that is no tap-hold key makes of a.
Switch(a, r) == IF r.pressed THEN a \cup {<<r.key, "key">>} ELSE a \ {<<r.key, "key">>}

LEMMA AppendFacts ==
  ASSUME NEW b \in Seq(KeyRecords), NEW r \in KeyRecords
  PROVE  LET c == Append(b, r)
         IN /\ c \in Seq(KeyRecords) /\ Len(c) = Len(b) + 1 /\ c # <<>> /\ Len(b) \in Nat
            /\ c[Len(c)] = r /\ \A i \in 1 .. Len(b) : c[i] = b[i]
OBVIOUS

LEMMA KeysAppended ==
  ASSUME NEW b \in Seq(KeyRecords), NEW r \in KeyRecords, NEW a, NEW E, NEW D, NEW L,
         KeysInv(b, a, E, L), Moves(r, E, D)
  PROVE  KeysInv(Append(b, r), a, D, L)
<1> DEFINE c == Append(b, r)
<1>0. \A i \in 1 .. Len(b) : b[i].key \in Keys
  BY DEF KeyRecords, Records
<1>1. PICK n \in Nat : n = Len(b) /\ Len(c) = n + 1 /\ c[n + 1] = r
                       /\ \A i \in 1 .. n : c[i] = b[i] /\ b[i].key \in Keys
  BY <1>0, AppendFacts
<1> HIDE DEF c
<1>2. ASSUME NEW i \in 1 .. n + 1, c[i].pressed,
             \A j \in 1 .. n + 1 : j > i => c[j].key # c[i].key
      PROVE  c[i].key \in D
  <2>1. CASE i = n + 1
    BY <1>1, <1>2, <2>1 DEF Moves
  <2>2. CASE i # n + 1
    <3>1. i \in 1 .. n /\ c[i] = b[i] /\ b[i].key # r.key
      BY <1>1, <1>2, <2>2
    <3>2. \A j \in 1 .. n : j > i => b[j].key # b[i].key
      BY <1>1, <1>2, <3>1
    <3>3. b[i].key \in E
      BY <1>1, <1>2, <3>1, <3>2 DEF KeysInv
    <3> QED BY <1>1, <3>1, <3>3 DEF Moves
  <2> QED BY <2>1, <2>2
<1>3. ASSUME NEW k \in Keys, <<k, "key">> \in a, \A i \in 1 .. n + 1 : c[i].key # k
      PROVE  k \in D \/ <<k, "key">> \in L
  <2>1. k # r.key
    BY <1>1, <1>3
  <2>2. \A i \in 1 .. n : b[i].key # k
    BY <1>1, <1>3
  <2> QED BY <1>1, <1>3, <2>1, <2>2 DEF KeysInv, Moves
<1>4. \A k \in Keys : (k \in TapKeys => <<k, "key">> \notin a)
                      /\ (k \notin TapKeys => <<k, "tap">> \notin a /\ <<k, "hold">> \notin a)
  BY DEF KeysInv
<1>5. ASSUME NEW i \in 1 .. n + 1, c[i].pressed, c[i].key \notin TapKeys PROVE Opens(c, i, a, L)
  <2>1. CASE i = n + 1
    <3>0. c[i] = r /\ r.pressed /\ r.key \notin E /\ r.key \in Keys /\ i - 1 = n
      BY <1>1, <1>5, <2>1 DEF Moves, KeyRecords, Records
    <3>1. ASSUME NEW j \in 1 .. n, c[j].key = r.key, \A m \in 1 .. n : m > j => c[m].key # r.key
          PROVE  ~c[j].pressed
      <4>1. c[j] = b[j] /\ \A m \in 1 .. n : m > j => b[m].key # b[j].key
        BY <1>1, <3>1
      <4>2. b[j].pressed => b[j].key \in E
        BY <1>1, <4>1 DEF KeysInv
      <4> QED BY <3>0, <3>1, <4>1, <4>2
    <3>2. ASSUME \A j \in 1 .. n : c[j].key # r.key, <<r.key, "key">> \in a
          PROVE  <<r.key, "key">> \in L
      <4>1. \A j \in 1 .. n : b[j].key # r.key
        BY <1>1, <3>2
      <4> QED BY <1>1, <3>0, <3>2, <4>1 DEF KeysInv
    <3> QED BY <3>0, <3>1, <3>2 DEF Opens
  <2>2. CASE i # n + 1
    <3>1. i \in 1 .. n /\ c[i] = b[i] /\ \A j \in 1 .. i - 1 : c[j] = b[j]
      BY <1>1, <2>2
    <3>2. Opens(b, i, a, L)
      BY <1>1, <1>5, <3>1 DEF KeysInv
    <3> QED BY <3>1, <3>2 DEF Opens
  <2> QED BY <2>1, <2>2
<1> QED BY <1>1, <1>2, <1>3, <1>4, <1>5 DEF KeysInv, c

\* The first record is processed.
LEMMA KeysProcessed ==
  ASSUME NEW b \in Seq(KeyRecords), b # <<>>, NEW a, NEW D, NEW L, KeysInv(b, a, D, L),
         b[1].key \notin TapKeys
  PROVE  KeysInv(Tail(b), Switch(a, b[1]), D, L)
<1> DEFINE c == Tail(b)
           z == Switch(a, b[1])
<1>1. PICK n \in Nat : Len(b) = n + 1 /\ Len(c) = n /\ b[1].key \in Keys
                       /\ \A i \in 1 .. n : c[i] = b[i + 1] /\ c[i].key \in Keys
  <2>1. PICK n \in Nat : Len(b) = n + 1
    BY TailFacts
  <2> QED BY <2>1, TailFacts DEF KeyRecords, Records
<1> HIDE DEF c
<1>2. ASSUME NEW i \in 1 .. n, c[i].pressed, \A j \in 1 .. n : j > i => c[j].key # c[i].key
      PROVE  c[i].key \in D
  <2>1. i + 1 \in 1 .. n + 1 /\ c[i] = b[i + 1]
    BY <1>1
  <2>2. ASSUME NEW j \in 1 .. n + 1, j > i + 1 PROVE b[j].key # b[i + 1].key
    <3>1. j - 1 \in 1 .. n /\ j - 1 > i /\ (j - 1) + 1 = j
      BY <2>2
    <3> QED BY <1>1, <1>2, <2>1, <3>1
  <2> QED BY <1>1, <1>2, <2>1, <2>2 DEF KeysInv
<1>3. \A k \in Keys : k # b[1].key => (<<k, "key">> \in z <=> <<k, "key">> \in a)
  BY DEF Switch
<1>4. ASSUME NEW k \in Keys, <<k, "key">> \in z, \A i \in 1 .. n : c[i].key # k
      PROVE  k \in D \/ <<k, "key">> \in L
  <2>0. ASSUME NEW j \in 1 .. n + 1, j > 1 PROVE b[j].key # k
    <3>1. j - 1 \in 1 .. n /\ (j - 1) + 1 = j
      BY <2>0
    <3> QED BY <1>1, <1>4, <3>1
  <2>1. CASE k = b[1].key
    <3>1. b[1].pressed
      BY <1>4, <2>1 DEF Switch
    <3>2. 1 \in 1 .. n + 1
      BY <1>1
    <3> QED BY <1>1, <2>0, <2>1, <3>1, <3>2 DEF KeysInv
  <2>2. CASE k # b[1].key
    <3>1. <<k, "key">> \in a
      BY <1>3, <1>4, <2>2
    <3>2. ASSUME NEW j \in 1 .. n + 1 PROVE b[j].key # k
      BY <2>0, <2>2
    <3> QED BY <1>1, <3>1, <3>2 DEF KeysInv
  <2> QED BY <2>1, <2>2
<1>5. \A k \in Keys : (k \in TapKeys => <<k, "key">> \notin z)
                      /\ (k \notin TapKeys => <<k, "tap">> \notin z /\ <<k, "hold">> \notin z)
  BY DEF KeysInv, Switch
<1>6. ASSUME NEW i \in 1 .. n, c[i].pressed, c[i].key \notin TapKeys PROVE Opens(c, i, z, L)
  <2>0. /\ i + 1 \in 1 .. n + 1 /\ (i + 1) - 1 = i /\ c[i] = b[i + 1] /\ c[i].key \in Keys
        /\ \A m \in 1 .. i : m > 1 => m - 1 \in 1 .. i - 1 /\ c[m - 1] = b[m]
        /\ \A j \in 1 .. i - 1 : j + 1 \in 1 .. i /\ c[j] = b[j + 1]
    <3>1. ASSUME NEW m \in 1 .. i, m > 1 PROVE m - 1 \in 1 .. i - 1 /\ c[m - 1] = b[m]
      <4>1. m - 1 \in 1 .. n /\ m - 1 \in 1 .. i - 1 /\ (m - 1) + 1 = m
        BY <3>1
      <4> QED BY <1>1, <4>1
    <3> QED BY <1>1, <3>1
  <2>1. Opens(b, i + 1, a, L)
    BY <1>1, <1>6, <2>0 DEF KeysInv
  <2>2. ASSUME NEW j \in 1 .. i - 1, c[j].key = c[i].key,
               \A m \in 1 .. i - 1 : m > j => c[m].key # c[i].key
        PROVE  ~c[j].pressed
    <3>1. ASSUME NEW m \in 1 .. i, m > j + 1 PROVE b[m].key # b[i + 1].key
      <4>1. m > 1 /\ m - 1 > j
        BY <3>1
      <4> QED BY <2>0, <2>2, <4>1
    <3>2. j + 1 \in 1 .. i /\ c[j] = b[j + 1] /\ b[j + 1].key = b[i + 1].key
      BY <2>0, <2>2
    <3>3. ~b[j + 1].pressed
      BY <2>0, <2>1, <3>1, <3>2 DEF Opens
    <3> QED BY <3>2, <3>3
  <2>3. ASSUME \A j \in 1 .. i - 1 : c[j].key # c[i].key, <<c[i].key, "key">> \in z
        PROVE  <<c[i].key, "key">> \in L
    <3>1. ASSUME NEW m \in 1 .. i, m > 1 PROVE b[m].key # b[i + 1].key
      BY <2>0, <2>3, <3>1
    <3>2. b[1].key # b[i + 1].key
      <4> SUFFICES ASSUME b[1].key = b[i + 1].key PROVE FALSE
        OBVIOUS
      <4>1. 1 \in 1 .. i
        OBVIOUS
      <4>2. ~b[1].pressed
        BY <2>0, <2>1, <3>1, <4>1 DEF Opens
      <4> QED BY <2>0, <2>3, <4>2 DEF Switch
    <3>3. <<b[i + 1].key, "key">> \in a
      BY <1>3, <2>0, <2>3, <3>2
    <3>4. \A j \in 1 .. i : b[j].key # b[i + 1].key
      BY <3>1, <3>2
    <3> QED BY <2>0, <2>1, <3>3, <3>4 DEF Opens
  <2> QED BY <2>2, <2>3 DEF Opens
<1> HIDE DEF z
<1> QED BY <1>1, <1>2, <1>4, <1>5, <1>6 DEF KeysInv, c, z

\* Only effects of tap-hold keys tell a and z apart.
TapsApart(a, z) ==
  \A k \in Keys : /\ <<k, "key">> \in a <=> <<k, "key">> \in z
                  /\ k \notin TapKeys => <<k, "tap">> \notin z /\ <<k, "hold">> \notin z

LEMMA KeysSame ==
  ASSUME NEW b \in Seq(KeyRecords), NEW a, NEW z, NEW D, NEW L,
         KeysInv(b, a, D, L), TapsApart(a, z)
  PROVE  KeysInv(b, z, D, L)
<1>1. \A i \in 1 .. Len(b) : b[i].key \in Keys
  BY DEF KeyRecords, Records
<1>2. ASSUME NEW i \in 1 .. Len(b), Opens(b, i, a, L) PROVE Opens(b, i, z, L)
  BY <1>1, <1>2 DEF Opens, TapsApart
<1> QED BY <1>2 DEF KeysInv, TapsApart

LEMMA KeysEmptied ==
  ASSUME NEW b \in Seq(KeyRecords), Len(b) = 1, b[1].key \in TapKeys,
         NEW a, NEW z, NEW D, NEW L, KeysInv(b, a, D, L), TapsApart(a, z)
  PROVE  KeysInv(Tail(b), z, D, L) /\ Tail(b) = <<>>
<1>1. Tail(b) = <<>> /\ Len(Tail(b)) = 0
  <2>0. Len(<<>>) = 0
    OBVIOUS
  <2>1. b # <<>>
    BY <2>0
  <2>2. Tail(b) \in Seq(KeyRecords) /\ Len(Tail(b)) = 0
    BY <2>1, TailFacts
  <2>3. \A c \in Seq(KeyRecords) : Len(c) = 0 => c = <<>>
    OBVIOUS
  <2> QED BY <2>2, <2>3
<1>2. ASSUME NEW k \in Keys, <<k, "key">> \in z PROVE k \in D \/ <<k, "key">> \in L
  <2>1. <<k, "key">> \in a /\ k \notin TapKeys
    BY <1>2 DEF TapsApart, KeysInv
  <2>2. \A i \in 1 .. Len(b) : b[i].key # k
    BY <2>1
  <2> QED BY <2>1, <2>2 DEF KeysInv
<1>3. \A k \in Keys : (k \in TapKeys => <<k, "key">> \notin z)
                      /\ (k \notin TapKeys => <<k, "tap">> \notin z /\ <<k, "hold">> \notin z)
  BY DEF KeysInv, TapsApart
<1>4. \A i \in 1 .. Len(Tail(b)) : FALSE
  BY <1>1
<1> QED BY <1>1, <1>2, <1>3, <1>4 DEF KeysInv

\* An event of the tap-hold key that does not go into the buffer.
LEMMA KeysTapMoved ==
  ASSUME NEW r \in KeyRecords, r.key \in TapKeys, NEW a, NEW z, NEW E, NEW D, NEW L,
         KeysInv(<<>>, a, E, L), Moves(r, E, D), TapsApart(a, z)
  PROVE  KeysInv(<<>>, z, D, L)
<1>1. ASSUME NEW k \in Keys, <<k, "key">> \in z PROVE k \in D \/ <<k, "key">> \in L
  <2>1. <<k, "key">> \in a /\ k \notin TapKeys
    BY <1>1 DEF TapsApart, KeysInv
  <2>2. k \in E \/ <<k, "key">> \in L
    BY <2>1 DEF KeysInv
  <2> QED BY <2>1, <2>2 DEF Moves
<1>2. \A k \in Keys : (k \in TapKeys => <<k, "key">> \notin z)
                      /\ (k \notin TapKeys => <<k, "tap">> \notin z /\ <<k, "hold">> \notin z)
  BY DEF KeysInv, TapsApart
<1> QED BY <1>1, <1>2 DEF KeysInv

\* An event of another key that is processed at once.
LEMMA KeysPassed ==
  ASSUME NEW b \in Seq(KeyRecords), NEW r \in KeyRecords, r.key \notin TapKeys,
         NEW a, NEW E, NEW D, NEW L, KeysInv(b, a, E, L), Moves(r, E, D),
         b = <<>> \/ (~r.pressed /\ ~Typed(b, r))
  PROVE  KeysInv(b, Switch(a, r), D, L)
<1> DEFINE z == Switch(a, r)
<1>1. \A k \in Keys : k # r.key => (<<k, "key">> \in z <=> <<k, "key">> \in a)
  BY DEF Switch
<1>2. ASSUME NEW i \in 1 .. Len(b), b[i].pressed,
             \A j \in 1 .. Len(b) : j > i => b[j].key # b[i].key
      PROVE  b[i].key \in D
  <2>1. b[i].key # r.key /\ b[i].key \in Keys
    BY <1>2 DEF Typed, KeyRecords, Records
  <2>2. b[i].key \in E
    BY <1>2 DEF KeysInv
  <2> QED BY <2>1, <2>2 DEF Moves
<1>3. ASSUME NEW k \in Keys, <<k, "key">> \in z, \A i \in 1 .. Len(b) : b[i].key # k
      PROVE  k \in D \/ <<k, "key">> \in L
  <2>1. CASE k = r.key
    BY <1>3, <2>1 DEF Switch, Moves
  <2>2. CASE k # r.key
    <3>1. k \in E \/ <<k, "key">> \in L
      BY <1>1, <1>3, <2>2 DEF KeysInv
    <3> QED BY <2>2, <3>1 DEF Moves
  <2> QED BY <2>1, <2>2
<1>4. \A k \in Keys : (k \in TapKeys => <<k, "key">> \notin z)
                      /\ (k \notin TapKeys => <<k, "tap">> \notin z /\ <<k, "hold">> \notin z)
  BY DEF KeysInv, Switch
<1>5. ASSUME NEW i \in 1 .. Len(b), b[i].pressed, b[i].key \notin TapKeys PROVE Opens(b, i, z, L)
  <2>1. b # <<>> /\ ~r.pressed
    BY <1>5
  <2>2. z \subseteq a
    BY <2>1 DEF Switch
  <2>3. Opens(b, i, a, L)
    BY <1>5 DEF KeysInv
  <2> HIDE DEF z
  <2> QED BY <2>2, <2>3 DEF Opens
<1> HIDE DEF z
<1> QED BY <1>2, <1>3, <1>4, <1>5 DEF KeysInv, z

-----------------------------------------------------------------------------
(* What process_record switches on and off.                                *)

LEMMA TapKeyFacts ==
  /\ NoKey \notin TapKeys /\ TapKeys \subseteq Keys
  /\ \A k \in Keys \cup {NoKey} : is_tap_key(k) <=> k \in TapKeys
BY KeyAssumption DEF TapKeys, is_tap_key

LEMMA SwitchFacts ==
  ASSUME NEW a, NEW r \in KeyRecords, r.key \notin TapKeys
  PROVE  Apply(a, Processed(r)) = Switch(a, r)
<1>1. r \in Records /\ r.key \in Keys
  BY DEF KeyRecords, Records
<1>2. PICK u : u = Processed(r) /\ u.key = r.key /\ u.pressed = r.pressed
  BY <1>1, ProcessedFacts
<1>3. ~is_tap_key(u.key)
  BY <1>1, <1>2, TapKeyFacts
<1>4. Effect(u) = <<r.key, "key">>
  BY <1>2, <1>3 DEF Effect
<1> QED BY <1>2, <1>4 DEF Apply, Switch

LEMMA HoldFacts ==
  ASSUME NEW a, NEW r \in KeyRecords, r.key \in TapKeys, r.count = 0
  PROVE  Apply(a, Processed(r)) =
           IF r.pressed THEN a \cup {<<r.key, "hold">>} ELSE a \ {<<r.key, "hold">>}
<1>1. r \in Records /\ r.key \in Keys
  BY DEF KeyRecords, Records
<1>2. Processed(r) = r
  BY <1>1, ProcessedFacts
<1>3. is_tap_key(r.key)
  BY <1>1, TapKeyFacts
<1>4. Effect(r) = <<r.key, "hold">>
  BY <1>3 DEF Effect
<1> QED BY <1>2, <1>4 DEF Apply

LEMMA TapFacts ==
  ASSUME NEW a, NEW r \in KeyRecords, r.key \in TapKeys, r.count # 0,
         ~r.pressed \/ ~r.interrupted \/ r.key \notin setup.hold_on_other_key_press
  PROVE  /\ Processed(r) = r
         /\ Apply(a, Processed(r)) =
              IF r.pressed THEN a \cup {<<r.key, "tap">>} ELSE a \ {<<r.key, "tap">>}
<1>1. r \in Records /\ r.key \in Keys /\ r.count \in Nat
  BY BufferAssumption DEF KeyRecords, Records
<1>2. Processed(r) = r
  BY <1>1 DEF Processed
<1>3. is_tap_key(r.key) /\ r.count > 0
  BY <1>1, TapKeyFacts
<1>4. Effect(r) = <<r.key, "tap">>
  BY <1>3 DEF Effect
<1> QED BY <1>2, <1>4 DEF Apply

-----------------------------------------------------------------------------
(* What can happen to tapping key, buffer and effects.                     *)

LoopInv(t, b, a, D, L, M) ==
  TapInv(t, b, a, D, L) /\ (M = {} /\ IsUnsettled(t) /\ b # <<>> => Waits(t, b))

\* The first record, of another key, is processed.
LEMMA HeadProcessed ==
  ASSUME NEW t, NEW b \in Seq(KeyRecords), b # <<>>, NEW a, NEW D, NEW L,
         TapInv(t, b, a, D, L), b[1].key \notin TapKeys
  PROVE  TapInv(t, Tail(b), Switch(a, b[1]), D, L)
<1> DEFINE c == Tail(b)
           z == Switch(a, b[1])
<1>1. PICK n \in Nat : Len(b) = n + 1 /\ Len(c) = n /\ \A i \in 1 .. n : c[i] = b[i + 1]
  <2>1. PICK n \in Nat : Len(b) = n + 1
    BY TailFacts
  <2> QED BY <2>1, TailFacts
<1>2. c = <<>> <=> n = 0
  <2>1. c \in Seq(KeyRecords)
    BY TailFacts
  <2> HIDE DEF c
  <2> QED BY <1>1, <2>1
<1>3. \A i \in 1 .. n : i + 1 \in 1 .. n + 1 /\ (i + 1 = n + 1 => i = n)
  OBVIOUS
<1>4. KeysInv(c, z, D, L)
  BY KeysProcessed DEF TapInv
<1> HIDE DEF c
<1>5. BufferInv(c)
  BY <1>1, <1>3 DEF TapInv, BufferInv
<1>6. c # <<>> => c[Len(c)] = b[Len(b)]
  BY <1>1, <1>2
<1>7. StateInv(t, c, D)
  <2>1. IsUnsettled(t) =>
          /\ t.key \in D /\ Alone(c)
          /\ \A i \in 1 .. Len(c) : WithinTappingTerm(c[i], t)
          /\ t.key \in setup.hold_on_other_key_press =>
               ~t.interrupted /\ \A i \in 1 .. Len(c) : ~c[i].pressed
    BY <1>1, <1>3 DEF TapInv, StateInv, Alone
  <2>2. IsTapped(t) =>
          IF c = <<>> THEN t.key \in D ELSE c[Len(c)].key = t.key /\ ~c[Len(c)].pressed
    <3> SUFFICES ASSUME IsTapped(t)
                 PROVE  c # <<>> /\ c[Len(c)].key = t.key /\ ~c[Len(c)].pressed
      OBVIOUS
    <3>1. b[Len(b)].key = t.key /\ ~b[Len(b)].pressed /\ t.key \in TapKeys
      BY DEF TapInv, StateInv, IsTapped
    <3>2. n # 0
      BY <1>1, <3>1
    <3> QED BY <1>2, <1>6, <3>1, <3>2
  <2> QED BY <2>1, <2>2 DEF TapInv, StateInv
<1>8. EffectsInv(t, c, z, D, L)
  <2>1. ASSUME NEW k \in TapKeys, HoldEnds(b, k, D) PROVE HoldEnds(c, k, D)
    BY <1>1, <1>2, <1>6, <2>1 DEF HoldEnds
  <2>2. \A k \in TapKeys : /\ <<k, "tap">> \in z <=> <<k, "tap">> \in a
                           /\ <<k, "hold">> \in z <=> <<k, "hold">> \in a
    BY DEF Switch
  <2> HIDE DEF z
  <2> QED BY <2>1, <2>2 DEF TapInv, EffectsInv
<1> QED BY <1>4, <1>5, <1>7, <1>8 DEF TapInv, c, z

\* The tap-hold key's record is alone in the buffer when it is the first.
LEMMA TapRecordAlone ==
  ASSUME NEW t, NEW b \in Seq(KeyRecords), b # <<>>, NEW a, NEW D, NEW L,
         TapInv(t, b, a, D, L), b[1].key \in TapKeys
  PROVE  Len(b) = 1 /\ (b[1].pressed => b[1].count = 0 /\ ~b[1].interrupted /\ b[1].key \in D)
<1>1. 1 \in 1 .. Len(b)
  BY TailFacts
<1>2. 1 = Len(b) /\ (b[1].pressed => b[1].count = 0 /\ ~b[1].interrupted)
  BY <1>1, Zenon DEF TapInv, BufferInv
<1>3. b[1].pressed => b[1].key \in D
  <2>1. \A j \in 1 .. 1 : ~(j > 1)
    OBVIOUS
  <2>2. \A j \in 1 .. Len(b) : ~(j > 1)
    BY <1>2, <2>1, Zenon
  <2> QED BY <1>1, <2>2, ZenonT(60) DEF TapInv, KeysInv
<1> QED BY <1>2, <1>3

LEMMA EmptyBuffer ==
  /\ <<>> \in Seq(KeyRecords) /\ Len(<<>>) = 0 /\ BufferInv(<<>>) /\ Alone(<<>>)
  /\ \A k, D : HoldEnds(<<>>, k, D) <=> k \in D
BY DEF BufferInv, Alone, HoldEnds

\* Nothing waits and there is no tap, and no hold but one that was left on: so it
\* is when the tap-hold key begins, or ends after a tap.
LEMMA Restarts ==
  ASSUME OneTapKey, NEW t, NEW z, NEW D, NEW L, KeysInv(<<>>, z, D, L),
         t.key = NoKey \/ t.key \in TapKeys,
         IsUnsettled(t) => t.key \in D /\ ~t.interrupted, ~IsTapped(t),
         \A k \in TapKeys : <<k, "tap">> \notin z
                            /\ (<<k, "hold">> \in z => <<k, "hold">> \in L)
  PROVE  TapInv(t, <<>>, z, D, L)
<1>1. StateInv(t, <<>>, D)
  BY EmptyBuffer DEF StateInv
<1>2. EffectsInv(t, <<>>, z, D, L)
  BY DEF EffectsInv
<1> QED BY <1>1, <1>2, EmptyBuffer DEF TapInv

\* The press of the tap-hold key is the next record and begins tapping.
LEMMA HeadStarts ==
  ASSUME OneTapKey, NEW t, t.key = NoKey, NEW b \in Seq(KeyRecords), b # <<>>,
         NEW a, NEW D, NEW L, TapInv(t, b, a, D, L), b[1].key \in TapKeys, b[1].pressed
  PROVE  TapInv(b[1], Tail(b), a, D, L) /\ Tail(b) = <<>>
<1>1. Len(b) = 1 /\ b[1].count = 0 /\ ~b[1].interrupted /\ b[1].key \in D
  BY TapRecordAlone
<1>2. KeysInv(Tail(b), a, D, L) /\ Tail(b) = <<>>
  <2>1. TapsApart(a, a) /\ KeysInv(b, a, D, L)
    BY DEF TapInv, KeysInv, TapsApart
  <2> QED BY <1>1, <2>1, KeysEmptied
<1>3. ASSUME NEW k \in TapKeys PROVE <<k, "tap">> \notin a /\ (<<k, "hold">> \in a => <<k, "hold">> \in L)
  <2>1. k = b[1].key
    BY DEF OneTapKey
  <2>2. ~HoldEnds(b, k, D)
    BY <1>1, <2>1 DEF HoldEnds
  <2> QED BY <2>2 DEF TapInv, EffectsInv, IsTapped
<1>4. b[1].key # NoKey /\ ~IsTapped(b[1])
  BY <1>1, TapKeyFacts DEF IsTapped
<1> QED BY <1>1, <1>2, <1>3, <1>4, Restarts

\* The release of the tap-hold key is the next record and ends a hold.
LEMMA HeadReleased ==
  ASSUME OneTapKey, NEW t, t.key = NoKey, NEW b \in Seq(KeyRecords), b # <<>>,
         NEW a, NEW D, NEW L, TapInv(t, b, a, D, L), b[1].key \in TapKeys, ~b[1].pressed
  PROVE  TapInv(t, Tail(b), Apply(a, Processed(b[1])), D, L) /\ Tail(b) = <<>>
<1> DEFINE z == Apply(a, Processed(b[1]))
<1>0. Len(b) = 1 /\ b[1] \in KeyRecords
  BY TapRecordAlone, TailFacts
<1>1. z = a \ {<<b[1].key, IF b[1].count = 0 THEN "hold" ELSE "tap">>}
  <2>1. CASE b[1].count = 0
    BY <1>0, <2>1, HoldFacts
  <2>2. CASE b[1].count # 0
    BY <1>0, <2>2, TapFacts
  <2> QED BY <2>1, <2>2
<1> HIDE DEF z
<1>2. KeysInv(Tail(b), z, D, L) /\ Tail(b) = <<>>
  <2>1. TapsApart(a, z) /\ KeysInv(b, a, D, L)
    BY <1>1 DEF TapInv, KeysInv, TapsApart
  <2> QED BY <1>0, <2>1, KeysEmptied
<1>3. ASSUME NEW k \in TapKeys PROVE <<k, "tap">> \notin z /\ (<<k, "hold">> \in z => <<k, "hold">> \in L)
  <2>1. k = b[1].key
    BY DEF OneTapKey
  <2>2. <<k, "tap">> \notin a
    BY TapKeyFacts DEF TapInv, EffectsInv
  <2>3. <<k, "hold">> \in a => <<k, "hold">> \in L \/ b[1].count = 0
    BY <1>0, <2>1 DEF TapInv, EffectsInv, HoldEnds
  <2> QED BY <1>1, <2>1, <2>2, <2>3
<1>4. ~IsUnsettled(t) /\ ~IsTapped(t)
  BY DEF IsUnsettled, IsTapped
<1> QED BY <1>2, <1>3, <1>4, Restarts DEF z

\* The release of a tap is the next record; t becomes the release or nothing.
LEMMA HeadEndsTap ==
  ASSUME OneTapKey, NEW t, IsTapped(t), NEW u, u.key = NoKey \/ u.key \in TapKeys, ~u.pressed,
         NEW b \in Seq(KeyRecords), b # <<>>,
         NEW a, NEW D, NEW L, TapInv(t, b, a, D, L), b[1].key \in TapKeys
  PROVE  TapInv(u, Tail(b), a \ {<<b[1].key, "tap">>}, D, L) /\ Tail(b) = <<>>
<1> DEFINE z == a \ {<<b[1].key, "tap">>}
<1>0. Len(b) = 1
  BY TapRecordAlone
<1>2. KeysInv(Tail(b), z, D, L) /\ Tail(b) = <<>>
  <2>1. TapsApart(a, z) /\ KeysInv(b, a, D, L)
    BY DEF TapInv, KeysInv, TapsApart
  <2> HIDE DEF z
  <2> QED BY <1>0, <2>1, KeysEmptied
<1>3. ASSUME NEW k \in TapKeys PROVE <<k, "tap">> \notin z /\ (<<k, "hold">> \in z => <<k, "hold">> \in L)
  <2>1. k = b[1].key
    BY DEF OneTapKey
  <2>2. <<k, "hold">> \in a => <<k, "hold">> \in L
    BY DEF TapInv, EffectsInv, IsTapped
  <2> QED BY <2>1, <2>2
<1>4. ~IsUnsettled(u) /\ ~IsTapped(u)
  BY DEF IsUnsettled, IsTapped
<1> HIDE DEF z
<1> QED BY <1>2, <1>3, <1>4, Restarts DEF z

\* The tapping key is decided as a hold.
LEMMA HoldBegins ==
  ASSUME OneTapKey, NEW t, IsUnsettled(t), NEW u, u.key = NoKey,
         NEW b \in Seq(KeyRecords), NEW a, NEW D, NEW L, TapInv(t, b, a, D, L)
  PROVE  TapInv(u, b, a \cup {<<t.key, "hold">>}, D, L)
<1> DEFINE z == a \cup {<<t.key, "hold">>}
<1>1. t.key \in TapKeys /\ t.key \in D /\ Alone(b)
  BY DEF TapInv, StateInv, IsUnsettled
<1>2. KeysInv(b, z, D, L)
  <2>1. TapsApart(a, z) /\ KeysInv(b, a, D, L)
    BY <1>1 DEF TapInv, KeysInv, TapsApart
  <2> HIDE DEF z
  <2> QED BY <2>1, KeysSame
<1>3. StateInv(u, b, D)
  BY DEF StateInv, IsUnsettled, IsTapped, IsReleased
<1>4. ASSUME NEW k \in TapKeys PROVE <<k, "tap">> \notin z /\ HoldEnds(b, k, D)
  <2>1. k = t.key
    BY <1>1 DEF OneTapKey
  <2>2. <<k, "tap">> \notin a
    BY DEF TapInv, EffectsInv, IsTapped, IsUnsettled
  <2>3. HoldEnds(b, k, D)
    <3>1. b # <<>> => Len(b) \in 1 .. Len(b)
      BY TailFacts
    <3> QED BY <1>1, <2>1, <3>1 DEF HoldEnds, Alone
  <2> QED BY <2>1, <2>2, <2>3
<1> HIDE DEF z
<1>5. EffectsInv(u, b, z, D, L)
  BY <1>4 DEF EffectsInv
<1> QED BY <1>2, <1>3, <1>5 DEF TapInv, z

\* An unsettled key that other keys do not decide is interrupted.
LEMMA Interrupted ==
  ASSUME NEW t, IsUnsettled(t), t.key \notin setup.hold_on_other_key_press,
         NEW u, IsUnsettled(u), u.key = t.key, u.time = t.time,
         NEW b, NEW a, NEW D, NEW L, TapInv(t, b, a, D, L)
  PROVE  TapInv(u, b, a, D, L)
<1>1. StateInv(u, b, D)
  <2>1. t.key \in TapKeys /\ t.key \in D /\ Alone(b) /\ \A i \in 1 .. Len(b) : WithinTappingTerm(b[i], t)
    BY DEF TapInv, StateInv, IsUnsettled
  <2>2. \A i \in 1 .. Len(b) : WithinTappingTerm(b[i], u)
    BY <2>1 DEF WithinTappingTerm
  <2> QED BY <2>1, <2>2 DEF StateInv, IsUnsettled, IsTapped, IsReleased
<1>2. EffectsInv(u, b, a, D, L)
  BY DEF TapInv, EffectsInv, IsUnsettled, IsTapped
<1> QED BY <1>1, <1>2 DEF TapInv

LEMMA AloneAppended ==
  ASSUME NEW b \in Seq(KeyRecords), Alone(b), NEW r \in KeyRecords,
         r.key \in TapKeys /\ r.pressed => r.count = 0 /\ ~r.interrupted
  PROVE  /\ BufferInv(Append(b, r)) /\ (r.key \notin TapKeys => Alone(Append(b, r)))
         /\ Append(b, r)[Len(Append(b, r))] = r /\ Append(b, r) # <<>>
<1> DEFINE c == Append(b, r)
<1>1. PICK n \in Nat : n = Len(b) /\ Len(c) = n + 1 /\ c[n + 1] = r /\ c # <<>>
                       /\ \A i \in 1 .. n : c[i] = b[i]
  BY AppendFacts
<1> HIDE DEF c
<1>2. \A i \in 1 .. n + 1 : i # n + 1 => i \in 1 .. n
  OBVIOUS
<1>3. \A i \in 1 .. n + 1 : c[i].key \in TapKeys => i = n + 1
  BY <1>1, <1>2 DEF Alone
<1>4. BufferInv(c) /\ (r.key \notin TapKeys => Alone(c))
  BY <1>1, <1>3 DEF BufferInv, Alone
<1> QED BY <1>1, <1>4 DEF c

\* A record is put into the buffer after the tapping key has been decided or has
\* timed out.
LEMMA AppendedIdle ==
  ASSUME NEW u, u.key = NoKey, NEW b \in Seq(KeyRecords), Alone(b), NEW r \in KeyRecords,
         NEW a, NEW E, NEW D, NEW L, TapInv(u, b, a, E, L), Moves(r, E, D),
         r.count = 0, ~r.interrupted,
         r.key \in TapKeys /\ r.pressed =>
           \A k \in TapKeys : <<k, "hold">> \in a => <<k, "hold">> \in L
  PROVE  TapInv(u, Append(b, r), a, D, L)
<1> DEFINE c == Append(b, r)
<1>1. BufferInv(c) /\ c[Len(c)] = r /\ c # <<>>
  BY AloneAppended
<1>2. KeysInv(c, a, D, L)
  BY KeysAppended DEF TapInv
<1> HIDE DEF c
<1>3. StateInv(u, c, D)
  BY DEF StateInv, IsUnsettled, IsTapped, IsReleased
<1>4. ASSUME NEW k \in TapKeys, <<k, "hold">> \in a, <<k, "hold">> \notin L PROVE HoldEnds(c, k, D)
  <2>1. CASE r.key = k
    BY <1>1, <1>4, <2>1 DEF HoldEnds
  <2>2. CASE r.key # k
    <3>1. HoldEnds(b, k, E)
      BY <1>4 DEF TapInv, EffectsInv
    <3>2. b # <<>> => Len(b) \in 1 .. Len(b)
      BY TailFacts
    <3>3. k \in E
      BY <3>1, <3>2 DEF HoldEnds, Alone
    <3>4. k \in D
      BY <2>2, <3>3, TapKeyFacts DEF Moves
    <3> QED BY <1>1, <2>2, <3>4 DEF HoldEnds
  <2> QED BY <2>1, <2>2
<1>5. EffectsInv(u, c, a, D, L)
  BY <1>4 DEF TapInv, EffectsInv
<1> QED BY <1>1, <1>2, <1>3, <1>5 DEF TapInv, c

\* A record of another key waits for the tapping key.
LEMMA AppendedUnsettled ==
  ASSUME NEW t, IsUnsettled(t), NEW b \in Seq(KeyRecords), NEW r \in KeyRecords,
         r.key \notin TapKeys, WithinTappingTerm(r, t),
         t.key \in setup.hold_on_other_key_press => ~r.pressed,
         NEW a, NEW E, NEW D, NEW L, TapInv(t, b, a, E, L), Moves(r, E, D)
  PROVE  TapInv(t, Append(b, r), a, D, L)
<1> DEFINE c == Append(b, r)
<1>0. t.key \in TapKeys /\ t.key \in E /\ Alone(b)
  BY DEF TapInv, StateInv, IsUnsettled
<1>1. BufferInv(c) /\ Alone(c)
  BY <1>0, AloneAppended
<1>2. KeysInv(c, a, D, L)
  BY KeysAppended DEF TapInv
<1>3. PICK n \in Nat : n = Len(b) /\ Len(c) = n + 1 /\ c[n + 1] = r
                       /\ \A i \in 1 .. n : c[i] = b[i]
  BY AppendFacts
<1>4. \A i \in 1 .. n + 1 : i # n + 1 => i \in 1 .. n
  OBVIOUS
<1> HIDE DEF c
<1>5. \A i \in 1 .. Len(c) : WithinTappingTerm(c[i], t)
  BY <1>3, <1>4 DEF TapInv, StateInv
<1>6. t.key \in setup.hold_on_other_key_press =>
        ~t.interrupted /\ \A i \in 1 .. Len(c) : ~c[i].pressed
  BY <1>3, <1>4 DEF TapInv, StateInv
<1>7. t.key \in D
  BY <1>0, TapKeyFacts DEF Moves
<1>8. StateInv(t, c, D)
  BY <1>0, <1>1, <1>5, <1>6, <1>7 DEF StateInv, IsUnsettled, IsTapped, IsReleased
<1>9. EffectsInv(t, c, a, D, L)
  BY DEF TapInv, EffectsInv, IsUnsettled
<1> QED BY <1>1, <1>2, <1>8, <1>9 DEF TapInv, c

\* The tapping key is decided as a tap; its release is put into the buffer.
LEMMA AppendedTap ==
  ASSUME OneTapKey, NEW t, IsUnsettled(t), NEW u, IsTapped(u), u.key = t.key,
         NEW b \in Seq(KeyRecords), NEW r \in KeyRecords, r.key = t.key, ~r.pressed,
         NEW a, NEW E, NEW D, NEW L, TapInv(t, b, a, E, L), Moves(r, E, D)
  PROVE  TapInv(u, Append(b, r), a \cup {<<t.key, "tap">>}, D, L)
<1> DEFINE c == Append(b, r)
           z == a \cup {<<t.key, "tap">>}
<1>0. t.key \in TapKeys /\ Alone(b)
  BY DEF TapInv, StateInv, IsUnsettled
<1>1. BufferInv(c) /\ c[Len(c)] = r /\ c # <<>>
  BY <1>0, AloneAppended
<1>2. KeysInv(c, z, D, L)
  <2>1. KeysInv(c, a, D, L)
    BY KeysAppended DEF TapInv
  <2>2. TapsApart(a, z)
    BY <1>0 DEF TapInv, KeysInv, TapsApart
  <2>3. c \in Seq(KeyRecords)
    BY AppendFacts
  <2> HIDE DEF c, z
  <2> QED BY <2>1, <2>2, <2>3, KeysSame
<1> HIDE DEF c
<1>3. StateInv(u, c, D)
  BY <1>0, <1>1 DEF StateInv, IsUnsettled, IsTapped, IsReleased
<1>4. ASSUME NEW k \in TapKeys PROVE k = u.key /\ (<<k, "hold">> \in z => <<k, "hold">> \in L)
  BY <1>0 DEF TapInv, EffectsInv, IsUnsettled, OneTapKey
<1> HIDE DEF z
<1>5. EffectsInv(u, c, z, D, L)
  BY <1>4 DEF EffectsInv
<1> QED BY <1>1, <1>2, <1>3, <1>5 DEF TapInv, c, z

\* An event of another key is processed at once.
LEMMA EventPassed ==
  ASSUME NEW t, NEW b \in Seq(KeyRecords), NEW r \in KeyRecords, r.key \notin TapKeys,
         NEW a, NEW E, NEW D, NEW L, TapInv(t, b, a, E, L), Moves(r, E, D),
         b = <<>> \/ (~r.pressed /\ ~Typed(b, r))
  PROVE  TapInv(t, b, Switch(a, r), D, L)
<1> DEFINE z == Switch(a, r)
<1>1. \A k \in TapKeys : k \in D <=> k \in E
  BY TapKeyFacts DEF Moves
<1>2. \A k \in TapKeys : /\ <<k, "tap">> \in z <=> <<k, "tap">> \in a
                         /\ <<k, "hold">> \in z <=> <<k, "hold">> \in a
  BY DEF Switch
<1>3. KeysInv(b, z, D, L)
  BY KeysPassed DEF TapInv
<1>4. StateInv(t, b, D)
  BY <1>1 DEF TapInv, StateInv, IsUnsettled, IsTapped
<1>5. \A k \in TapKeys : HoldEnds(b, k, E) => HoldEnds(b, k, D)
  BY <1>1 DEF HoldEnds
<1> HIDE DEF z
<1>6. EffectsInv(t, b, z, D, L)
  BY <1>2, <1>5 DEF TapInv, EffectsInv
<1> QED BY <1>3, <1>4, <1>6 DEF TapInv, z

\* An event of the tap-hold key, with an empty buffer, that leaves no tap on and
\* no hold but one that was left.
LEMMA TapMoved ==
  ASSUME OneTapKey, NEW r \in KeyRecords, r.key \in TapKeys, NEW t, NEW u,
         u.key = NoKey \/ u.key \in TapKeys, ~IsTapped(u),
         IsUnsettled(u) => u.key = r.key /\ r.pressed /\ ~u.interrupted,
         NEW a, NEW z, NEW E, NEW D, NEW L, TapInv(t, <<>>, a, E, L), Moves(r, E, D),
         TapsApart(a, z),
         \A k \in TapKeys : <<k, "tap">> \notin z
                            /\ (<<k, "hold">> \in z => <<k, "hold">> \in L)
  PROVE  TapInv(u, <<>>, z, D, L)
<1>1. KeysInv(<<>>, z, D, L)
  BY KeysTapMoved DEF TapInv
<1>2. IsUnsettled(u) => u.key \in D /\ ~u.interrupted
  BY DEF Moves
<1> QED BY <1>1, <1>2, Restarts

\* The tap-hold key is pressed again and goes on as a tap.
LEMMA TapRepeated ==
  ASSUME OneTapKey, NEW r \in KeyRecords, r.pressed, NEW t, IsReleased(t), t.key = r.key,
         NEW u, IsTapped(u), u.key = r.key,
         NEW a, NEW E, NEW D, NEW L, TapInv(t, <<>>, a, E, L), Moves(r, E, D)
  PROVE  TapInv(u, <<>>, a \cup {<<r.key, "tap">>}, D, L)
<1> DEFINE z == a \cup {<<r.key, "tap">>}
<1>0. r.key \in TapKeys /\ r.key \in D
  BY DEF TapInv, StateInv, IsReleased, Moves
<1>1. KeysInv(<<>>, z, D, L)
  <2>1. TapsApart(a, z) /\ KeysInv(<<>>, a, E, L)
    BY <1>0 DEF TapInv, KeysInv, TapsApart
  <2> HIDE DEF z
  <2> QED BY <1>0, <2>1, KeysTapMoved
<1>2. StateInv(u, <<>>, D)
  BY <1>0 DEF StateInv, IsTapped, IsUnsettled, IsReleased
<1>3. ASSUME NEW k \in TapKeys PROVE k = u.key /\ (<<k, "hold">> \in z => <<k, "hold">> \in L)
  BY <1>0 DEF TapInv, EffectsInv, IsReleased, OneTapKey
<1> HIDE DEF z
<1>4. EffectsInv(u, <<>>, z, D, L)
  BY <1>3 DEF EffectsInv
<1> QED BY <1>1, <1>2, <1>4, EmptyBuffer DEF TapInv, z

-----------------------------------------------------------------------------
(* One turn of the loop over the buffer.                                   *)

TurnGood(q, D, L, M) ==
  IF q.done THEN LoopInv(q.s.tk, Tail(q.s.buf), q.s.on, D, L, M)
  ELSE /\ TapInv(q.s.tk, q.s.buf, q.s.on, D, L) /\ Rests(q.s.tk, q.s.buf, D, M)
       /\ q.rec = q.s.buf[1]

LEMMA TurnLeaves ==
  ASSUME NEW u, NEW r, NEW D, NEW L, NEW M
  PROVE  /\ TurnGood(Consumed(u, r), D, L, M) <=> LoopInv(u.tk, Tail(u.buf), u.on, D, L, M)
         /\ TurnGood(Enqueue(u, r), D, L, M) <=>
              /\ TapInv(u.tk, u.buf, u.on, D, L) /\ Rests(u.tk, u.buf, D, M) /\ r = u.buf[1]
BY DEF Consumed, Enqueue, Leaves, TurnGood

LEMMA SeenTypes ==
  ASSUME NEW s \in States
  PROVE  LET u == [s EXCEPT !.tk.interrupted = TRUE]
         IN /\ u \in States /\ u.buf = s.buf /\ u.on = s.on /\ u.out = s.out
            /\ u.tk.key = s.tk.key /\ u.tk.time = s.tk.time
            /\ u.tk.pressed = s.tk.pressed /\ u.tk.count = s.tk.count
<1> DEFINE t == [s.tk EXCEPT !.interrupted = TRUE]
<1>1. s.tk \in Records
  BY FieldTypes
<1>2. /\ t \in Records /\ t.key = s.tk.key /\ t.time = s.tk.time
      /\ t.pressed = s.tk.pressed /\ t.count = s.tk.count
  BY <1>1 DEF Records
<1>3. [s EXCEPT !.tk.interrupted = TRUE] = [s EXCEPT !.tk = t]
  OBVIOUS
<1> HIDE DEF t
<1>4. /\ [s EXCEPT !.tk = t] \in States /\ [s EXCEPT !.tk = t].tk = t
      /\ [s EXCEPT !.tk = t].buf = s.buf /\ [s EXCEPT !.tk = t].on = s.on
      /\ [s EXCEPT !.tk = t].out = s.out
  BY <1>2, FieldTypes
<1> QED BY <1>2, <1>3, <1>4

LEMMA TypedFacts ==
  ASSUME NEW s, NEW r
  PROVE  waiting_buffer_typed(s, r) <=> Typed(s.buf, r)
BY DEF waiting_buffer_typed, Typed

\* No tapping key.
LEMMA TurnIdle ==
  ASSUME OneTapKey, NEW s \in States, s.buf # <<>>, s.tk.key = NoKey, NEW D, NEW L, NEW M,
         TapInv(s.tk, s.buf, s.on, D, L)
  PROVE  TurnGood(process_tapping(s, s.buf[1]), D, L, M)
<1> DEFINE h == s.buf[1]
<1>0. /\ s.buf \in Seq(KeyRecords) /\ h \in KeyRecords /\ h \in Records /\ h.key # NoKey
      /\ h.key \in Keys /\ s.tk \in Records
  BY FieldTypes, TailFacts DEF KeyRecords, Records
<1>1. process_tapping(s, h) = Idle(s, h) /\ ~IS_NOEVENT(h)
  BY <1>0 DEF process_tapping, IS_NOEVENT
<1>2. is_tap_key(h.key) <=> h.key \in TapKeys
  BY <1>0, TapKeyFacts
<1>3. CASE h.key \in TapKeys /\ h.pressed
  <2>1. PICK u \in States : u = [s EXCEPT !.tk = h] /\ u.tk = h /\ u.buf = s.buf /\ u.on = s.on
    BY <1>0, FieldTypes
  <2>2. Len(u.buf) = 1 /\ u.buf[1].pressed
    BY <1>0, <1>3, <2>1, TapRecordAlone
  <2>3. StartTapping(s, h) = u
    <3>1. {i \in 1 .. Len(u.buf) : /\ u.buf[i].key = u.tk.key /\ ~u.buf[i].pressed
                                   /\ WithinTappingTerm(u.buf[i], u.tk)} = {}
      BY <2>2
    <3> QED BY <2>1, <3>1 DEF StartTapping, waiting_buffer_scan_tap
  <2>4. process_tapping(s, h) = Consumed(u, h)
    BY <1>1, <1>2, <1>3, <2>3 DEF Idle
  <2>5. TapInv(h, Tail(s.buf), s.on, D, L) /\ Tail(s.buf) = <<>>
    BY <1>0, <1>3, HeadStarts
  <2>6. LoopInv(u.tk, Tail(u.buf), u.on, D, L, M)
    BY <2>1, <2>5 DEF LoopInv
  <2> QED BY <2>4, <2>6, TurnLeaves
<1>4. CASE ~(h.key \in TapKeys /\ h.pressed)
  <2>1. PICK u \in States : u = process_record(s, h) /\ u.tk = s.tk /\ u.buf = s.buf
                            /\ u.on = Apply(s.on, Processed(h))
    BY <1>0, ProcessTypes
  <2>2. process_tapping(s, h) = Consumed(u, h)
    BY <1>1, <1>2, <1>4, <2>1 DEF Idle
  <2>3. TapInv(u.tk, Tail(u.buf), u.on, D, L)
    <3>1. CASE h.key \in TapKeys
      BY <1>0, <1>4, <2>1, <3>1, HeadReleased
    <3>2. CASE h.key \notin TapKeys
      BY <1>0, <2>1, <3>2, HeadProcessed, SwitchFacts
    <3> QED BY <3>1, <3>2
  <2>4. ~IsUnsettled(u.tk)
    BY <2>1 DEF IsUnsettled
  <2>5. LoopInv(u.tk, Tail(u.buf), u.on, D, L, M)
    BY <2>3, <2>4 DEF LoopInv
  <2> QED BY <2>2, <2>5, TurnLeaves
<1> QED BY <1>3, <1>4

LEMMA UnsettledForms ==
  ASSUME NEW s \in States, NEW r \in KeyRecords
  PROVE  LET typed == Typed(s.buf, r)
             nested == s.tk.key \in setup.permissive_hold
         IN /\ r.pressed => Unsettled(s, r) = Interrupt(s, r)
            /\ ~r.pressed /\ r.key = s.tk.key =>
                 LET tap == ProcessTappingKey([s EXCEPT !.tk.count = 1])
                 IN Unsettled(s, r) = Enqueue(tap, WithTap(r, tap.tk))
            /\ ~r.pressed /\ r.key # s.tk.key =>
                 /\ typed /\ nested => Unsettled(s, r) = Enqueue(Reset(process_record(s, s.tk)), r)
                 /\ typed /\ ~nested => Unsettled(s, r) = Enqueue(s, r)
                 /\ ~typed /\ Retained(r) => Unsettled(s, r) = Enqueue(s, r)
                 /\ ~typed /\ ~Retained(r) => Unsettled(s, r) = Consumed(process_record(s, r), r)
<1> DEFINE tap == ProcessTappingKey([s EXCEPT !.tk.count = 1])
<1>1. waiting_buffer_typed(s, r) <=> Typed(s.buf, r)
  BY TypedFacts
<1>2. Unsettled(s, r) =
        CASE ~r.pressed /\ r.key = s.tk.key ->
               Enqueue(tap, WithTap(r, tap.tk))
          [] /\ ~r.pressed /\ r.key # s.tk.key /\ waiting_buffer_typed(s, r)
             /\ s.tk.key \in setup.permissive_hold ->
               Enqueue(Reset(process_record(s, s.tk)), r)
          [] /\ ~r.pressed /\ r.key # s.tk.key /\ ~waiting_buffer_typed(s, r) ->
               IF Retained(r) THEN Enqueue(s, r) ELSE Consumed(process_record(s, r), r)
          [] r.pressed -> Interrupt(s, r)
          [] OTHER -> Enqueue(s, r)
  BY DEF Unsettled
<1> HIDE DEF tap
<1> QED BY <1>1, <1>2 DEF tap

\* The tapping key is not settled.
LEMMA TurnUnsettled ==
  ASSUME OneTapKey, NEW s \in States, s.buf # <<>>, IsUnsettled(s.tk), NEW D, NEW L, NEW M,
         LoopInv(s.tk, s.buf, s.on, D, L, M)
  PROVE  TurnGood(process_tapping(s, s.buf[1]), D, L, M)
<1> DEFINE h == s.buf[1]
<1>0. /\ s.buf \in Seq(KeyRecords) /\ h \in KeyRecords /\ h.key # NoKey /\ 1 \in 1 .. Len(s.buf)
      /\ s.tk \in KeyRecords /\ s.tk \in Records
  <2>1. s.buf \in Seq(KeyRecords) /\ s.tk \in Records
    BY FieldTypes
  <2>2. h \in KeyRecords /\ 1 \in 1 .. Len(s.buf)
    BY <2>1, TailFacts
  <2> QED BY <2>1, <2>2 DEF KeyRecords, IsUnsettled
<1>1. /\ h.key \notin TapKeys /\ s.tk.key \in TapKeys /\ WithinTappingTerm(h, s.tk)
      /\ h.pressed => s.tk.key \notin setup.hold_on_other_key_press
      /\ TapInv(s.tk, s.buf, s.on, D, L)
      /\ M = {} => Waits(s.tk, s.buf)
  BY <1>0 DEF LoopInv, TapInv, StateInv, Alone, IsUnsettled
<1>2. process_tapping(s, h) = Unsettled(s, h) /\ h.key # s.tk.key
  BY <1>0, <1>1 DEF process_tapping, IS_NOEVENT, IsUnsettled
<1>3. CASE h.pressed
  <2>1. PICK u \in States : /\ u = [s EXCEPT !.tk.interrupted = TRUE] /\ u.buf = s.buf /\ u.on = s.on
                            /\ IsUnsettled(u.tk) /\ u.tk.key = s.tk.key /\ u.tk.time = s.tk.time
    BY SeenTypes DEF IsUnsettled
  <2>2. process_tapping(s, h) = Enqueue(u, h)
    BY <1>0, <1>1, <1>2, <1>3, <2>1, UnsettledForms DEF Interrupt
  <2>3. TapInv(u.tk, u.buf, u.on, D, L)
    BY <1>1, <1>3, <2>1, Interrupted
  <2>4. Rests(u.tk, u.buf, D, M) /\ h = u.buf[1]
    BY <1>3, <2>1 DEF Rests, Waits
  <2> QED BY <2>2, <2>3, <2>4, TurnLeaves
<1>4. CASE ~h.pressed /\ Typed(s.buf, h) /\ s.tk.key \in setup.permissive_hold
  <2>1. PICK u \in States : /\ u = Reset(process_record(s, s.tk)) /\ u.tk = NoRecord /\ u.buf = s.buf
                            /\ u.on = Apply(s.on, Processed(s.tk))
    BY <1>0, HoldTypes
  <2>2. process_tapping(s, h) = Enqueue(u, h)
    BY <1>0, <1>2, <1>4, <2>1, UnsettledForms
  <2>3. u.on = s.on \cup {<<s.tk.key, "hold">>} /\ u.tk.key = NoKey
    BY <1>0, <1>1, <2>1, HoldFacts, RecordFacts DEF IsUnsettled
  <2>4. TapInv(u.tk, u.buf, u.on, D, L)
    BY <1>0, <1>1, <2>1, <2>3, HoldBegins
  <2>5. Rests(u.tk, u.buf, D, M) /\ h = u.buf[1]
    <3>1. M # {} /\ D # {}
      BY <1>1, <1>4 DEF Waits, TapInv, StateInv
    <3> QED BY <1>4, <2>1, <2>3, <3>1 DEF Rests
  <2> QED BY <2>2, <2>4, <2>5, TurnLeaves
<1>5. CASE /\ ~h.pressed
           /\ \/ Typed(s.buf, h) /\ s.tk.key \notin setup.permissive_hold
              \/ ~Typed(s.buf, h) /\ Retained(h)
  <2>1. process_tapping(s, h) = Enqueue(s, h)
    BY <1>0, <1>2, <1>5, UnsettledForms
  <2>2. Rests(s.tk, s.buf, D, M)
    BY <1>5 DEF Rests, Waits
  <2> QED BY <1>1, <2>1, <2>2, TurnLeaves
<1>6. CASE ~h.pressed /\ ~Typed(s.buf, h) /\ ~Retained(h)
  <2>1. PICK u \in States : u = process_record(s, h) /\ u.tk = s.tk /\ u.buf = s.buf
                            /\ u.on = Apply(s.on, Processed(h))
    BY <1>0, ProcessTypes
  <2>2. process_tapping(s, h) = Consumed(u, h)
    BY <1>0, <1>2, <1>6, <2>1, UnsettledForms
  <2>3. TapInv(u.tk, Tail(u.buf), u.on, D, L)
    BY <1>0, <1>1, <2>1, HeadProcessed, SwitchFacts
  <2>4. M # {}
    BY <1>1, <1>6 DEF Waits
  <2>5. LoopInv(u.tk, Tail(u.buf), u.on, D, L, M)
    BY <2>3, <2>4 DEF LoopInv
  <2> QED BY <2>2, <2>5, TurnLeaves
<1> QED BY <1>3, <1>4, <1>5, <1>6

\* The release of a tap is processed; t says what becomes of tapping_key.
LEMMA TapEnds ==
  ASSUME NEW s \in States, IsTapped(s.tk), s.tk.key \in TapKeys, NEW r \in KeyRecords,
         r.key = s.tk.key, ~r.pressed, NEW w \in BOOLEAN
  PROVE  \E u \in States, v \in KeyRecords :
            /\ Tapped(s, r, w) = Consumed(u, v)
            /\ u.buf = s.buf /\ u.on = s.on \ {<<r.key, "tap">>}
            /\ u.tk.key = NoKey \/ u.tk.key = r.key
            /\ ~u.tk.pressed
<1> DEFINE v == WithTap(r, s.tk)
           o == process_record(s, v)
           u == IF w THEN [o EXCEPT !.tk = v] ELSE Reset(o)
<1>0. s.tk \in Records /\ r \in Records
  BY FieldTypes DEF KeyRecords
<1>1. v \in KeyRecords /\ v \in Records /\ v.key = r.key /\ ~v.pressed /\ v.count = s.tk.count
  BY <1>0, RecordFacts DEF KeyRecords
<1>2. Tapped(s, r, w) = Consumed(u, v)
  BY DEF Tapped
<1> HIDE DEF v
<1>3. o \in States /\ o.buf = s.buf /\ o.on = s.on \ {<<r.key, "tap">>}
  <2>1. Apply(s.on, Processed(v)) = s.on \ {<<v.key, "tap">>}
    BY <1>1, TapFacts DEF IsTapped
  <2> QED BY <1>1, <2>1, ProcessTypes
<1> HIDE DEF o
<1>4. u \in States /\ u.buf = o.buf /\ u.on = o.on /\ (u.tk = v \/ u.tk = NoRecord)
  BY <1>1, <1>3, FieldTypes
<1> HIDE DEF u
<1>5. (u.tk.key = NoKey \/ u.tk.key = r.key) /\ ~u.tk.pressed
  BY <1>1, <1>4, RecordFacts
<1> QED BY <1>1, <1>2, <1>3, <1>4, <1>5

LEMMA TappedPasses ==
  ASSUME NEW s, NEW r \in KeyRecords, r.key # s.tk.key, r.key \notin TapKeys, NEW w
  PROVE  Tapped(s, r, w) = Consumed(process_record(s, r), r)
<1>1. ~is_tap_key(r.key)
  BY TapKeyFacts DEF KeyRecords, Records
<1> QED BY <1>1 DEF Tapped

\* The tapping key is settled as a tap.
LEMMA TurnTapped ==
  ASSUME OneTapKey, NEW s \in States, s.buf # <<>>, IsTapped(s.tk), NEW D, NEW L, NEW M,
         TapInv(s.tk, s.buf, s.on, D, L)
  PROVE  TurnGood(process_tapping(s, s.buf[1]), D, L, M)
<1> DEFINE h == s.buf[1]
<1>0. /\ s.buf \in Seq(KeyRecords) /\ h \in KeyRecords /\ h.key # NoKey
      /\ s.tk.key \in TapKeys /\ s.buf[Len(s.buf)].key = s.tk.key /\ ~s.buf[Len(s.buf)].pressed
  <2>1. s.buf \in Seq(KeyRecords)
    BY FieldTypes
  <2>2. h \in KeyRecords
    BY <2>1, TailFacts
  <2> QED BY <2>1, <2>2 DEF KeyRecords, TapInv, StateInv, IsTapped
<1>1. process_tapping(s, h) = Tapped(s, h, WithinTappingTerm(h, s.tk))
  BY <1>0 DEF process_tapping, IS_NOEVENT, IsTapped
<1>2. CASE h.key \in TapKeys
  <2>1. Len(s.buf) = 1
    BY <1>0, <1>2, TapRecordAlone
  <2>2. PICK u \in States, v \in KeyRecords :
            /\ process_tapping(s, h) = Consumed(u, v)
            /\ u.buf = s.buf /\ u.on = s.on \ {<<h.key, "tap">>}
            /\ u.tk.key = NoKey \/ u.tk.key = h.key
            /\ ~u.tk.pressed
    <3>1. h.key = s.tk.key /\ ~h.pressed
      BY <1>0, <2>1
    <3>2. WithinTappingTerm(h, s.tk) \in BOOLEAN
      BY DEF WithinTappingTerm
    <3> HIDE DEF h
    <3> QED BY <1>0, <1>1, <3>1, <3>2, TapEnds
  <2>3. TapInv(u.tk, Tail(u.buf), u.on, D, L) /\ Tail(u.buf) = <<>>
    <3>1. (u.tk.key = NoKey \/ u.tk.key \in TapKeys) /\ ~u.tk.pressed
      BY <1>2, <2>2
    <3>2. TapInv(u.tk, Tail(s.buf), s.on \ {<<h.key, "tap">>}, D, L) /\ Tail(s.buf) = <<>>
      BY <1>0, <1>2, <3>1, HeadEndsTap
    <3> QED BY <2>2, <3>2
  <2>4. LoopInv(u.tk, Tail(u.buf), u.on, D, L, M)
    BY <2>3 DEF LoopInv
  <2>5. TurnGood(Consumed(u, v), D, L, M)
    BY <2>4, TurnLeaves
  <2> QED BY <2>2, <2>5
<1>3. CASE h.key \notin TapKeys
  <2>1. PICK u \in States : u = process_record(s, h) /\ u.tk = s.tk /\ u.buf = s.buf
                            /\ u.on = Apply(s.on, Processed(h))
    BY <1>0, ProcessTypes
  <2>2. process_tapping(s, h) = Consumed(u, h)
    BY <1>0, <1>1, <1>3, <2>1, TappedPasses
  <2>3. TapInv(u.tk, Tail(u.buf), u.on, D, L)
    BY <1>0, <1>3, <2>1, HeadProcessed, SwitchFacts
  <2>4. LoopInv(u.tk, Tail(u.buf), u.on, D, L, M)
    BY <2>1, <2>3 DEF LoopInv, IsUnsettled, IsTapped
  <2> QED BY <2>2, <2>4, TurnLeaves
<1> QED BY <1>2, <1>3

LoopState(p, D, L, M) ==
  IF p.more THEN LoopInv(p.s.tk, p.s.buf, p.s.on, D, L, M)
  ELSE TapInv(p.s.tk, p.s.buf, p.s.on, D, L) /\ Rests(p.s.tk, p.s.buf, D, M)

LEMMA TurnIsGood ==
  ASSUME OneTapKey, NEW s \in States, s.buf # <<>>, NEW D, NEW L, NEW M,
         LoopInv(s.tk, s.buf, s.on, D, L, M)
  PROVE  TurnGood(process_tapping(s, s.buf[1]), D, L, M)
<1>1. TapInv(s.tk, s.buf, s.on, D, L) /\ ~IsReleased(s.tk)
  BY DEF LoopInv, TapInv, StateInv
<1>2. s.tk.key = NoKey \/ IsUnsettled(s.tk) \/ IsTapped(s.tk)
  BY <1>1 DEF IsReleased, IsUnsettled, IsTapped
<1> QED BY <1>1, <1>2, TurnIdle, TurnUnsettled, TurnTapped

LEMMA TurnKeeps ==
  ASSUME OneTapKey, NEW p, p.s \in States, NEW D, NEW L, NEW M, LoopState(p, D, L, M)
  PROVE  LoopState(DrainTurn(p), D, L, M)
<1>1. CASE ~p.more \/ p.s.buf = <<>>
  BY <1>1 DEF DrainTurn
<1>2. CASE p.more /\ p.s.buf # <<>>
  <2>1. PICK s \in States : s = p.s /\ s.buf # <<>> /\ LoopInv(s.tk, s.buf, s.on, D, L, M)
    BY <1>2 DEF LoopState
  <2>2. /\ s.buf \in Seq(KeyRecords) /\ Head(s.buf) = s.buf[1]
        /\ s.buf[1] \in KeyRecords /\ s.buf[1] \in Records
    <3>1. s.buf \in Seq(KeyRecords)
      BY FieldTypes
    <3> QED BY <2>1, <3>1, TailFacts DEF KeyRecords
  <2> DEFINE q == process_tapping(s, s.buf[1])
  <2>3. TurnGood(q, D, L, M)
    BY <2>1, TurnIsGood
  <2>4. StepTypes(q, s, s.buf[1])
    BY <2>2, TappingTypes
  <2>5. DrainTurn(p) = [s |-> [q.s EXCEPT !.buf = IF q.done THEN Tail(@)
                                                     ELSE [@ EXCEPT ![1] = q.rec]],
                        more |-> q.done]
    BY <1>2, <2>1, <2>2 DEF DrainTurn
  <2> HIDE DEF q
  <2>6. /\ q.s \in States /\ q.s.buf \in Seq(KeyRecords) /\ q.s.buf # <<>>
        /\ Tail(q.s.buf) \in Seq(KeyRecords)
    <3>1. q.s \in States /\ q.s.buf \in Seq(KeyRecords) /\ Len(q.s.buf) = Len(s.buf)
      BY <2>4, FieldTypes DEF StepTypes
    <3>2. Len(s.buf) # 0
      BY <2>1, <2>2, TailFacts
    <3>3. q.s.buf # <<>>
      BY <3>1, <3>2
    <3> QED BY <3>1, <3>3, TailFacts
  <2>7. CASE q.done
    <3>1. PICK u \in States : /\ u = [q.s EXCEPT !.buf = Tail(q.s.buf)] /\ u.tk = q.s.tk
                              /\ u.buf = Tail(q.s.buf) /\ u.on = q.s.on
      BY <2>6, BufTypes, ZenonT(60)
    <3>2. DrainTurn(p).s = u /\ DrainTurn(p).more
      BY <2>5, <2>7, <3>1
    <3>3. LoopInv(u.tk, u.buf, u.on, D, L, M)
      BY <2>3, <2>7, <3>1 DEF TurnGood
    <3> QED BY <3>2, <3>3 DEF LoopState
  <2>8. CASE ~q.done
    <3>1. [q.s.buf EXCEPT ![1] = q.rec] = q.s.buf
      <4>1. q.rec = q.s.buf[1]
        BY <2>3, <2>8 DEF TurnGood
      <4>2. \A b \in Seq(KeyRecords) : [b EXCEPT ![1] = b[1]] = b
        OBVIOUS
      <4> QED BY <2>6, <4>1, <4>2
    <3>2. PICK u \in States : /\ u = [q.s EXCEPT !.buf = q.s.buf] /\ u.tk = q.s.tk
                              /\ u.buf = q.s.buf /\ u.on = q.s.on
      BY <2>6, BufTypes
    <3>3. DrainTurn(p).s = u /\ ~DrainTurn(p).more
      BY <2>5, <2>8, <3>1, <3>2
    <3>4. TapInv(u.tk, u.buf, u.on, D, L) /\ Rests(u.tk, u.buf, D, M)
      BY <2>3, <2>8, <3>2 DEF TurnGood
    <3> QED BY <3>3, <3>4 DEF LoopState
  <2> QED BY <2>7, <2>8
<1> QED BY <1>1, <1>2

\* The loop ends with an empty buffer or where a record cannot be processed.
LEMMA DrainKeeps ==
  ASSUME OneTapKey, NEW s \in States, Len(s.buf) < WAITING_BUFFER_SIZE, NEW D, NEW L, NEW M,
         LoopInv(s.tk, s.buf, s.on, D, L, M)
  PROVE  LET d == Drain(s) IN TapInv(d.tk, d.buf, d.on, D, L) /\ Rests(d.tk, d.buf, D, M)
<1>1. PICK f : /\ f[0] = DrainStart(s) /\ Drain(s) = f[WAITING_BUFFER_SIZE].s
               /\ \A n \in 1 .. WAITING_BUFFER_SIZE : f[n] = DrainTurn(f[n - 1])
  BY DrainTurns
<1>2. PICK l \in Nat : l = Len(s.buf)
  BY FieldTypes, SMTT(40)
<1>3. PICK w \in Nat : w = WAITING_BUFFER_SIZE /\ l < w
  BY <1>2, BufferAssumption
<1> DEFINE Ok(n) == TurnTypes(f[n], l, n) /\ LoopState(f[n], D, L, M)
           S == {n \in 0 .. w : ~Ok(n)}
<1>4. S = {}
  <2>1. SUFFICES ASSUME S # {} PROVE FALSE
    OBVIOUS
  <2>2. PICK m \in S : \A j \in S : m <= j
    <3>1. S \subseteq Nat
      OBVIOUS
    <3> HIDE DEF S
    <3> QED BY <2>1, <3>1, SmallestElement
  <2>3. TurnTypes(DrainStart(s), l, 0) /\ LoopState(DrainStart(s), D, L, M)
    BY <1>2 DEF TurnTypes, DrainStart, LoopState
  <2>4. m # 0
    BY <1>1, <2>3
  <2>5. m \in 1 .. w /\ m - 1 \in Nat /\ m - 1 \notin S /\ m - 1 \in 0 .. w
    BY <2>2, <2>4
  <2>6. Ok(m - 1)
    BY <2>5
  <2>7. TurnTypes(DrainTurn(f[m - 1]), l, (m - 1) + 1)
    BY <2>5, <2>6, TurnStep
  <2>8. LoopState(DrainTurn(f[m - 1]), D, L, M)
    BY <2>6, TurnKeeps DEF TurnTypes
  <2>9. f[m] = DrainTurn(f[m - 1]) /\ (m - 1) + 1 = m
    BY <1>1, <1>3, <2>5
  <2> QED BY <2>7, <2>8, <2>9
<1>5. Ok(w)
  BY <1>4
<1>6. PICK d \in States : d = f[w].s
  BY <1>5 DEF TurnTypes
<1>7. f[w].more => d.buf = <<>>
  <2>1. Len(d.buf) \in Nat
    BY FieldTypes
  <2> QED BY <1>3, <1>5, <1>6, <2>1 DEF TurnTypes
<1>8. TapInv(d.tk, d.buf, d.on, D, L) /\ Rests(d.tk, d.buf, D, M)
  BY <1>5, <1>6, <1>7 DEF LoopState, LoopInv, Rests
<1> QED BY <1>1, <1>3, <1>6, <1>8

-----------------------------------------------------------------------------
(* A key event.                                                            *)

EventGood(q, D, L) ==
  TapInv(q.s.tk, IF q.done THEN q.s.buf ELSE Append(q.s.buf, q.rec), q.s.on, D, L)

LEMMA EventLeaves ==
  ASSUME NEW u, NEW r, NEW D, NEW L
  PROVE  /\ EventGood(Consumed(u, r), D, L) <=> TapInv(u.tk, u.buf, u.on, D, L)
         /\ EventGood(Enqueue(u, r), D, L) <=> TapInv(u.tk, Append(u.buf, r), u.on, D, L)
BY DEF Consumed, Enqueue, Leaves, EventGood

\* What is known when a key event comes: what waits waits for the tapping key.
Comes(s, r, E, D, L) ==
  /\ r.key # NoKey /\ r.count = 0 /\ ~r.interrupted /\ Moves(r, E, D)
  /\ TapInv(s.tk, s.buf, s.on, E, L) /\ (s.buf # <<>> => IsUnsettled(s.tk))

\* With no tapping key, or one that has been released, an event that starts nothing.
LEMMA EventProcessed ==
  ASSUME OneTapKey, NEW s \in States, s.tk.key = NoKey \/ IsReleased(s.tk), NEW r \in KeyRecords,
         NEW E, NEW D, NEW L, Comes(s, r, E, D, L), ~(r.pressed /\ r.key \in TapKeys)
  PROVE  EventGood(Consumed(process_record(s, r), r), D, L)
<1>0. s.buf = <<>> /\ s.buf \in Seq(KeyRecords) /\ TapInv(s.tk, s.buf, s.on, E, L) /\ Moves(r, E, D)
  BY FieldTypes DEF Comes, IsUnsettled, IsReleased
<1>1. PICK u \in States : u = process_record(s, r) /\ u.tk = s.tk /\ u.buf = s.buf
                          /\ u.on = Apply(s.on, Processed(r))
  BY ProcessTypes
<1>2. TapInv(u.tk, u.buf, u.on, D, L)
  <2>1. CASE r.key \notin TapKeys
    <3>1. u.on = Switch(s.on, r)
      BY <1>1, <2>1, SwitchFacts
    <3>2. TapInv(s.tk, s.buf, Switch(s.on, r), D, L)
      BY <1>0, <2>1, EventPassed
    <3> QED BY <1>1, <3>1, <3>2
  <2>2. CASE r.key \in TapKeys
    <3>1. u.on = s.on \ {<<r.key, "hold">>}
      BY <1>1, <2>2, HoldFacts DEF Comes
    <3>2. TapsApart(s.on, u.on)
      BY <1>0, <3>1 DEF TapsApart, TapInv, KeysInv
    <3>3. ASSUME NEW k \in TapKeys PROVE <<k, "tap">> \notin u.on /\ <<k, "hold">> \notin u.on
      <4>1. k = r.key
        BY <2>2 DEF OneTapKey
      <4>2. <<k, "tap">> \notin s.on
        BY <1>0, TapKeyFacts DEF TapInv, EffectsInv, IsReleased, IsTapped
      <4> QED BY <3>1, <4>1, <4>2
    <3>4. ~IsTapped(s.tk) /\ ~IsUnsettled(s.tk) /\ (s.tk.key = NoKey \/ s.tk.key \in TapKeys)
      BY <1>0 DEF TapInv, StateInv, IsReleased, IsTapped, IsUnsettled
    <3> QED BY <1>0, <1>1, <2>2, <3>2, <3>3, <3>4, TapMoved
  <2> QED BY <2>1, <2>2
<1> QED BY <1>1, <1>2, EventLeaves

\* The press of the tap-hold key that becomes the tapping key.
LEMMA EventStarts ==
  ASSUME OneTapKey, NEW s \in States, s.tk.key = NoKey \/ IsReleased(s.tk), NEW r \in KeyRecords,
         NEW E, NEW D, NEW L, Comes(s, r, E, D, L), r.pressed, r.key \in TapKeys
  PROVE  /\ EventGood(Consumed([s EXCEPT !.tk = r], r), D, L)
         /\ EventGood(Consumed(StartTapping(s, r), r), D, L)
<1>0. s.buf = <<>> /\ TapInv(s.tk, s.buf, s.on, E, L) /\ Moves(r, E, D)
  BY DEF Comes, IsUnsettled, IsReleased
<1>1. PICK u \in States : u = [s EXCEPT !.tk = r] /\ u.tk = r /\ u.buf = s.buf /\ u.on = s.on
  BY FieldTypes DEF KeyRecords
<1>2. StartTapping(s, r) = u
  <2>1. {i \in 1 .. Len(u.buf) : /\ u.buf[i].key = u.tk.key /\ ~u.buf[i].pressed
                                 /\ WithinTappingTerm(u.buf[i], u.tk)} = {}
    BY <1>0, <1>1
  <2> QED BY <1>1, <2>1 DEF StartTapping, waiting_buffer_scan_tap
<1>3. TapInv(u.tk, u.buf, u.on, D, L)
  <2>1. TapsApart(s.on, s.on)
    BY <1>0 DEF TapsApart, TapInv, KeysInv
  <2>2. ASSUME NEW k \in TapKeys
        PROVE  <<k, "tap">> \notin s.on /\ (<<k, "hold">> \in s.on => <<k, "hold">> \in L)
    <3>1. k = r.key /\ k \notin E
      BY <1>0 DEF OneTapKey, Moves
    <3>2. <<k, "tap">> \notin s.on
      BY <1>0, TapKeyFacts DEF TapInv, EffectsInv, IsReleased, IsTapped
    <3>3. <<k, "hold">> \in s.on => <<k, "hold">> \in L
      BY <1>0, <3>1, EmptyBuffer, ZenonT(60) DEF TapInv, EffectsInv
    <3> QED BY <3>2, <3>3
  <2>3. ~IsTapped(r) /\ ~r.interrupted
    BY DEF Comes, IsTapped
  <2> QED BY <1>0, <1>1, <2>1, <2>2, <2>3, TapMoved
<1> QED BY <1>1, <1>2, <1>3, EventLeaves

LEMMA EventIdle ==
  ASSUME OneTapKey, NEW s \in States, s.tk.key = NoKey, NEW r \in KeyRecords,
         NEW E, NEW D, NEW L, Comes(s, r, E, D, L)
  PROVE  EventGood(process_tapping(s, r), D, L)
<1>1. process_tapping(s, r) = Idle(s, r) /\ ~IS_NOEVENT(r)
  BY DEF process_tapping, IS_NOEVENT, Comes
<1>2. is_tap_key(r.key) <=> r.key \in TapKeys
  BY TapKeyFacts DEF KeyRecords, Records
<1>3. CASE r.pressed /\ r.key \in TapKeys
  BY <1>1, <1>2, <1>3, EventStarts DEF Idle
<1>4. CASE ~(r.pressed /\ r.key \in TapKeys)
  BY <1>1, <1>2, <1>4, EventProcessed DEF Idle
<1> QED BY <1>3, <1>4

\* The tapping key is decided as a hold, and the event goes into the buffer.  v is
\* s, or s with the tapping key interrupted.
LEMMA EventHolds ==
  ASSUME OneTapKey, NEW s \in States, IsUnsettled(s.tk), NEW r \in KeyRecords,
         NEW E, NEW D, NEW L, Comes(s, r, E, D, L),
         NEW v \in States, v.buf = s.buf, v.on = s.on, IsUnsettled(v.tk), v.tk.key = s.tk.key
  PROVE  EventGood(Enqueue(Reset(process_record(v, v.tk)), r), D, L)
<1>0. /\ s.buf \in Seq(KeyRecords) /\ TapInv(s.tk, s.buf, s.on, E, L) /\ Moves(r, E, D)
      /\ r.count = 0 /\ ~r.interrupted /\ s.tk.key \in TapKeys /\ s.tk.key \in E /\ Alone(s.buf)
  BY FieldTypes DEF Comes, TapInv, StateInv, IsUnsettled
<1>1. v.tk \in KeyRecords
  BY FieldTypes DEF KeyRecords, IsUnsettled
<1>2. PICK u \in States : /\ u = Reset(process_record(v, v.tk)) /\ u.tk = NoRecord /\ u.buf = v.buf
                          /\ u.on = Apply(v.on, Processed(v.tk))
  BY <1>1, HoldTypes
<1>3. u.on = s.on \cup {<<s.tk.key, "hold">>} /\ u.tk.key = NoKey
  BY <1>0, <1>1, <1>2, HoldFacts, RecordFacts DEF IsUnsettled
<1>4. TapInv(u.tk, s.buf, u.on, E, L)
  BY <1>0, <1>3, HoldBegins
<1>5. ~(r.key \in TapKeys /\ r.pressed)
  BY <1>0 DEF OneTapKey, Moves
<1>6. TapInv(u.tk, Append(s.buf, r), u.on, D, L)
  BY <1>0, <1>3, <1>4, <1>5, AppendedIdle
<1> QED BY <1>2, <1>6, EventLeaves

LEMMA EventUnsettled ==
  ASSUME OneTapKey, NEW s \in States, IsUnsettled(s.tk), NEW r \in KeyRecords,
         NEW E, NEW D, NEW L, Comes(s, r, E, D, L)
  PROVE  EventGood(process_tapping(s, r), D, L)
<1>0. /\ s.buf \in Seq(KeyRecords) /\ TapInv(s.tk, s.buf, s.on, E, L) /\ Moves(r, E, D)
      /\ s.tk \in Records /\ s.tk.key \in TapKeys /\ s.tk.key \in E
      /\ s.tk.key \in setup.hold_on_other_key_press => ~s.tk.interrupted
  BY FieldTypes DEF Comes, TapInv, StateInv, IsUnsettled
<1>1. CASE ~WithinTappingTerm(r, s.tk)
  <2>1. process_tapping(s, r) = Enqueue(Reset(process_record(s, s.tk)), r)
    BY <1>1 DEF process_tapping, IS_NOEVENT, IsUnsettled
  <2> QED BY <2>1, EventHolds
<1>2. CASE WithinTappingTerm(r, s.tk)
  <2>0. process_tapping(s, r) = Unsettled(s, r)
    BY <1>2 DEF process_tapping, IS_NOEVENT, IsUnsettled, Comes
  <2>1. r.key \in TapKeys => r.key = s.tk.key /\ ~r.pressed
    BY <1>0 DEF OneTapKey, Moves
  <2>2. CASE r.pressed
    <3>1. PICK v \in States : /\ v = [s EXCEPT !.tk.interrupted = TRUE] /\ v.buf = s.buf /\ v.on = s.on
                              /\ IsUnsettled(v.tk) /\ v.tk.key = s.tk.key /\ v.tk.time = s.tk.time
      BY SeenTypes DEF IsUnsettled
    <3>2. process_tapping(s, r) =
            IF s.tk.key \in setup.hold_on_other_key_press
            THEN Enqueue(Reset(process_record(v, v.tk)), r) ELSE Enqueue(v, r)
      BY <2>0, <2>2, <3>1, UnsettledForms DEF Interrupt
    <3>3. EventGood(Enqueue(Reset(process_record(v, v.tk)), r), D, L)
      BY <3>1, EventHolds
    <3>4. ASSUME s.tk.key \notin setup.hold_on_other_key_press PROVE EventGood(Enqueue(v, r), D, L)
      <4>1. TapInv(v.tk, s.buf, s.on, E, L)
        BY <1>0, <3>1, <3>4, Interrupted
      <4>2. WithinTappingTerm(r, v.tk)
        BY <1>2, <3>1 DEF WithinTappingTerm
      <4>3. TapInv(v.tk, Append(s.buf, r), s.on, D, L)
        BY <1>0, <2>1, <2>2, <3>1, <3>4, <4>1, <4>2, AppendedUnsettled
      <4> QED BY <3>1, <4>3, EventLeaves
    <3> QED BY <3>2, <3>3, <3>4
  <2>3. CASE ~r.pressed /\ r.key = s.tk.key
    <3> DEFINE v == [s EXCEPT !.tk.count = 1]
               tap == ProcessTappingKey(v)
               rec == WithTap(r, tap.tk)
    <3>1. process_tapping(s, r) = Enqueue(tap, rec)
      BY <2>0, <2>3, UnsettledForms
    <3>2. /\ v \in States /\ v.buf = s.buf /\ v.on = s.on /\ v.tk \in KeyRecords /\ v.tk.count = 1
          /\ v.tk.key = s.tk.key /\ v.tk.pressed /\ v.tk.interrupted = s.tk.interrupted
      <4> DEFINE t == [s.tk EXCEPT !.count = 1]
      <4>1. 1 \in 0 .. TapCountMax
        BY BufferAssumption
      <4>2. /\ t \in KeyRecords /\ t \in Records /\ t.count = 1
            /\ t.key = s.tk.key /\ t.pressed /\ t.interrupted = s.tk.interrupted
        BY <1>0, <4>1 DEF KeyRecords, Records, IsUnsettled
      <4>3. v = [s EXCEPT !.tk = t]
        OBVIOUS
      <4> HIDE DEF t, v
      <4>4. v \in States /\ v.tk = t /\ v.buf = s.buf /\ v.on = s.on
        BY <4>2, <4>3, FieldTypes
      <4> QED BY <4>2, <4>4
    <3> HIDE DEF v
    <3>3. /\ Processed(v.tk) = v.tk
          /\ Apply(v.on, Processed(v.tk)) = s.on \cup {<<s.tk.key, "tap">>}
      <4>1. /\ v.tk.count # 0 /\ v.tk.key \in TapKeys /\ v.tk.pressed
            /\ ~v.tk.interrupted \/ v.tk.key \notin setup.hold_on_other_key_press
        BY <1>0, <3>2
      <4>2. Apply(v.on, Processed(v.tk)) = v.on \cup {<<v.tk.key, "tap">>} /\ Processed(v.tk) = v.tk
        BY <3>2, <4>1, TapFacts
      <4> QED BY <3>2, <4>2
    <3>4. /\ tap \in States /\ tap.tk = v.tk /\ tap.buf = s.buf
          /\ tap.on = s.on \cup {<<s.tk.key, "tap">>}
      BY <3>2, <3>3, TappingKeyTypes
    <3> HIDE DEF tap
    <3>5. IsTapped(tap.tk) /\ tap.tk.key = s.tk.key /\ tap.tk \in Records
      BY <3>2, <3>4 DEF IsTapped, KeyRecords
    <3>6. rec \in KeyRecords /\ rec.key = s.tk.key /\ ~rec.pressed
      BY <2>3, <3>5, RecordFacts DEF KeyRecords
    <3>7. Moves(rec, E, D)
      BY <1>0, <2>3, <3>6 DEF Moves
    <3> HIDE DEF rec
    <3>8. TapInv(tap.tk, Append(s.buf, rec), s.on \cup {<<s.tk.key, "tap">>}, D, L)
      BY <1>0, <3>5, <3>6, <3>7, AppendedTap
    <3> QED BY <3>1, <3>4, <3>8, EventLeaves
  <2>4. CASE ~r.pressed /\ r.key # s.tk.key
    <3>0. r.key \notin TapKeys
      BY <2>1, <2>4
    <3>1. EventGood(Enqueue(s, r), D, L)
      <4>1. TapInv(s.tk, Append(s.buf, r), s.on, D, L)
        BY <1>0, <1>2, <2>4, <3>0, AppendedUnsettled
      <4> QED BY <4>1, EventLeaves
    <3>2. EventGood(Enqueue(Reset(process_record(s, s.tk)), r), D, L)
      BY EventHolds
    <3>3. ASSUME ~Typed(s.buf, r) PROVE EventGood(Consumed(process_record(s, r), r), D, L)
      <4>1. PICK u \in States : u = process_record(s, r) /\ u.tk = s.tk /\ u.buf = s.buf
                                /\ u.on = Apply(s.on, Processed(r))
        BY ProcessTypes
      <4>2. u.on = Switch(s.on, r)
        BY <3>0, <4>1, SwitchFacts
      <4>3. TapInv(s.tk, s.buf, Switch(s.on, r), D, L)
        BY <1>0, <2>4, <3>0, <3>3, EventPassed
      <4> QED BY <4>1, <4>2, <4>3, EventLeaves
    <3> QED BY <2>0, <2>4, <3>1, <3>2, <3>3, UnsettledForms
  <2> QED BY <2>2, <2>3, <2>4
<1> QED BY <1>1, <1>2

LEMMA EventTapped ==
  ASSUME OneTapKey, NEW s \in States, IsTapped(s.tk), NEW r \in KeyRecords,
         NEW E, NEW D, NEW L, Comes(s, r, E, D, L)
  PROVE  EventGood(process_tapping(s, r), D, L)
<1>0. /\ s.buf = <<>> /\ s.buf \in Seq(KeyRecords) /\ TapInv(s.tk, s.buf, s.on, E, L)
      /\ Moves(r, E, D) /\ s.tk.key \in TapKeys /\ s.tk.key \in E
  <2>1. s.buf = <<>>
    BY DEF Comes, IsUnsettled, IsTapped
  <2> QED BY <2>1, FieldTypes DEF Comes, TapInv, StateInv, IsTapped
<1>1. process_tapping(s, r) = Tapped(s, r, WithinTappingTerm(r, s.tk))
  BY DEF process_tapping, IS_NOEVENT, IsTapped, Comes
<1>2. CASE r.key \in TapKeys
  <2>1. r.key = s.tk.key /\ ~r.pressed
    BY <1>0, <1>2 DEF OneTapKey, Moves
  <2>2. WithinTappingTerm(r, s.tk) \in BOOLEAN
    BY DEF WithinTappingTerm
  <2>3. PICK u \in States, v \in KeyRecords :
            /\ process_tapping(s, r) = Consumed(u, v)
            /\ u.buf = s.buf /\ u.on = s.on \ {<<r.key, "tap">>}
            /\ u.tk.key = NoKey \/ u.tk.key = r.key
            /\ ~u.tk.pressed
    BY <1>0, <1>1, <2>1, <2>2, TapEnds
  <2>4. ~IsTapped(u.tk) /\ ~IsUnsettled(u.tk) /\ (u.tk.key = NoKey \/ u.tk.key \in TapKeys)
    BY <1>2, <2>3 DEF IsTapped, IsUnsettled
  <2>5. TapsApart(s.on, u.on)
    BY <1>0, <2>3 DEF TapsApart, TapInv, KeysInv
  <2>6. ASSUME NEW k \in TapKeys
        PROVE  <<k, "tap">> \notin u.on /\ (<<k, "hold">> \in u.on => <<k, "hold">> \in L)
    <3>1. k = r.key
      BY <1>2 DEF OneTapKey
    <3>2. <<k, "hold">> \in s.on => <<k, "hold">> \in L
      BY <1>0, TapKeyFacts DEF TapInv, EffectsInv
    <3> QED BY <2>3, <3>1, <3>2
  <2>7. TapInv(u.tk, <<>>, u.on, D, L)
    BY <1>0, <1>2, <2>4, <2>5, <2>6, TapMoved
  <2>8. EventGood(Consumed(u, v), D, L)
    BY <1>0, <2>3, <2>7, EventLeaves
  <2> QED BY <2>3, <2>8
<1>3. CASE r.key \notin TapKeys
  <2>1. PICK u \in States : u = process_record(s, r) /\ u.tk = s.tk /\ u.buf = s.buf
                            /\ u.on = Apply(s.on, Processed(r))
    BY ProcessTypes
  <2>2. u.on = Switch(s.on, r)
    BY <1>3, <2>1, SwitchFacts
  <2>3. TapInv(s.tk, s.buf, Switch(s.on, r), D, L)
    BY <1>0, <1>3, EventPassed
  <2>4. process_tapping(s, r) = Consumed(u, r)
    BY <1>0, <1>1, <1>3, <2>1, TappedPasses
  <2> QED BY <2>1, <2>2, <2>3, <2>4, EventLeaves
<1> QED BY <1>2, <1>3

\* No tap is on, and no hold but one that was left, when the tapping key has been
\* released.
LEMMA ReleasedEffects ==
  ASSUME NEW t, IsReleased(t), NEW b, NEW a, NEW E, NEW L, TapInv(t, b, a, E, L)
  PROVE  /\ b = <<>> /\ t.key \in TapKeys
         /\ \A k \in TapKeys : <<k, "tap">> \notin a
                               /\ (<<k, "hold">> \in a => <<k, "hold">> \in L)
BY DEF TapInv, StateInv, EffectsInv, IsReleased, IsTapped

\* A released tapping key may be forgotten or marked.
LEMMA ReleasedChanged ==
  ASSUME OneTapKey, NEW t, IsReleased(t), NEW u, u.key = NoKey \/ (u.key = t.key /\ ~u.pressed),
         NEW b, NEW a, NEW E, NEW L, TapInv(t, b, a, E, L)
  PROVE  TapInv(u, <<>>, a, E, L)
<1>1. ~IsTapped(u) /\ ~IsUnsettled(u) /\ (u.key = NoKey \/ u.key \in TapKeys)
  BY ReleasedEffects DEF IsTapped, IsUnsettled
<1>2. KeysInv(<<>>, a, E, L)
  BY ReleasedEffects DEF TapInv
<1> QED BY <1>1, <1>2, ReleasedEffects, Restarts

LEMMA EventReleased ==
  ASSUME OneTapKey, NEW s \in States, IsReleased(s.tk), NEW r \in KeyRecords,
         NEW E, NEW D, NEW L, Comes(s, r, E, D, L)
  PROVE  EventGood(process_tapping(s, r), D, L)
<1>0. /\ s.buf = <<>> /\ s.buf \in Seq(KeyRecords) /\ TapInv(s.tk, s.buf, s.on, E, L)
      /\ Moves(r, E, D) /\ s.tk.key \in TapKeys /\ s.tk \in Records
      /\ r.count = 0 /\ ~r.interrupted
  BY FieldTypes, ReleasedEffects DEF Comes
<1>1. CASE ~WithinTappingTerm(r, s.tk)
  <2>1. process_tapping(s, r) = Enqueue(Reset(s), r)
    BY <1>1 DEF process_tapping, IS_NOEVENT, IsReleased
  <2>2. TapInv(NoRecord, <<>>, s.on, E, L) /\ NoRecord.key = NoKey
    BY <1>0, ReleasedChanged, RecordFacts
  <2>3. TapInv(NoRecord, Append(<<>>, r), s.on, D, L)
    BY <1>0, <2>2, EmptyBuffer, ReleasedEffects, AppendedIdle, ZenonT(60)
  <2>4. Reset(s).tk = NoRecord /\ Reset(s).buf = <<>> /\ Reset(s).on = s.on
    BY <1>0, FieldTypes
  <2> QED BY <2>1, <2>3, <2>4, EventLeaves
<1>2. CASE WithinTappingTerm(r, s.tk)
  <2>0. process_tapping(s, r) = Released(s, r)
    BY <1>2 DEF process_tapping, IS_NOEVENT, IsReleased, Comes
  <2>1. r.key \in TapKeys => r.key = s.tk.key
    BY <1>0 DEF OneTapKey
  <2>2. is_tap_key(r.key) <=> r.key \in TapKeys
    BY TapKeyFacts DEF KeyRecords, Records
  <2>3. CASE r.pressed /\ r.key = s.tk.key
    <3> DEFINE n == IF s.tk.count < TapCountMax THEN s.tk.count + 1 ELSE s.tk.count
               raw == [WithTap(r, s.tk) EXCEPT !.count = n]
               rec == Processed(raw)
               quick == WithinQuickTapTerm(r, s.tk) /\ ~s.tk.interrupted /\ s.tk.count > 0
    <3>1. Released(s, r) = IF quick THEN Consumed([process_record(s, rec) EXCEPT !.tk = rec], rec)
                           ELSE Consumed([s EXCEPT !.tk = r], r)
      <4> DEFINE again == Consumed([process_record(s, rec) EXCEPT !.tk = rec], rec)
                 begin == Consumed([s EXCEPT !.tk = r], r)
                 seen == [s EXCEPT !.tk.interrupted = TRUE]
      <4>1. Released(s, r) =
              CASE r.pressed /\ r.key = s.tk.key -> IF quick THEN again ELSE begin
                [] r.pressed /\ r.key # s.tk.key /\ is_tap_key(r.key) -> Consumed(StartTapping(s, r), r)
                [] r.pressed /\ ~is_tap_key(r.key) -> Consumed(process_record(seen, r), r)
                [] OTHER -> Consumed(process_record(s, r), r)
        BY DEF Released
      <4>2. ~(r.pressed /\ ~is_tap_key(r.key))
        BY <1>0, <2>2, <2>3
      <4> HIDE DEF again, begin, seen, quick
      <4>3. Released(s, r) = IF quick THEN again ELSE begin
        BY <2>3, <4>1, <4>2
      <4> QED BY <4>3 DEF again, begin
    <3>2. EventGood(Consumed([s EXCEPT !.tk = r], r), D, L)
      BY <1>0, <2>3, EventStarts
    <3>3. ASSUME quick PROVE EventGood(Consumed([process_record(s, rec) EXCEPT !.tk = rec], rec), D, L)
      <4>1. n \in 0 .. TapCountMax /\ n # 0
        BY <1>0, <3>3, BufferAssumption DEF Records
      <4> HIDE DEF n
      <4>2. /\ raw \in KeyRecords /\ raw.key = r.key /\ raw.pressed /\ raw.count = n
            /\ ~raw.interrupted
        BY <1>0, <2>3, <3>3, <4>1 DEF WithTap, KeyRecords, Records
      <4> HIDE DEF raw
      <4>3. rec = raw /\ Apply(s.on, Processed(raw)) = s.on \cup {<<r.key, "tap">>}
        BY <1>0, <2>3, <4>1, <4>2, TapFacts
      <4>4. PICK o \in States : /\ o = process_record(s, raw) /\ o.buf = s.buf
                                /\ o.on = s.on \cup {<<r.key, "tap">>}
        BY <4>2, <4>3, ProcessTypes
      <4>5. raw \in Records
        BY <4>2 DEF KeyRecords
      <4>6. PICK u \in States : u = [o EXCEPT !.tk = raw] /\ u.tk = raw /\ u.buf = <<>>
                                /\ u.on = s.on \cup {<<r.key, "tap">>}
        <5>1. LET x == [o EXCEPT !.tk = raw]
              IN x \in States /\ x.tk = raw /\ x.buf = o.buf /\ x.on = o.on
          BY <4>5, FieldTypes
        <5> QED BY <1>0, <4>4, <5>1
      <4>7. IsTapped(raw)
        BY <4>1, <4>2 DEF IsTapped, KeyRecords
      <4>8. TapInv(raw, <<>>, s.on \cup {<<r.key, "tap">>}, D, L)
        BY <1>0, <2>3, <4>2, <4>7, TapRepeated
      <4> QED BY <4>3, <4>4, <4>6, <4>8, EventLeaves
    <3> QED BY <2>0, <3>1, <3>2, <3>3
  <2>4. CASE r.pressed /\ r.key # s.tk.key
    <3>1. PICK v \in States : /\ v = [s EXCEPT !.tk.interrupted = TRUE] /\ v.buf = s.buf /\ v.on = s.on
                              /\ IsReleased(v.tk) /\ v.tk.key = s.tk.key /\ ~v.tk.pressed
      BY SeenTypes DEF IsReleased
    <3>2. Released(s, r) = Consumed(process_record(v, r), r)
      <4>1. ~is_tap_key(r.key)
        BY <2>1, <2>2, <2>4
      <4>2. Released(s, r) = Consumed(process_record([s EXCEPT !.tk.interrupted = TRUE], r), r)
        BY <2>4, <4>1 DEF Released
      <4> QED BY <3>1, <4>2
    <3>3. TapInv(v.tk, v.buf, v.on, E, L)
      BY <1>0, <3>1, ReleasedChanged
    <3>4. Comes(v, r, E, D, L)
      BY <1>0, <3>1, <3>3 DEF Comes
    <3>5. EventGood(Consumed(process_record(v, r), r), D, L)
      BY <2>1, <2>4, <3>1, <3>4, EventProcessed
    <3> QED BY <2>0, <3>2, <3>5
  <2>5. CASE ~r.pressed
    <3>1. Released(s, r) = Consumed(process_record(s, r), r)
      BY <2>5 DEF Released
    <3> QED BY <2>0, <2>5, <3>1, EventProcessed
  <2> QED BY <2>3, <2>4, <2>5
<1> QED BY <1>1, <1>2

LEMMA EventStep ==
  ASSUME OneTapKey, NEW s \in States, NEW r \in KeyRecords,
         NEW E, NEW D, NEW L, Comes(s, r, E, D, L)
  PROVE  EventGood(process_tapping(s, r), D, L)
<1>1. s.tk.key = NoKey \/ IsUnsettled(s.tk) \/ IsTapped(s.tk) \/ IsReleased(s.tk)
  BY DEF IsUnsettled, IsTapped, IsReleased
<1> QED BY <1>1, EventIdle, EventUnsettled, EventTapped, EventReleased

-----------------------------------------------------------------------------
(* A tick event, and a buffer that overflows.                              *)

LEMMA TickStep ==
  ASSUME OneTapKey, NEW s \in States, NEW r \in Records, r.key = NoKey, NEW D, NEW L, NEW N,
         TapInv(s.tk, s.buf, s.on, D, L), Rests(s.tk, s.buf, D, N)
  PROVE  LET u == process_tapping(s, r).s IN LoopInv(u.tk, u.buf, u.on, D, L, {})
<1>1. CASE IsUnsettled(s.tk) /\ ~WithinTappingTerm(r, s.tk)
  <2>0. s.tk \in KeyRecords /\ s.tk.key \in TapKeys /\ s.buf \in Seq(KeyRecords)
    BY <1>1, FieldTypes DEF KeyRecords, TapInv, StateInv, IsUnsettled
  <2>1. PICK u \in States : /\ u = Reset(process_record(s, s.tk)) /\ u.tk = NoRecord /\ u.buf = s.buf
                            /\ u.on = Apply(s.on, Processed(s.tk))
    BY <2>0, HoldTypes
  <2>2. process_tapping(s, r) = Enqueue(u, r)
    BY <1>1, <2>1 DEF process_tapping, IS_NOEVENT, IsUnsettled
  <2>3. process_tapping(s, r).s = u
    BY <2>2 DEF Enqueue, Leaves
  <2>4. u.on = s.on \cup {<<s.tk.key, "hold">>} /\ u.tk.key = NoKey
    BY <1>1, <2>0, <2>1, HoldFacts, RecordFacts DEF IsUnsettled
  <2>5. TapInv(u.tk, s.buf, s.on \cup {<<s.tk.key, "hold">>}, D, L)
    BY <1>1, <2>0, <2>4, HoldBegins
  <2>6. LoopInv(u.tk, u.buf, u.on, D, L, {})
    BY <2>1, <2>4, <2>5 DEF LoopInv, IsUnsettled
  <2> QED BY <2>3, <2>6
<1>2. CASE IsReleased(s.tk) /\ ~WithinTappingTerm(r, s.tk)
  <2>1. process_tapping(s, r) = Enqueue(Reset(s), r)
    BY <1>2 DEF process_tapping, IS_NOEVENT, IsReleased
  <2>2. process_tapping(s, r).s = Reset(s)
    BY <2>1 DEF Enqueue, Leaves
  <2>3. TapInv(NoRecord, <<>>, s.on, D, L) /\ s.buf = <<>>
    BY <1>2, ReleasedChanged, ReleasedEffects, RecordFacts
  <2>4. Reset(s).tk = NoRecord /\ Reset(s).buf = <<>> /\ Reset(s).on = s.on
    BY <2>3, FieldTypes
  <2> QED BY <2>2, <2>3, <2>4 DEF LoopInv
<1>3. CASE ~((IsUnsettled(s.tk) \/ IsReleased(s.tk)) /\ ~WithinTappingTerm(r, s.tk))
  <2>1. process_tapping(s, r) = Consumed(s, r)
    BY <1>3 DEF process_tapping, Idle, IS_NOEVENT, IsReleased, IsUnsettled
  <2>2. process_tapping(s, r).s = s
    BY <2>1 DEF Consumed, Leaves
  <2>3. LoopInv(s.tk, s.buf, s.on, D, L, {})
    BY DEF LoopInv, Rests, IsUnsettled
  <2> QED BY <2>2, <2>3
<1> QED BY <1>1, <1>2, <1>3

LEMMA DrainEmpty ==
  ASSUME NEW s, s.buf = <<>>
  PROVE  Drain(s) = s
<1>1. PICK f : /\ f[0] = DrainStart(s) /\ Drain(s) = f[WAITING_BUFFER_SIZE].s
               /\ \A n \in 1 .. WAITING_BUFFER_SIZE : f[n] = DrainTurn(f[n - 1])
  BY DrainTurns
<1>2. PICK w \in Nat : w = WAITING_BUFFER_SIZE
  BY BufferAssumption
<1>3. DrainTurn(DrainStart(s)) = DrainStart(s)
  BY DEF DrainTurn, DrainStart
<1> DEFINE S == {n \in 0 .. w : f[n] # DrainStart(s)}
<1>4. S = {}
  <2>1. SUFFICES ASSUME S # {} PROVE FALSE
    OBVIOUS
  <2>2. PICK m \in S : \A j \in S : m <= j
    <3>1. S \subseteq Nat
      OBVIOUS
    <3> HIDE DEF S
    <3> QED BY <2>1, <3>1, SmallestElement
  <2>3. m \in 1 .. w /\ m - 1 \notin S /\ m - 1 \in 0 .. w
    BY <1>1, <2>2
  <2>4. f[m] = DrainTurn(f[m - 1]) /\ f[m - 1] = DrainStart(s)
    BY <1>1, <1>2, <2>3
  <2> QED BY <1>3, <2>4
<1>5. f[w] = DrainStart(s)
  BY <1>4
<1> QED BY <1>1, <1>2, <1>5 DEF DrainStart

\* After an overflow only layers are on.
LEMMA OverflowClears ==
  ASSUME TypeOK, NEW t, t.key = NoKey, NEW a \in SUBSET Effects, NEW D, NEW b, NEW E, NEW L,
         KeysInv(b, a, E, L)
  PROVE  TapInv(t, <<>>, Cleared(a), D, Cleared(Effects))
<1> DEFINE z == Cleared(a)
<1>1. z \subseteq a /\ z \subseteq Cleared(Effects)
  BY DEF Cleared
<1>2. \A k \in TapKeys : <<k, "tap">> \notin z
  <2>1. ASSUME NEW k \in TapKeys, <<k, "tap">> \in z PROVE FALSE
    <3>1. setup.kind[k] = "mo"
      BY <2>1 DEF Cleared
    <3> QED BY <3>1 DEF TapKeys
  <2> QED BY <2>1
<1> HIDE DEF z
<1>3. KeysInv(<<>>, z, D, Cleared(Effects))
  BY <1>1 DEF KeysInv
<1>4. StateInv(t, <<>>, D)
  BY DEF StateInv, IsUnsettled, IsTapped, IsReleased
<1>5. EffectsInv(t, <<>>, z, D, Cleared(Effects))
  BY <1>1, <1>2 DEF EffectsInv
<1> QED BY <1>3, <1>4, <1>5, EmptyBuffer DEF TapInv, z

LEMMA LeftChanges ==
  ASSUME NEW t, NEW b, NEW a, NEW D, NEW L, NEW K, TapInv(t, b, a, D, L),
         \A e \in a : e \in L => e \in K
  PROVE  TapInv(t, b, a, D, K)
<1>1. KeysInv(b, a, D, K)
  <2>1. \A i : Opens(b, i, a, L) => Opens(b, i, a, K)
    BY DEF Opens
  <2> QED BY <2>1 DEF TapInv, KeysInv
<1>2. EffectsInv(t, b, a, D, K)
  BY DEF TapInv, EffectsInv
<1> QED BY <1>1, <1>2 DEF TapInv

-----------------------------------------------------------------------------
(* What a call of process_tapping hands to process_record: at most one     *)
(* record, which finds what is on the way it expects it.                   *)

\* A press finds no effect of its key on, and a release leaves none, but for L.
Fits(a, x, L) == EffectsOf(x.key, IF x.pressed THEN a ELSE Apply(a, x)) \subseteq L

\* s becomes u when r is looked at.  Only the release of a key can be the cause of a
\* release.
Emits(s, u, r, L) ==
  /\ u.buf = s.buf
  /\ \/ u.out = s.out /\ u.on = s.on
     \/ \E x \in Records : /\ u.out = Append(s.out, x) /\ u.on = Apply(s.on, x) /\ Fits(s.on, x, L)
                           /\ x.pressed \/ (r.key # NoKey /\ ~r.pressed)

\* What the effects that are on must be like for r, where r may be processed.
Ready(s, r, L) ==
  r.key # NoKey =>
    /\ r.pressed /\ r.key \notin TapKeys /\ ~IsUnsettled(s.tk) /\ <<r.key, "key">> \in s.on
         => <<r.key, "key">> \in L
    /\ r.pressed /\ r.key \in TapKeys =>
         /\ ~IsTapped(s.tk)
         /\ \A i \in 1 .. Len(s.buf) : s.buf[i].key = r.key => s.buf[i].pressed
    /\ ~r.pressed /\ r.key \in TapKeys /\ r.count # 0 /\ s.tk.key = NoKey /\ <<r.key, "hold">> \in s.on
         => <<r.key, "hold">> \in L

\* The effects of a key have its name.
LEMMA EffectsOfKey ==
  ASSUME NEW a \in SUBSET Effects, NEW k \in Keys, NEW L,
         <<k, "key">> \in a => <<k, "key">> \in L,
         <<k, "tap">> \in a => <<k, "tap">> \in L,
         <<k, "hold">> \in a => <<k, "hold">> \in L
  PROVE  EffectsOf(k, a) \subseteq L
<1> SUFFICES ASSUME NEW e \in a, e[1] = k PROVE e \in L
  BY DEF EffectsOf
<1>1. e = <<k, "key">> \/ e = <<k, "tap">> \/ e = <<k, "hold">>
  BY DEF Effects
<1> QED BY <1>1

\* Nothing of a tap-hold key is on while it is not settled or has been released.
LEMMA TapQuiet ==
  ASSUME NEW t, t.key # NoKey, ~IsTapped(t), NEW b, NEW a \in SUBSET Effects, NEW D, NEW L,
         TapInv(t, b, a, D, L), NEW k \in TapKeys
  PROVE  EffectsOf(k, a) \subseteq L
<1>1. k \in Keys /\ <<k, "key">> \notin a
  BY TapKeyFacts DEF TapInv, KeysInv
<1>2. <<k, "tap">> \notin a /\ (<<k, "hold">> \in a => <<k, "hold">> \in L)
  BY DEF TapInv, EffectsInv
<1> QED BY <1>1, <1>2, EffectsOfKey

\* A record of another key, which is not on where it is pressed.
LEMMA PlainFits ==
  ASSUME NEW s \in States, NEW D, NEW L, TapInv(s.tk, s.buf, s.on, D, L), NEW r \in KeyRecords,
         r.key \notin TapKeys, r.pressed /\ <<r.key, "key">> \in s.on => <<r.key, "key">> \in L
  PROVE  Fits(s.on, Processed(r), L)
<1>1. r \in Records /\ r.key \in Keys /\ s.on \in SUBSET Effects
  BY FieldTypes DEF KeyRecords, Records
<1>2. Processed(r).key = r.key /\ Processed(r).pressed = r.pressed
  BY <1>1, ProcessedFacts
<1>3. <<r.key, "tap">> \notin s.on /\ <<r.key, "hold">> \notin s.on
  BY <1>1 DEF TapInv, KeysInv
<1>4. CASE r.pressed
  BY <1>1, <1>2, <1>3, <1>4, EffectsOfKey DEF Fits
<1>5. CASE ~r.pressed
  <2>1. PICK z \in SUBSET Effects : z = Apply(s.on, Processed(r)) /\ z = s.on \ {<<r.key, "key">>}
    BY <1>1, <1>5, SwitchFacts DEF Switch
  <2>2. EffectsOf(r.key, z) \subseteq L
    BY <1>1, <1>3, <2>1, EffectsOfKey
  <2> QED BY <1>2, <1>5, <2>1, <2>2 DEF Fits
<1> QED BY <1>4, <1>5

\* The release of the tap-hold key when it is not, or no longer, the tapping key.
LEMMA ReleaseFits ==
  ASSUME NEW s \in States, NEW D, NEW L, TapInv(s.tk, s.buf, s.on, D, L), NEW r \in KeyRecords,
         r.key \in TapKeys, ~r.pressed, ~IsTapped(s.tk), Ready(s, r, L)
  PROVE  Fits(s.on, Processed(r), L)
<1>1. r \in Records /\ r.key \in Keys /\ r.key # NoKey /\ s.on \in SUBSET Effects
  BY FieldTypes DEF KeyRecords, Records
<1>2. Processed(r) = r
  BY <1>1, ProcessedFacts
<1>3. <<r.key, "key">> \notin s.on /\ <<r.key, "tap">> \notin s.on
  BY <1>1 DEF TapInv, KeysInv, EffectsInv
<1>4. PICK z \in SUBSET Effects : z = Apply(s.on, r) /\ z \subseteq s.on
                                  /\ (r.count = 0 => <<r.key, "hold">> \notin z)
  <2>1. CASE r.count = 0
    BY <1>1, <1>2, <2>1, HoldFacts
  <2>2. CASE r.count # 0
    BY <1>1, <1>2, <2>2, TapFacts
  <2> QED BY <2>1, <2>2
<1>5. <<r.key, "hold">> \in z => <<r.key, "hold">> \in L
  BY <1>1, <1>4 DEF TapInv, EffectsInv, Ready
<1>6. EffectsOf(r.key, z) \subseteq L
  BY <1>1, <1>3, <1>4, <1>5, EffectsOfKey
<1> QED BY <1>2, <1>4, <1>6 DEF Fits

\* The same state as far as out, buf and on go.
SameOutput(v, s) == v.buf = s.buf /\ v.out = s.out /\ v.on = s.on

LEMMA EmitsNothing ==
  ASSUME NEW s, NEW u, SameOutput(u, s), NEW r, NEW L
  PROVE  Emits(s, u, r, L)
BY DEF Emits, SameOutput

\* r itself is processed.
LEMMA EmitsRecord ==
  ASSUME NEW s \in States, NEW v \in States, SameOutput(v, s), NEW r \in KeyRecords, NEW L,
         Fits(s.on, Processed(r), L)
  PROVE  Emits(s, process_record(v, r), r, L)
<1>1. r \in Records /\ r.key # NoKey
  BY DEF KeyRecords
<1>2. PICK x \in Records : x = Processed(r) /\ x.pressed = r.pressed
  BY <1>1, ProcessedFacts
<1>3. PICK u \in States : u = process_record(v, r) /\ u.buf = s.buf
                          /\ u.out = Append(s.out, x) /\ u.on = Apply(s.on, x)
  BY <1>2, ProcessTypes DEF SameOutput
<1>4. r.pressed \in BOOLEAN
  BY <1>1 DEF Records
<1> QED BY <1>1, <1>2, <1>3, <1>4 DEF Emits

\* A press of the tap-hold key, however it was settled, that finds nothing on.
LEMMA EmitsPress ==
  ASSUME NEW s \in States, s.tk.key # NoKey, ~IsTapped(s.tk), NEW D, NEW L,
         TapInv(s.tk, s.buf, s.on, D, L), NEW x \in KeyRecords, x.pressed, x.key \in TapKeys,
         NEW u, u.buf = s.buf, u.out = Append(s.out, Processed(x)), u.on = Apply(s.on, Processed(x)),
         NEW r
  PROVE  Emits(s, u, r, L)
<1>1. x \in Records /\ s.on \in SUBSET Effects
  BY FieldTypes DEF KeyRecords
<1>2. PICK y \in Records : y = Processed(x) /\ y.pressed /\ y.key = x.key
  BY <1>1, ProcessedFacts
<1>3. EffectsOf(x.key, s.on) \subseteq L
  BY <1>1, TapQuiet
<1>4. Fits(s.on, y, L)
  BY <1>2, <1>3 DEF Fits
<1> QED BY <1>2, <1>4 DEF Emits

\* The tapping key of v is processed as a hold.
LEMMA EmitsHold ==
  ASSUME NEW s \in States, IsUnsettled(s.tk), NEW D, NEW L, TapInv(s.tk, s.buf, s.on, D, L),
         NEW v \in States, SameOutput(v, s), IsUnsettled(v.tk), v.tk.key = s.tk.key, NEW r
  PROVE  Emits(s, Reset(process_record(v, v.tk)), r, L)
<1>1. v.tk \in KeyRecords /\ v.tk.pressed /\ v.tk.key \in TapKeys /\ s.tk.key # NoKey /\ ~IsTapped(s.tk)
  BY FieldTypes DEF KeyRecords, IsUnsettled, IsTapped, TapInv, StateInv
<1>2. PICK u \in States : /\ u = Reset(process_record(v, v.tk)) /\ u.buf = s.buf
                          /\ u.out = Append(s.out, Processed(v.tk)) /\ u.on = Apply(s.on, Processed(v.tk))
  BY <1>1, HoldTypes DEF SameOutput
<1> QED BY <1>1, <1>2, EmitsPress

LEMMA LeavesParts ==
  ASSUME NEW u, NEW r
  PROVE  Consumed(u, r).s = u /\ Enqueue(u, r).s = u
BY DEF Consumed, Enqueue, Leaves

\* No tapping key.
LEMMA EmitsIdle ==
  ASSUME OneTapKey, NEW s \in States, s.tk.key = NoKey, NEW r \in KeyRecords, NEW D, NEW L,
         TapInv(s.tk, s.buf, s.on, D, L), Ready(s, r, L)
  PROVE  Emits(s, Idle(s, r).s, r, L)
<1>0. r \in Records /\ r.key \in Keys /\ r.key # NoKey /\ ~IS_NOEVENT(r)
  BY DEF KeyRecords, Records, IS_NOEVENT
<1>1. is_tap_key(r.key) <=> r.key \in TapKeys
  BY <1>0, TapKeyFacts
<1>2. CASE r.pressed /\ r.key \in TapKeys
  <2>1. PICK u \in States : u = [s EXCEPT !.tk = r] /\ u.tk = r /\ SameOutput(u, s)
    BY <1>0, FieldTypes DEF SameOutput
  <2>2. {i \in 1 .. Len(u.buf) : /\ u.buf[i].key = u.tk.key /\ ~u.buf[i].pressed
                                 /\ WithinTappingTerm(u.buf[i], u.tk)} = {}
    BY <1>0, <1>2, <2>1 DEF Ready, SameOutput
  <2>3. StartTapping(s, r) = u
    BY <2>1, <2>2 DEF StartTapping, waiting_buffer_scan_tap
  <2>4. Idle(s, r).s = u
    BY <1>0, <1>1, <1>2, <2>3, LeavesParts DEF Idle
  <2> QED BY <2>1, <2>4, EmitsNothing
<1>3. CASE ~(r.pressed /\ r.key \in TapKeys)
  <2>1. Idle(s, r).s = process_record(s, r)
    BY <1>0, <1>1, <1>3, LeavesParts DEF Idle
  <2>2. ~IsTapped(s.tk) /\ ~IsUnsettled(s.tk)
    BY DEF IsTapped, IsUnsettled
  <2>3. Fits(s.on, Processed(r), L)
    <3>1. CASE r.key \in TapKeys
      BY <1>3, <2>2, <3>1, ReleaseFits
    <3>2. CASE r.key \notin TapKeys
      BY <1>0, <2>2, <3>2, PlainFits DEF Ready
    <3> QED BY <3>1, <3>2
  <2> QED BY <2>1, <2>3, EmitsRecord DEF SameOutput
<1> QED BY <1>2, <1>3

\* The tapping key is not settled.
LEMMA EmitsUnsettled ==
  ASSUME OneTapKey, NEW s \in States, IsUnsettled(s.tk), NEW r \in KeyRecords, NEW D, NEW L,
         TapInv(s.tk, s.buf, s.on, D, L)
  PROVE  Emits(s, Unsettled(s, r).s, r, L)
<1>0. s.tk \in Records /\ s.tk.key \in TapKeys /\ s.tk.key # NoKey /\ ~IsTapped(s.tk)
  BY FieldTypes DEF TapInv, StateInv, IsUnsettled, IsTapped
<1>1. Emits(s, Reset(process_record(s, s.tk)), r, L) /\ Emits(s, s, r, L)
  BY EmitsHold, EmitsNothing DEF SameOutput
<1>2. CASE r.pressed
  <2>1. PICK v \in States : /\ v = [s EXCEPT !.tk.interrupted = TRUE] /\ SameOutput(v, s)
                            /\ IsUnsettled(v.tk) /\ v.tk.key = s.tk.key
    BY SeenTypes DEF IsUnsettled, SameOutput
  <2>2. Unsettled(s, r).s = IF s.tk.key \in setup.hold_on_other_key_press
                            THEN Reset(process_record(v, v.tk)) ELSE v
    <3>1. Unsettled(s, r) = Interrupt(s, r)
      BY <1>2, UnsettledForms
    <3>2. Interrupt(s, r) = IF s.tk.key \in setup.hold_on_other_key_press
                            THEN Enqueue(Reset(process_record(v, v.tk)), r) ELSE Enqueue(v, r)
      BY <2>1 DEF Interrupt
    <3> QED BY <3>1, <3>2, LeavesParts
  <2> QED BY <2>1, <2>2, EmitsHold, EmitsNothing
<1>3. CASE ~r.pressed /\ r.key = s.tk.key
  <2> DEFINE x == [s.tk EXCEPT !.count = 1]
             v == [s EXCEPT !.tk.count = 1]
             tap == ProcessTappingKey(v)
  <2>1. Unsettled(s, r).s = tap
    BY <1>3, UnsettledForms, LeavesParts
  <2>2. x \in Records /\ x \in KeyRecords /\ x.key = s.tk.key /\ x.pressed
    <3>1. 1 \in 0 .. TapCountMax
      BY BufferAssumption
    <3> QED BY <1>0, <3>1 DEF KeyRecords, Records, IsUnsettled
  <2>3. v = [s EXCEPT !.tk = x]
    OBVIOUS
  <2> HIDE DEF x, v
  <2>4. v \in States /\ v.tk = x /\ SameOutput(v, s)
    BY <2>2, <2>3, FieldTypes DEF SameOutput
  <2>5. tap.buf = s.buf /\ tap.out = Append(s.out, Processed(x)) /\ tap.on = Apply(s.on, Processed(x))
    BY <2>2, <2>4, TappingKeyTypes DEF SameOutput
  <2> HIDE DEF tap
  <2> QED BY <1>0, <2>1, <2>2, <2>5, EmitsPress
<1>4. CASE ~r.pressed /\ r.key # s.tk.key
  <2>1. r.key \notin TapKeys
    BY <1>0, <1>4 DEF OneTapKey
  <2>2. Emits(s, process_record(s, r), r, L)
    <3>1. Fits(s.on, Processed(r), L)
      BY <1>4, <2>1, PlainFits
    <3> QED BY <3>1, EmitsRecord DEF SameOutput
  <2>3. \/ Unsettled(s, r) = Enqueue(Reset(process_record(s, s.tk)), r)
        \/ Unsettled(s, r) = Enqueue(s, r)
        \/ Unsettled(s, r) = Consumed(process_record(s, r), r)
    BY <1>4, UnsettledForms
  <2> QED BY <1>1, <2>2, <2>3, LeavesParts
<1> QED BY <1>2, <1>3, <1>4

\* The tapping key is settled as a tap.
LEMMA EmitsTapped ==
  ASSUME OneTapKey, NEW s \in States, IsTapped(s.tk), NEW r \in KeyRecords, NEW D, NEW L,
         TapInv(s.tk, s.buf, s.on, D, L), Ready(s, r, L), NEW w \in BOOLEAN
  PROVE  Emits(s, Tapped(s, r, w).s, r, L)
<1>0. /\ s.tk \in Records /\ s.tk.key \in TapKeys /\ s.tk.key # NoKey /\ s.tk.key \in Keys
      /\ s.on \in SUBSET Effects /\ r \in Records /\ r.key # NoKey /\ ~IsUnsettled(s.tk)
  BY FieldTypes, TapKeyFacts DEF TapInv, StateInv, IsUnsettled, IsTapped, KeyRecords
<1>1. CASE r.key = s.tk.key
  <2> DEFINE v == WithTap(r, s.tk)
             o == process_record(s, v)
             u == IF w THEN [o EXCEPT !.tk = v] ELSE Reset(o)
  <2>0. ~r.pressed
    BY <1>0, <1>1 DEF Ready
  <2>1. v \in KeyRecords /\ v \in Records /\ v.key = r.key /\ ~v.pressed /\ v.count = s.tk.count
    BY <1>0, <2>0, RecordFacts DEF KeyRecords
  <2>2. Tapped(s, r, w).s = u
    BY <1>1, <2>0, LeavesParts DEF Tapped
  <2> HIDE DEF v
  <2>3. Processed(v) = v /\ Apply(s.on, v) = s.on \ {<<r.key, "tap">>}
    BY <1>0, <1>1, <2>1, TapFacts DEF IsTapped
  <2>4. o \in States /\ o.buf = s.buf /\ o.on = Apply(s.on, v) /\ o.out = Append(s.out, v)
    BY <2>1, <2>3, ProcessTypes
  <2> HIDE DEF o
  <2>5. u.buf = s.buf /\ u.on = Apply(s.on, v) /\ u.out = Append(s.out, v)
    BY <2>1, <2>4, FieldTypes
  <2> HIDE DEF u
  <2>6. PICK z \in SUBSET Effects : z = s.on \ {<<r.key, "tap">>}
    BY <1>0
  <2>7. <<r.key, "key">> \notin s.on /\ (<<r.key, "hold">> \in s.on => <<r.key, "hold">> \in L)
    BY <1>0, <1>1 DEF TapInv, KeysInv, EffectsInv
  <2>8. EffectsOf(r.key, z) \subseteq L
    BY <1>0, <1>1, <2>6, <2>7, EffectsOfKey
  <2>9. Fits(s.on, v, L)
    BY <2>1, <2>3, <2>6, <2>8 DEF Fits
  <2> QED BY <1>0, <2>0, <2>1, <2>2, <2>5, <2>9 DEF Emits
<1>2. CASE r.key # s.tk.key
  <2>1. r.key \notin TapKeys
    BY <1>0, <1>2 DEF OneTapKey
  <2>2. Tapped(s, r, w).s = process_record(s, r)
    BY <1>2, <2>1, TappedPasses, LeavesParts
  <2>3. Fits(s.on, Processed(r), L)
    BY <1>0, <2>1, PlainFits DEF Ready
  <2> QED BY <2>2, <2>3, EmitsRecord DEF SameOutput
<1> QED BY <1>1, <1>2

\* The tapping key has been released.
LEMMA EmitsReleased ==
  ASSUME OneTapKey, NEW s \in States, IsReleased(s.tk), NEW r \in KeyRecords, NEW D, NEW L,
         TapInv(s.tk, s.buf, s.on, D, L), Ready(s, r, L)
  PROVE  Emits(s, Released(s, r).s, r, L)
<1> DEFINE n == IF s.tk.count < TapCountMax THEN s.tk.count + 1 ELSE s.tk.count
           rec == Processed([WithTap(r, s.tk) EXCEPT !.count = n])
           again == [process_record(s, rec) EXCEPT !.tk = rec]
           begin == [s EXCEPT !.tk = r]
           seen == [s EXCEPT !.tk.interrupted = TRUE]
           quick == WithinQuickTapTerm(r, s.tk) /\ ~s.tk.interrupted /\ s.tk.count > 0
<1>0. /\ s.tk \in Records /\ s.tk.key \in TapKeys /\ s.tk.key # NoKey /\ ~IsTapped(s.tk)
      /\ ~IsUnsettled(s.tk) /\ r \in Records /\ r.key # NoKey
  BY FieldTypes DEF TapInv, StateInv, IsReleased, IsUnsettled, IsTapped, KeyRecords
<1>1. is_tap_key(r.key) <=> r.key = s.tk.key
  BY <1>0, TapKeyFacts DEF Records, OneTapKey
<1>2. Released(s, r) =
        CASE r.pressed /\ r.key = s.tk.key -> IF quick THEN Consumed(again, rec) ELSE Consumed(begin, r)
          [] r.pressed /\ r.key # s.tk.key /\ is_tap_key(r.key) -> Consumed(StartTapping(s, r), r)
          [] r.pressed /\ ~is_tap_key(r.key) -> Consumed(process_record(seen, r), r)
          [] OTHER -> Consumed(process_record(s, r), r)
  BY DEF Released
<1>3. CASE r.pressed /\ r.key = s.tk.key
  <2>1. Released(s, r).s = IF quick THEN again ELSE begin
    <3> HIDE DEF again, begin, seen, quick, rec
    <3> QED BY <1>1, <1>2, <1>3, LeavesParts
  <2>2. Emits(s, begin, r, L)
    BY <1>0, FieldTypes, EmitsNothing DEF SameOutput
  <2>3. Emits(s, again, r, L)
    <3> DEFINE raw == [WithTap(r, s.tk) EXCEPT !.count = n]
    <3>1. n \in 0 .. TapCountMax
      BY <1>0, BufferAssumption DEF Records
    <3> HIDE DEF n
    <3>2. raw \in Records /\ raw.key = r.key /\ raw.pressed
      BY <1>0, <1>3, <3>1 DEF WithTap, Records
    <3>3. rec \in KeyRecords /\ rec \in Records /\ rec.key = r.key /\ rec.pressed
      <4> HIDE DEF raw
      <4> QED BY <1>0, <3>2, ProcessedFacts DEF KeyRecords, raw
    <3> HIDE DEF rec
    <3>4. PICK o \in States : /\ o = process_record(s, rec) /\ o.buf = s.buf
                              /\ o.out = Append(s.out, Processed(rec)) /\ o.on = Apply(s.on, Processed(rec))
      BY <3>3, ProcessTypes
    <3>5. again.buf = o.buf /\ again.out = o.out /\ again.on = o.on
      BY <3>3, <3>4, FieldTypes
    <3> HIDE DEF again
    <3> QED BY <1>0, <1>3, <3>3, <3>4, <3>5, EmitsPress
  <2> HIDE DEF again, begin, quick
  <2> QED BY <2>1, <2>2, <2>3
<1>4. CASE r.pressed /\ r.key # s.tk.key
  <2>1. Released(s, r).s = process_record(seen, r)
    <3> HIDE DEF again, begin, seen, quick, rec
    <3> QED BY <1>1, <1>2, <1>4, LeavesParts
  <2>2. seen \in States /\ SameOutput(seen, s)
    BY SeenTypes DEF SameOutput
  <2>3. Fits(s.on, Processed(r), L)
    <3>1. r.key \notin TapKeys
      BY <1>0, <1>4 DEF OneTapKey
    <3> QED BY <1>0, <3>1, PlainFits DEF Ready
  <2> HIDE DEF seen
  <2> QED BY <2>1, <2>2, <2>3, EmitsRecord
<1>5. CASE ~r.pressed
  <2>1. Released(s, r).s = process_record(s, r)
    <3> HIDE DEF again, begin, seen, quick, rec
    <3> QED BY <1>2, <1>5, LeavesParts
  <2>2. Fits(s.on, Processed(r), L)
    BY <1>0, <1>5, PlainFits, ReleaseFits
  <2> QED BY <2>1, <2>2, EmitsRecord DEF SameOutput
<1> QED BY <1>3, <1>4, <1>5

LEMMA TappingEmits ==
  ASSUME OneTapKey, NEW s \in States, NEW r \in Records, NEW D, NEW L,
         TapInv(s.tk, s.buf, s.on, D, L), Ready(s, r, L)
  PROVE  Emits(s, process_tapping(s, r).s, r, L)
<1> DEFINE within == WithinTappingTerm(r, s.tk)
<1>0. s.tk \in Records /\ within \in BOOLEAN
  BY FieldTypes DEF WithinTappingTerm
<1>1. Emits(s, s, r, L) /\ Emits(s, Reset(s), r, L)
  BY FieldTypes, EmitsNothing DEF SameOutput
<1>2. CASE s.tk.key = NoKey
  <2>1. process_tapping(s, r) = Idle(s, r)
    BY <1>2 DEF process_tapping, IS_NOEVENT
  <2>2. CASE r.key = NoKey
    BY <1>1, <2>1, <2>2, LeavesParts DEF Idle, IS_NOEVENT
  <2>3. CASE r.key # NoKey
    BY <1>2, <2>1, <2>3, EmitsIdle DEF KeyRecords
  <2> QED BY <2>2, <2>3
<1>3. CASE IsUnsettled(s.tk) /\ ~within
  <2>1. process_tapping(s, r).s = Reset(process_record(s, s.tk))
    BY <1>3, LeavesParts DEF process_tapping, IS_NOEVENT, IsUnsettled
  <2> QED BY <1>3, <2>1, EmitsHold DEF SameOutput
<1>4. CASE IsReleased(s.tk) /\ ~within
  <2>1. process_tapping(s, r).s = Reset(s)
    BY <1>4, LeavesParts DEF process_tapping, IS_NOEVENT, IsReleased
  <2> QED BY <1>1, <2>1
<1>5. CASE s.tk.key # NoKey /\ (within \/ IsTapped(s.tk))
  <2>1. CASE r.key = NoKey
    <3>1. process_tapping(s, r).s = s
      BY <1>5, <2>1, LeavesParts DEF process_tapping, IS_NOEVENT, IsTapped
    <3> QED BY <1>1, <3>1
  <2>2. CASE r.key # NoKey
    <3>0. r \in KeyRecords
      BY <2>2 DEF KeyRecords
    <3>1. CASE IsUnsettled(s.tk)
      <4>1. process_tapping(s, r) = Unsettled(s, r)
        BY <1>5, <2>2, <3>1 DEF process_tapping, IS_NOEVENT, IsTapped, IsUnsettled
      <4> QED BY <3>0, <3>1, <4>1, EmitsUnsettled
    <3>2. CASE IsTapped(s.tk)
      <4>1. process_tapping(s, r) = Tapped(s, r, within)
        BY <1>5, <2>2, <3>2 DEF process_tapping, IS_NOEVENT, IsTapped
      <4> HIDE DEF within
      <4> QED BY <1>0, <3>0, <3>2, <4>1, EmitsTapped
    <3>3. CASE IsReleased(s.tk)
      <4>1. process_tapping(s, r) = Released(s, r)
        BY <1>5, <2>2, <3>3 DEF process_tapping, IS_NOEVENT, IsTapped, IsReleased
      <4> QED BY <3>0, <3>3, <4>1, EmitsReleased
    <3> QED BY <1>5, <3>1, <3>2, <3>3 DEF IsUnsettled, IsTapped, IsReleased
  <2> QED BY <2>1, <2>2
<1> QED BY <1>2, <1>3, <1>4, <1>5 DEF IsUnsettled, IsTapped, IsReleased

\* The first record in the buffer finds things the way it expects them.
LEMMA HeadReady ==
  ASSUME OneTapKey, NEW s \in States, s.buf # <<>>, NEW D, NEW L, TapInv(s.tk, s.buf, s.on, D, L)
  PROVE  Ready(s, s.buf[1], L)
<1> DEFINE h == s.buf[1]
<1>0. s.buf \in Seq(KeyRecords) /\ h \in KeyRecords /\ 1 \in 1 .. Len(s.buf)
  <2>1. s.buf \in Seq(KeyRecords)
    BY FieldTypes
  <2> QED BY <2>1, TailFacts
<1>1. ASSUME h.pressed, h.key \notin TapKeys, <<h.key, "key">> \in s.on PROVE <<h.key, "key">> \in L
  <2>1. Opens(s.buf, 1, s.on, L)
    BY <1>0, <1>1 DEF TapInv, KeysInv
  <2>2. \A j \in 1 .. 1 - 1 : s.buf[j].key # s.buf[1].key
    OBVIOUS
  <2> QED BY <1>1, <2>1, <2>2 DEF Opens
<1>2. ASSUME h.key \in TapKeys PROVE Len(s.buf) = 1
  BY <1>0, <1>2, TapRecordAlone
<1>3. ASSUME h.pressed, h.key \in TapKeys
      PROVE  ~IsTapped(s.tk) /\ \A i \in 1 .. Len(s.buf) : s.buf[i].key = h.key => s.buf[i].pressed
  <2>1. ~IsTapped(s.tk)
    BY <1>2, <1>3 DEF TapInv, StateInv
  <2>2. \A i \in 1 .. Len(s.buf) : i = 1
    <3>1. Len(s.buf) = 1
      BY <1>2, <1>3
    <3>2. \A i \in 1 .. 1 : i = 1
      OBVIOUS
    <3> QED BY <3>1, <3>2, Zenon
  <2> QED BY <1>3, <2>1, <2>2
<1>4. ASSUME ~h.pressed, h.key \in TapKeys, h.count # 0, <<h.key, "hold">> \in s.on
      PROVE  <<h.key, "hold">> \in L
  <2>1. ~HoldEnds(s.buf, h.key, D)
    BY <1>2, <1>4 DEF HoldEnds
  <2> QED BY <1>4, <2>1 DEF TapInv, EffectsInv
<1> HIDE DEF h
<1> QED BY <1>1, <1>3, <1>4 DEF Ready, h

\* So does an event.
LEMMA EventReady ==
  ASSUME OneTapKey, NEW s \in States, NEW r \in KeyRecords, NEW E, NEW D, NEW L, Comes(s, r, E, D, L)
  PROVE  Ready(s, r, L)
<1>0. /\ s.buf \in Seq(KeyRecords) /\ r.key \in Keys /\ TapInv(s.tk, s.buf, s.on, E, L)
      /\ Moves(r, E, D) /\ r.count = 0
  BY FieldTypes DEF Comes, KeyRecords, Records
<1>1. ASSUME ~IsUnsettled(s.tk) PROVE s.buf = <<>> /\ Len(s.buf) = 0
  BY <1>1 DEF Comes
<1>2. ASSUME r.pressed, ~IsUnsettled(s.tk), <<r.key, "key">> \in s.on PROVE <<r.key, "key">> \in L
  <2>1. \A i \in 1 .. Len(s.buf) : s.buf[i].key # r.key
    BY <1>1, <1>2
  <2>2. r.key \in E \/ <<r.key, "key">> \in L
    BY <1>0, <1>2, <2>1 DEF TapInv, KeysInv
  <2> QED BY <1>0, <1>2, <2>2 DEF Moves
<1>3. ASSUME r.pressed, r.key \in TapKeys
      PROVE  ~IsTapped(s.tk) /\ \A i \in 1 .. Len(s.buf) : s.buf[i].key # r.key
  <2>1. CASE IsUnsettled(s.tk)
    BY <1>0, <1>3, <2>1 DEF TapInv, StateInv, Alone, IsUnsettled, IsTapped
  <2>2. CASE ~IsUnsettled(s.tk)
    <3>1. IsTapped(s.tk) => s.tk.key \in TapKeys /\ s.tk.key \in E
      BY <1>0, <1>1, <2>2 DEF TapInv, StateInv, IsTapped
    <3>2. r.key \notin E
      BY <1>0, <1>3 DEF Moves
    <3> QED BY <1>1, <1>3, <2>2, <3>1, <3>2 DEF OneTapKey
  <2> QED BY <2>1, <2>2
<1> QED BY <1>0, <1>2, <1>3 DEF Ready

-----------------------------------------------------------------------------
(* The records a call hands out, one after the other.                      *)

\* From a, the records of s.out make s.on, and each of them fits.
Matched(a, s, L) ==
  \E on : /\ on[0] = a /\ on[Len(s.out)] = s.on
          /\ \A n \in 1 .. Len(s.out) :
               on[n] = Apply(on[n - 1], s.out[n]) /\ Fits(on[n - 1], s.out[n], L)

\* Nothing but presses waits, and nothing has been switched off.
Kept(a, s) == (\A i \in 1 .. Len(s.buf) : s.buf[i].pressed) /\ a \subseteq s.on

LEMMA MatchedSame ==
  ASSUME NEW a, NEW s, NEW u, NEW L, Matched(a, s, L), u.out = s.out, u.on = s.on
  PROVE  Matched(a, u, L)
BY DEF Matched

LEMMA MatchedGrows ==
  ASSUME NEW a, NEW s \in States, NEW u, NEW r, NEW L, Matched(a, s, L), Emits(s, u, r, L)
  PROVE  Matched(a, u, L)
<1>1. CASE u.out = s.out /\ u.on = s.on
  BY <1>1, MatchedSame
<1>2. CASE ~(u.out = s.out /\ u.on = s.on)
  <2>1. PICK x \in Records : u.out = Append(s.out, x) /\ u.on = Apply(s.on, x) /\ Fits(s.on, x, L)
    BY <1>2 DEF Emits
  <2>2. PICK on : /\ on[0] = a /\ on[Len(s.out)] = s.on
                  /\ \A n \in 1 .. Len(s.out) :
                       on[n] = Apply(on[n - 1], s.out[n]) /\ Fits(on[n - 1], s.out[n], L)
    BY DEF Matched
  <2>3. PICK l \in Nat : /\ l = Len(s.out) /\ Len(u.out) = l + 1 /\ u.out[l + 1] = x
                         /\ \A n \in 1 .. l : u.out[n] = s.out[n]
    <3>1. s.out \in Seq(Records)
      BY FieldTypes
    <3> QED BY <2>1, <3>1
  <2> DEFINE f == [n \in 0 .. l + 1 |-> IF n = l + 1 THEN u.on ELSE on[n]]
  <2>4. f[0] = a /\ f[l + 1] = u.on /\ f[l] = s.on /\ \A n \in 1 .. l : f[n] = on[n] /\ f[n - 1] = on[n - 1]
    BY <2>2, <2>3
  <2> HIDE DEF f
  <2>5. ASSUME NEW n \in 1 .. l + 1
        PROVE  f[n] = Apply(f[n - 1], u.out[n]) /\ Fits(f[n - 1], u.out[n], L)
    <3>1. CASE n = l + 1
      <4>1. f[n] = u.on /\ u.out[n] = x /\ f[n - 1] = s.on
        BY <2>3, <2>4, <3>1
      <4> QED BY <2>1, <4>1
    <3>2. CASE n # l + 1
      <4>1. n \in 1 .. l
        BY <3>2
      <4> QED BY <2>2, <2>3, <2>4, <4>1
    <3> QED BY <3>1, <3>2
  <2> QED BY <2>3, <2>4, <2>5 DEF Matched
<1> QED BY <1>1, <1>2

\* A press, or a tick, switches nothing off.
LEMMA EmitsKeeps ==
  ASSUME NEW s, NEW u, NEW r, NEW L, Emits(s, u, r, L), r.pressed \/ r.key = NoKey
  PROVE  s.on \subseteq u.on
<1>1. CASE u.on = s.on
  BY <1>1
<1>2. CASE u.on # s.on
  <2>1. PICK x \in Records : u.on = Apply(s.on, x) /\ x.pressed
    BY <1>2 DEF Emits
  <2> QED BY <2>1 DEF Apply
<1> QED BY <1>1, <1>2

\* A turn of the loop.  g: nothing but presses waits.
LEMMA TurnEmits ==
  ASSUME OneTapKey, NEW p, p.s \in States, NEW D, NEW L, NEW M, LoopState(p, D, L, M),
         NEW a, Matched(a, p.s, L), NEW g \in BOOLEAN, g => Kept(a, p.s)
  PROVE  Matched(a, DrainTurn(p).s, L) /\ (g => Kept(a, DrainTurn(p).s))
<1>1. CASE ~p.more \/ p.s.buf = <<>>
  <2>1. DrainTurn(p) = p
    BY <1>1 DEF DrainTurn
  <2> QED BY <2>1
<1>2. CASE p.more /\ p.s.buf # <<>>
  <2>1. PICK s \in States : s = p.s /\ s.buf # <<>> /\ LoopInv(s.tk, s.buf, s.on, D, L, M)
    BY <1>2 DEF LoopState
  <2>2. /\ s.buf \in Seq(KeyRecords) /\ Head(s.buf) = s.buf[1]
        /\ s.buf[1] \in KeyRecords /\ s.buf[1] \in Records
    <3>1. s.buf \in Seq(KeyRecords)
      BY FieldTypes
    <3> QED BY <2>1, <3>1, TailFacts DEF KeyRecords
  <2> DEFINE h == s.buf[1]
             q == process_tapping(s, h)
             b == IF q.done THEN Tail(q.s.buf) ELSE [q.s.buf EXCEPT ![1] = q.rec]
  <2>3. TurnGood(q, D, L, M) /\ StepTypes(q, s, h)
    BY <2>1, <2>2, TurnIsGood, TappingTypes
  <2>4. Emits(s, q.s, h, L)
    <3>1. TapInv(s.tk, s.buf, s.on, D, L)
      BY <2>1 DEF LoopInv
    <3>2. Ready(s, h, L)
      BY <2>1, <3>1, HeadReady
    <3> HIDE DEF h
    <3> QED BY <2>2, <3>1, <3>2, TappingEmits DEF h
  <2>5. DrainTurn(p).s = [q.s EXCEPT !.buf = b]
    BY <1>2, <2>1, <2>2 DEF DrainTurn
  <2> HIDE DEF q, h
  <2>6. q.s \in States /\ q.s.buf = s.buf
    BY <2>3, <2>4 DEF StepTypes, Emits
  <2>7. b = IF q.done THEN Tail(s.buf) ELSE s.buf
    <3>1. ~q.done => [q.s.buf EXCEPT ![1] = q.rec] = s.buf
      <4>1. ~q.done => q.rec = s.buf[1]
        BY <2>3, <2>6 DEF TurnGood
      <4>2. \A c \in Seq(KeyRecords) : [c EXCEPT ![1] = c[1]] = c
        OBVIOUS
      <4> QED BY <2>2, <2>6, <4>1, <4>2
    <3> QED BY <2>6, <3>1
  <2> HIDE DEF b
  <2>8. PICK u \in States : u = DrainTurn(p).s /\ u.buf = b /\ u.on = q.s.on /\ u.out = q.s.out
    <3>1. b \in Seq(KeyRecords)
      BY <2>1, <2>2, <2>7, TailFacts
    <3>2. LET x == [q.s EXCEPT !.buf = b]
          IN x \in States /\ x.buf = b /\ x.on = q.s.on /\ x.out = q.s.out
      BY <2>6, <3>1, BufTypes
    <3> QED BY <2>5, <3>2
  <2>9. Matched(a, u, L)
    <3>1. Matched(a, q.s, L)
      BY <2>1, <2>4, MatchedGrows
    <3> QED BY <2>8, <3>1, MatchedSame
  <2>10. ASSUME g PROVE Kept(a, u)
    <3>1. a \subseteq s.on /\ \A i \in 1 .. Len(s.buf) : s.buf[i].pressed
      BY <2>1, <2>10 DEF Kept
    <3>2. PICK l \in Nat : l # 0 /\ l = Len(s.buf) /\ Len(Tail(s.buf)) = l - 1
                           /\ \A i \in 1 .. l - 1 : Tail(s.buf)[i] = s.buf[i + 1]
      BY <2>1, <2>2, TailFacts
    <3>3. \A i \in 1 .. Len(Tail(s.buf)) : Tail(s.buf)[i].pressed
      <4>1. ASSUME NEW i \in 1 .. l - 1 PROVE Tail(s.buf)[i].pressed
        <5>1. i + 1 \in 1 .. l
          BY <3>2
        <5> QED BY <3>1, <3>2, <5>1
      <4> QED BY <3>2, <4>1
    <3>4. \A i \in 1 .. Len(u.buf) : u.buf[i].pressed
      BY <2>7, <2>8, <3>1, <3>3
    <3>5. h.pressed
      BY <3>1, <3>2 DEF h
    <3>6. s.on \subseteq q.s.on
      BY <2>4, <3>5, EmitsKeeps
    <3> QED BY <2>8, <3>1, <3>4, <3>6 DEF Kept
  <2> QED BY <2>8, <2>9, <2>10
<1> QED BY <1>1, <1>2 DEF LoopState

LEMMA DrainEmits ==
  ASSUME OneTapKey, NEW s \in States, Len(s.buf) < WAITING_BUFFER_SIZE, NEW D, NEW L, NEW M,
         LoopInv(s.tk, s.buf, s.on, D, L, M),
         NEW a, Matched(a, s, L), NEW g \in BOOLEAN, g => Kept(a, s)
  PROVE  Matched(a, Drain(s), L) /\ (g => a \subseteq Drain(s).on)
<1>1. PICK f : /\ f[0] = DrainStart(s) /\ Drain(s) = f[WAITING_BUFFER_SIZE].s
               /\ \A n \in 1 .. WAITING_BUFFER_SIZE : f[n] = DrainTurn(f[n - 1])
  BY DrainTurns
<1>2. PICK l \in Nat : l = Len(s.buf)
  BY FieldTypes, SMTT(40)
<1>3. PICK w \in Nat : w = WAITING_BUFFER_SIZE
  BY BufferAssumption
<1> DEFINE Ok(n) == /\ TurnTypes(f[n], l, n) /\ LoopState(f[n], D, L, M)
                    /\ Matched(a, f[n].s, L) /\ (g => Kept(a, f[n].s))
           G == {n \in 0 .. w : Ok(n)}
<1>4. \A n \in 0 .. w : n \in G
  <2>1. DrainStart(s).s = s /\ DrainStart(s).more
    BY DEF DrainStart
  <2>2. TurnTypes(DrainStart(s), l, 0) /\ LoopState(DrainStart(s), D, L, M)
    BY <1>2, <2>1 DEF TurnTypes, LoopState
  <2>3. Ok(0)
    BY <1>1, <2>1, <2>2
  <2>4. ASSUME NEW n \in 1 .. w, n - 1 \in G PROVE n \in G
    <3>1. Ok(n - 1) /\ n - 1 \in Nat /\ f[n] = DrainTurn(f[n - 1]) /\ (n - 1) + 1 = n
      BY <1>1, <1>3, <2>4
    <3>2. TurnTypes(DrainTurn(f[n - 1]), l, (n - 1) + 1)
      BY <3>1, TurnStep
    <3>3. LoopState(DrainTurn(f[n - 1]), D, L, M)
      BY <3>1, TurnKeeps DEF TurnTypes
    <3>4. Matched(a, DrainTurn(f[n - 1]).s, L) /\ (g => Kept(a, DrainTurn(f[n - 1]).s))
      BY <3>1, TurnEmits DEF TurnTypes
    <3>5. Ok(n)
      BY <3>1, <3>2, <3>3, <3>4
    <3> QED BY <3>5
  <2>5. 0 \in G
    BY <2>3
  <2> HIDE DEF G
  <2> QED BY <2>4, <2>5, UpTo
<1>5. w \in 0 .. w
  OBVIOUS
<1>6. Ok(w)
  BY <1>4, <1>5
<1> QED BY <1>1, <1>3, <1>6 DEF Kept

-----------------------------------------------------------------------------
(* After, which says what is on between the records.                       *)

LEMMA AfterExists ==
  ASSUME NEW a, NEW out
  PROVE  \A n \in Nat : \E f : f = [k \in 0 .. n |-> IF k = 0 THEN a ELSE Apply(f[k - 1], out[k])]
<1> DEFINE Runs(f, n) == f = [k \in 0 .. n |-> IF k = 0 THEN a ELSE Apply(f[k - 1], out[k])]
           S == {n \in Nat : ~ \E f : Runs(f, n)}
<1>1. SUFFICES ASSUME S # {} PROVE FALSE
  OBVIOUS
<1>2. PICK m \in S : \A j \in S : m <= j
  <2> HIDE DEF S
  <2>1. S \subseteq Nat
    BY DEF S
  <2> QED BY <1>1, <2>1, SmallestElement
<1>3. m # 0
  <2>1. Runs([k \in 0 .. 0 |-> a], 0)
    OBVIOUS
  <2> QED BY <2>1
<1>4. PICK f : Runs(f, m - 1)
  <2>1. m - 1 \in Nat /\ m - 1 \notin S
    BY <1>2, <1>3
  <2> QED BY <2>1
<1>5. Runs([k \in 0 .. m |-> IF k = m THEN Apply(f[m - 1], out[m]) ELSE f[k]], m)
  <2> DEFINE h == [k \in 0 .. m |-> IF k = m THEN Apply(f[m - 1], out[m]) ELSE f[k]]
  <2>1. ASSUME NEW k \in 0 .. m
        PROVE  h[k] = IF k = 0 THEN a ELSE Apply(h[k - 1], out[k])
    BY <1>3, <1>4
  <2> QED BY <2>1
<1> QED BY <1>2, <1>5

LEMMA AfterFacts ==
  ASSUME NEW a, NEW out, Len(out) \in Nat
  PROVE  /\ After(a, out)[0] = a
         /\ \A n \in 1 .. Len(out) : After(a, out)[n] = Apply(After(a, out)[n - 1], out[n])
<1> DEFINE Runs(f) == f = [k \in 0 .. Len(out) |-> IF k = 0 THEN a ELSE Apply(f[k - 1], out[k])]
           f == CHOOSE g : Runs(g)
<1>1. Runs(f)
  BY AfterExists
<1>2. f[0] = a /\ \A n \in 1 .. Len(out) : f[n] = Apply(f[n - 1], out[n])
  <2> HIDE DEF f
  <2> QED BY <1>1
<1>3. After(a, out) = f
  BY DEF After
<1> HIDE DEF f
<1> QED BY <1>2, <1>3

\* What ReleaseMatchesPress says of the records of a call, from what was on, a.
ReleasesMatch(a, out) ==
  LET on == After(a, out)
  IN \A i \in 1 .. Len(out) :
        EffectsOf(out[i].key, IF out[i].pressed THEN on[i - 1] ELSE on[i]) = {}

LEMMA MatchedReleases ==
  ASSUME NEW a, NEW d \in States, Matched(a, d, {})
  PROVE  ReleasesMatch(a, d.out)
<1>1. PICK l \in Nat : l = Len(d.out)
  BY FieldTypes
<1>2. PICK on : /\ on[0] = a
                /\ \A n \in 1 .. l : on[n] = Apply(on[n - 1], d.out[n]) /\ Fits(on[n - 1], d.out[n], {})
  BY <1>1 DEF Matched
<1>3. PICK f : /\ f = After(a, d.out) /\ f[0] = a
               /\ \A n \in 1 .. l : f[n] = Apply(f[n - 1], d.out[n])
  BY <1>1, AfterFacts
<1>4. \A n \in 0 .. l : f[n] = on[n]
  <2> DEFINE G == {n \in 0 .. l : f[n] = on[n]}
  <2>1. 0 \in G
    BY <1>2, <1>3
  <2>2. \A n \in 1 .. l : n - 1 \in G => n \in G
    BY <1>2, <1>3
  <2>3. \A n \in 0 .. l : n \in G
    <3> HIDE DEF G
    <3> QED BY <2>1, <2>2, UpTo
  <2> QED BY <2>3
<1>5. ASSUME NEW i \in 1 .. l
      PROVE  EffectsOf(d.out[i].key, IF d.out[i].pressed THEN f[i - 1] ELSE f[i]) = {}
  <2>1. f[i] = on[i] /\ f[i - 1] = on[i - 1]
    <3>1. i \in 0 .. l /\ i - 1 \in 0 .. l
      OBVIOUS
    <3> QED BY <1>4, <3>1
  <2>2. on[i] = Apply(on[i - 1], d.out[i]) /\ Fits(on[i - 1], d.out[i], {})
    BY <1>2
  <2> QED BY <2>1, <2>2 DEF Fits
<1> QED BY <1>1, <1>3, <1>5 DEF ReleasesMatch

-----------------------------------------------------------------------------
(* The steps of the specification.                                         *)

\* What is left on after the step, told by the keyboard before it.
LeftNext == IF lost' THEN Cleared(Effects) ELSE {}

LEMMA CallKeeps ==
  ASSUME TypeOK, NEW r \in Records, action_tapping_process(r), ~Overflows(r), NEW D, NEW M,
         LET d == Drain(Queued(r))
         IN TapInv(d.tk, d.buf, d.on, D, Left) /\ Rests(d.tk, d.buf, D, M)
  PROVE  /\ TapInv(tapping_key', waiting_buffer', active', D, LeftNext)
         /\ Rests(tapping_key', waiting_buffer', D, M)
<1> DEFINE d == Drain(Queued(r))
<1>1. /\ tapping_key' = d.tk /\ waiting_buffer' = d.buf /\ active' = d.on
      /\ lost' = (lost /\ (down # {} \/ Cleared(active') # {}))
  BY ActionParts
<1>2. active' \subseteq Effects
  BY CallTypes
<1> HIDE DEF d
<1>3. TapInv(tapping_key', waiting_buffer', active', D, Left) /\ Rests(tapping_key', waiting_buffer', D, M)
  BY <1>1 DEF d
<1>4. ASSUME NEW e \in active', e \in Left PROVE e \in LeftNext
  <2>1. lost /\ e \in Cleared(Effects)
    BY <1>4 DEF Left
  <2>2. e \in Cleared(active')
    BY <2>1 DEF Cleared
  <2>3. lost'
    BY <1>1, <2>1, <2>2
  <2> QED BY <2>1, <2>3 DEF LeftNext
<1> QED BY <1>3, <1>4, LeftChanges

\* The event that KeyEvent(k) passes on.
KeyRecord(k) == Event(k, k \notin down, now)

LEMMA KeyComes ==
  ASSUME OneKeyInv, NEW k \in Keys, KeyEvent(k), NEW L,
         TapInv(tapping_key, waiting_buffer, active, down, L)
  PROVE  LET r == KeyRecord(k)
         IN /\ r \in Records /\ r \in KeyRecords /\ (r.pressed <=> k \notin down)
            /\ action_tapping_process(r) /\ Comes(Now, r, down, down', L)
<1> DEFINE r == KeyRecord(k)
<1>0. TypeOK /\ OneTapKey
  BY DEF OneKeyInv
<1>1. /\ r \in Records /\ r \in KeyRecords /\ r.key = k /\ (r.pressed <=> k \notin down)
      /\ r.count = 0 /\ ~r.interrupted /\ k # NoKey
  <2>1. r \in Records
    BY <1>0, RecordFacts DEF TypeOK, KeyRecord
  <2>2. k # NoKey
    BY KeyAssumption
  <2> QED BY <2>1, <2>2 DEF Event, KeyRecords, KeyRecord
<1>2. action_tapping_process(r)
  BY DEF KeyEvent, KeyRecord
<1> HIDE DEF r
<1>3. Moves(r, down, down')
  <2>1. down' = IF k \in down THEN down \ {k} ELSE down \cup {k}
    BY DEF KeyEvent
  <2> QED BY <1>1, <2>1 DEF Moves
<1>4. Now \in States /\ Now.tk = tapping_key /\ Now.buf = waiting_buffer /\ Now.on = active
  BY <1>0, NowTypes
<1>5. waiting_buffer # <<>> => IsUnsettled(tapping_key)
  <2> SUFFICES ASSUME waiting_buffer # <<>>, moved # {}, setup.permissive_hold # {} PROVE FALSE
    BY DEF OneKeyInv, Rests
  <2>1. Cardinality(moved) \in Nat /\ Cardinality(moved) # 0
    BY FS_CardinalityType, FS_EmptySet DEF OneKeyInv
  <2>2. Cardinality(moved) < setup.events_per_tick /\ setup.events_per_tick <= 1
    BY <1>0 DEF KeyEvent, OneTapKey
  <2>3. setup.events_per_tick \in Nat
    BY <1>0, SetupAssumption DEF TypeOK
  <2> QED BY <2>1, <2>2, <2>3
<1>6. Comes(Now, r, down, down', L)
  BY <1>1, <1>3, <1>4, <1>5 DEF Comes
<1> QED BY <1>1, <1>2, <1>6 DEF r

\* The loop starts with the event in the buffer, or processed.
LEMMA QueuedGood ==
  ASSUME TypeOK, OneTapKey, NEW r \in KeyRecords, NEW E, NEW D, NEW L, NEW M, M # {},
         Comes(Now, r, E, D, L), ~Overflows(r)
  PROVE  LET u == Queued(r) IN LoopInv(u.tk, u.buf, u.on, D, L, M)
<1> DEFINE q == Looked(r)
<1>0. r \in Records /\ ~IS_NOEVENT(r)
  BY DEF KeyRecords, IS_NOEVENT
<1>1. EventGood(q, D, L)
  BY NowTypes, EventStep DEF Looked
<1>2. q.s \in States /\ q.rec \in KeyRecords /\ q.s.buf \in Seq(KeyRecords)
  <2>1. StepTypes(q, Now, r)
    BY <1>0, LookedTypes
  <2> HIDE DEF q
  <2> QED BY <2>1, FieldTypes DEF StepTypes, KeyRecords
<1>3. Queued(r) = IF q.done THEN q.s ELSE [q.s EXCEPT !.buf = Append(q.s.buf, q.rec)]
  BY <1>0 DEF Queued
<1> HIDE DEF q
<1>4. PICK u \in States :
        /\ u = Queued(r) /\ u.tk = q.s.tk /\ u.on = q.s.on
        /\ u.buf = IF q.done THEN q.s.buf ELSE Append(q.s.buf, q.rec)
  <2>1. Append(q.s.buf, q.rec) \in Seq(KeyRecords)
    BY <1>2, AppendFacts
  <2>2. LET x == [q.s EXCEPT !.buf = Append(q.s.buf, q.rec)]
        IN x \in States /\ x.buf = Append(q.s.buf, q.rec) /\ x.tk = q.s.tk /\ x.on = q.s.on
    BY <1>2, <2>1, BufTypes
  <2> QED BY <1>2, <1>3, <2>2
<1>5. LoopInv(u.tk, u.buf, u.on, D, L, M)
  BY <1>1, <1>4 DEF EventGood, LoopInv
<1> QED BY <1>4, <1>5

LEMMA KeyEventKeeps ==
  ASSUME OneKeyInv, NEW k \in Keys, KeyEvent(k)
  PROVE  /\ TapInv(tapping_key', waiting_buffer', active', down', LeftNext)
         /\ Rests(tapping_key', waiting_buffer', down', moved')
<1> DEFINE r == KeyRecord(k)
           q == Looked(r)
<1>0. TypeOK /\ OneTapKey
  BY DEF OneKeyInv
<1>1. /\ r \in Records /\ r \in KeyRecords /\ action_tapping_process(r)
      /\ Comes(Now, r, down, down', Left)
  BY KeyComes DEF OneKeyInv
<1>2. moved' # {}
  BY DEF KeyEvent
<1> HIDE DEF r
<1>3. EventGood(q, down', Left)
  BY <1>0, <1>1, NowTypes, EventStep DEF Looked
<1>4. /\ StepTypes(q, Now, r) /\ q.s \in States /\ q.rec \in KeyRecords /\ q.s.buf \in Seq(KeyRecords)
      /\ q.s.on \in SUBSET Effects
  <2>1. StepTypes(q, Now, r)
    BY <1>0, <1>1, LookedTypes
  <2> HIDE DEF q
  <2> QED BY <1>1, <2>1, FieldTypes DEF StepTypes, KeyRecords
<1>5. CASE Overflows(r)
  <2>1. ~q.done /\ ~IS_NOEVENT(r)
    BY <1>5 DEF Overflows
  <2>2. Queued(r) = [Reset(q.s) EXCEPT !.buf = <<>>]
    BY <1>5, <2>1 DEF Queued
  <2> HIDE DEF q
  <2>3. PICK u \in States : u = Queued(r) /\ u.tk = NoRecord /\ u.buf = <<>> /\ u.on = q.s.on
    <3>1. PICK v \in States : v = Reset(q.s) /\ v.tk = NoRecord /\ v.on = q.s.on
      BY <1>4, FieldTypes
    <3>2. LET x == [v EXCEPT !.buf = <<>>]
          IN x \in States /\ x.buf = <<>> /\ x.tk = v.tk /\ x.on = v.on
      BY EmptyBuffer, BufTypes
    <3> QED BY <2>2, <3>1, <3>2
  <2>4. Drain(Queued(r)) = u
    BY <2>3, DrainEmpty
  <2>5. tapping_key' = NoRecord /\ waiting_buffer' = <<>> /\ active' = Cleared(q.s.on) /\ lost'
    BY <1>1, <1>5, <2>3, <2>4, ActionParts
  <2>6. KeysInv(Append(q.s.buf, q.rec), q.s.on, down', Left)
    BY <1>3, <2>1 DEF EventGood, TapInv
  <2>7. TapInv(NoRecord, <<>>, Cleared(q.s.on), down', Cleared(Effects))
    BY <1>0, <1>4, <2>6, RecordFacts, OverflowClears
  <2>8. Rests(NoRecord, <<>>, down', moved')
    BY DEF Rests
  <2> QED BY <2>5, <2>7, <2>8 DEF LeftNext
<1>6. CASE ~Overflows(r)
  <2>1. PICK u \in States : u = Queued(r) /\ Len(u.buf) < WAITING_BUFFER_SIZE
    BY <1>0, <1>1, QueuedTypes
  <2>2. LoopInv(u.tk, u.buf, u.on, down', Left, moved')
    BY <1>0, <1>1, <1>2, <1>6, <2>1, QueuedGood
  <2>3. LET d == Drain(u) IN TapInv(d.tk, d.buf, d.on, down', Left) /\ Rests(d.tk, d.buf, down', moved')
    BY <1>0, <2>1, <2>2, DrainKeeps
  <2> QED BY <1>0, <1>1, <1>6, <2>1, <2>3, CallKeeps
<1> QED BY <1>5, <1>6

LEMMA TickEventKeeps ==
  ASSUME OneKeyInv, TickEvent
  PROVE  /\ TapInv(tapping_key', waiting_buffer', active', down, LeftNext)
         /\ Rests(tapping_key', waiting_buffer', down, {})
<1> DEFINE r == Event(NoKey, FALSE, now)
<1>0. TypeOK /\ OneTapKey
  BY DEF OneKeyInv
<1>1. r \in Records /\ r.key = NoKey /\ IS_NOEVENT(r)
  <2>1. r \in Records
    BY <1>0, RecordFacts DEF TypeOK
  <2> QED BY <2>1 DEF Event, IS_NOEVENT
<1>2. action_tapping_process(r)
  BY DEF TickEvent
<1> HIDE DEF r
<1>3. ~Overflows(r) /\ Queued(r) = Looked(r).s
  BY <1>1 DEF Overflows, Queued
<1>4. Now \in States /\ Now.tk = tapping_key /\ Now.buf = waiting_buffer /\ Now.on = active
  BY <1>0, NowTypes
<1>5. PICK u \in States : u = Queued(r) /\ Len(u.buf) < WAITING_BUFFER_SIZE
  BY <1>0, <1>1, QueuedTypes
<1>6. LoopInv(u.tk, u.buf, u.on, down, Left, {})
  <2>1. TapInv(Now.tk, Now.buf, Now.on, down, Left) /\ Rests(Now.tk, Now.buf, down, moved)
    BY <1>4 DEF OneKeyInv
  <2> QED BY <1>0, <1>1, <1>3, <1>4, <1>5, <2>1, TickStep DEF Looked
<1>7. LET d == Drain(u) IN TapInv(d.tk, d.buf, d.on, down, Left) /\ Rests(d.tk, d.buf, down, {})
  BY <1>0, <1>5, <1>6, DrainKeeps
<1> QED BY <1>0, <1>1, <1>2, <1>3, <1>5, <1>7, CallKeeps

LEMMA KeyboardStays ==
  ASSUME setup' = setup,
         TapInv(tapping_key', waiting_buffer', active', down', LeftNext),
         Rests(tapping_key', waiting_buffer', down', moved')
  PROVE  /\ TapInv(tapping_key, waiting_buffer, active, down, Left)'
         /\ Rests(tapping_key, waiting_buffer, down, moved)'
<1>1. TapKeys' = TapKeys
  BY DEF TapKeys
<1>2. Left' = LeftNext
  BY DEF Left, LeftNext, Cleared, Effects
<1>3. KeysInv(waiting_buffer, active, down, Left)'
  BY <1>1, <1>2 DEF TapInv, KeysInv
<1>4. BufferInv(waiting_buffer)'
  BY <1>1 DEF TapInv, BufferInv
<1>5. StateInv(tapping_key, waiting_buffer, down)'
  BY <1>1 DEF TapInv, StateInv, Alone, IsUnsettled, IsTapped, IsReleased, WithinTappingTerm, TimerDiff
<1>6. EffectsInv(tapping_key, waiting_buffer, active, down, Left)'
  BY <1>1, <1>2 DEF TapInv, EffectsInv, HoldEnds, IsTapped
<1>7. Rests(tapping_key, waiting_buffer, down, moved)'
  BY DEF Rests, Waits, Typed, Retained, IsUnsettled
<1> QED BY <1>3, <1>4, <1>5, <1>6, <1>7 DEF TapInv

LEMMA InitOneKey ==
  Init /\ OneTapKey => OneKeyInv
<1> SUFFICES ASSUME Init, OneTapKey PROVE OneKeyInv
  OBVIOUS
<1>1. tapping_key.key = NoKey /\ waiting_buffer = <<>> /\ active = {} /\ moved = {}
  BY RecordFacts DEF Init
<1>2. TypeOK /\ IsFiniteSet(moved)
  BY <1>1, InitTypes, FS_EmptySet
<1>3. ~IsUnsettled(tapping_key) /\ ~IsTapped(tapping_key)
  BY <1>1 DEF IsUnsettled, IsTapped
<1>4. KeysInv(<<>>, {}, down, Left)
  BY DEF KeysInv
<1>5. TapInv(tapping_key, waiting_buffer, active, down, Left)
  BY <1>1, <1>3, <1>4, Restarts
<1>6. Rests(tapping_key, waiting_buffer, down, moved)
  BY <1>1 DEF Rests
<1> QED BY <1>2, <1>5, <1>6 DEF OneKeyInv

LEMMA StepsKeepOneKey ==
  OneKeyInv /\ [Next]_vars => OneKeyInv'
<1> SUFFICES ASSUME OneKeyInv, [Next]_vars PROVE OneKeyInv'
  OBVIOUS
<1>0. TypeOK' /\ OneTapKey'
  <2>1. TypeOK'
    BY StepsKeepTypes DEF OneKeyInv
  <2>2. setup' = setup
    BY DEF Next, KeyEvent, TickEvent, Pass, vars
  <2> QED BY <2>1, <2>2 DEF OneKeyInv, OneTapKey, TapKeys
<1>1. ASSUME NEW k \in Keys, KeyEvent(k) PROVE OneKeyInv'
  <2>1. setup' = setup /\ moved' = moved \cup {k}
    BY <1>1 DEF KeyEvent
  <2>2. IsFiniteSet(moved')
    BY <2>1, FS_AddElement DEF OneKeyInv
  <2>3. /\ TapInv(tapping_key', waiting_buffer', active', down', LeftNext)
        /\ Rests(tapping_key', waiting_buffer', down', moved')
    BY <1>1, KeyEventKeeps
  <2> QED BY <1>0, <2>1, <2>2, <2>3, KeyboardStays DEF OneKeyInv
<1>2. CASE TickEvent
  <2>1. setup' = setup /\ moved' = {} /\ down' = down
    BY <1>2 DEF TickEvent
  <2>2. IsFiniteSet(moved')
    BY <2>1, FS_EmptySet
  <2>3. /\ TapInv(tapping_key', waiting_buffer', active', down', LeftNext)
        /\ Rests(tapping_key', waiting_buffer', down', moved')
    BY <1>2, <2>1, TickEventKeeps
  <2> QED BY <1>0, <2>1, <2>2, <2>3, KeyboardStays DEF OneKeyInv
<1>3. CASE Pass \/ UNCHANGED vars
  <2>1. UNCHANGED <<setup, tapping_key, waiting_buffer, active, down, moved, lost>>
    BY <1>3 DEF Pass, vars
  <2>2. LeftNext = Left
    BY <2>1 DEF LeftNext, Left
  <2>3. /\ TapInv(tapping_key', waiting_buffer', active', down', LeftNext)
        /\ Rests(tapping_key', waiting_buffer', down', moved')
    BY <2>1, <2>2 DEF OneKeyInv
  <2>4. IsFiniteSet(moved')
    BY <2>1 DEF OneKeyInv
  <2> QED BY <1>0, <2>1, <2>3, <2>4, KeyboardStays DEF OneKeyInv
<1> QED BY <1>1, <1>2, <1>3 DEF Next

\* The invariant of the keyboards with one tap-hold key; on the others nothing is
\* claimed.
IfOneKey == OneTapKey => OneKeyInv

LEMMA InitIfOneKey == Init => IfOneKey
BY InitOneKey DEF IfOneKey

LEMMA StepsKeepIfOneKey ==
  IfOneKey /\ [Next]_vars => IfOneKey'
<1> SUFFICES ASSUME IfOneKey, [Next]_vars, OneTapKey' PROVE OneKeyInv'
  BY DEF IfOneKey
<1>1. setup' = setup
  BY DEF Next, KeyEvent, TickEvent, Pass, vars
<1>2. OneTapKey
  BY <1>1 DEF OneTapKey, TapKeys
<1> QED BY <1>2, StepsKeepOneKey DEF IfOneKey

\* On every keyboard with one tap-hold key, whatever the options, the terms and the
\* size of the buffer: once every key is up and nothing waits, nothing is left on
\* that a press has switched on, except layers after an overflow.
THEOREM NoKeyStaysOn == Spec => []NoStuckKeys
<1>1. IfOneKey => NoStuckKeys
  <2> SUFFICES ASSUME OneKeyInv, Idles PROVE active \subseteq Left
    <3>1. ASSUME active \subseteq Left PROVE NothingStaysOn
      BY <3>1 DEF NothingStaysOn, Left, Cleared
    <3> QED BY <3>1 DEF IfOneKey, NoStuckKeys, NothingStaysOn
  <2> SUFFICES ASSUME NEW e \in active PROVE e \in Left
    OBVIOUS
  <2>1. /\ waiting_buffer = <<>> /\ down = {} /\ ~IsTapped(tapping_key)
        /\ TapInv(tapping_key, waiting_buffer, active, down, Left)
    BY DEF Idles, IsTapped, OneKeyInv
  <2>2. PICK k \in Keys : e = <<k, "key">> \/ e = <<k, "tap">> \/ e = <<k, "hold">>
    BY DEF OneKeyInv, TypeOK
  <2>3. CASE e = <<k, "key">>
    BY <2>1, <2>3 DEF TapInv, KeysInv
  <2>4. e # <<k, "key">> => k \in TapKeys
    BY <2>1, <2>2 DEF TapInv, KeysInv
  <2>5. e # <<k, "tap">>
    <3>1. <<k, "tap">> # <<k, "key">>
      OBVIOUS
    <3> QED BY <2>1, <2>4, <3>1 DEF TapInv, EffectsInv
  <2>6. CASE e = <<k, "hold">>
    <3>1. <<k, "hold">> # <<k, "key">>
      OBVIOUS
    <3> QED BY <2>1, <2>4, <2>6, <3>1 DEF TapInv, EffectsInv, HoldEnds
  <2> QED BY <2>2, <2>3, <2>5, <2>6
<1> QED BY <1>1, InitIfOneKey, StepsKeepIfOneKey, PTL DEF Spec

\* On every keyboard with one tap-hold key the loop over the buffer leaves nothing
\* at a tick that could be processed already: what waits waits for a key that is
\* not settled.
THEOREM RecordsWaitForTapping == Spec => []WaitsForTapping
<1>1. IfOneKey => WaitsForTapping
  BY DEF IfOneKey, OneKeyInv, Rests, WaitsForTapping, IsUnsettled
<1> QED BY <1>1, InitIfOneKey, StepsKeepIfOneKey, PTL DEF Spec

-----------------------------------------------------------------------------
(* Releases go to what their presses have switched on.                     *)

LEMMA NowMatched ==
  ASSUME NEW L
  PROVE  Matched(active, Now, L)
<1>1. Now.out = <<>> /\ Now.on = active /\ Len(<<>>) = 0
  BY DEF Now
<1> DEFINE f == [n \in 0 .. 0 |-> active]
<1>2. f[0] = active /\ \A n \in 1 .. 0 : FALSE
  OBVIOUS
<1> HIDE DEF f
<1> QED BY <1>1, <1>2 DEF Matched

LEMMA QueuedEmits ==
  ASSUME TypeOK, OneTapKey, NEW r \in Records, NEW E, NEW L, TapInv(Now.tk, Now.buf, Now.on, E, L),
         Ready(Now, r, L), ~Overflows(r)
  PROVE  /\ Matched(active, Queued(r), L)
         /\ waiting_buffer = <<>> /\ (r.pressed \/ r.key = NoKey) => Kept(active, Queued(r))
<1> DEFINE q == Looked(r)
<1>1. StepTypes(q, Now, r) /\ Emits(Now, q.s, r, L)
  BY NowTypes, LookedTypes, TappingEmits DEF Looked
<1>2. Queued(r) = IF q.done \/ IS_NOEVENT(r) THEN q.s ELSE [q.s EXCEPT !.buf = Append(q.s.buf, q.rec)]
  BY DEF Queued
<1> HIDE DEF q
<1>3. /\ q.s \in States /\ q.s.buf \in Seq(KeyRecords) /\ q.s.buf = waiting_buffer
      /\ q.rec \in Records /\ q.rec.key = r.key /\ q.rec.pressed = r.pressed
  BY <1>1, FieldTypes, NowTypes DEF StepTypes, Emits
<1>4. PICK u \in States :
        /\ u = Queued(r) /\ u.out = q.s.out /\ u.on = q.s.on
        /\ u.buf = IF q.done \/ IS_NOEVENT(r) THEN q.s.buf ELSE Append(q.s.buf, q.rec)
  <2>1. CASE q.done \/ IS_NOEVENT(r)
    BY <1>2, <1>3, <2>1
  <2>2. CASE ~(q.done \/ IS_NOEVENT(r))
    <3>1. q.rec \in KeyRecords
      BY <1>3, <2>2 DEF IS_NOEVENT, KeyRecords
    <3>2. Append(q.s.buf, q.rec) \in Seq(KeyRecords)
      BY <1>3, <3>1, AppendFacts
    <3>3. LET x == [q.s EXCEPT !.buf = Append(q.s.buf, q.rec)]
          IN x \in States /\ x.buf = Append(q.s.buf, q.rec) /\ x.out = q.s.out /\ x.on = q.s.on
      BY <1>3, <3>2, BufTypes
    <3> QED BY <1>2, <2>2, <3>3
  <2> QED BY <2>1, <2>2
<1>5. Matched(active, u, L)
  <2>1. Matched(active, q.s, L)
    BY <1>1, NowTypes, NowMatched, MatchedGrows
  <2> QED BY <1>4, <2>1, MatchedSame
<1>6. ASSUME waiting_buffer = <<>>, r.pressed \/ r.key = NoKey PROVE Kept(active, u)
  <2>1. active \subseteq u.on
    BY <1>1, <1>4, <1>6, NowTypes, EmitsKeeps
  <2>2. \A i \in 1 .. Len(u.buf) : u.buf[i].pressed
    <3>1. CASE q.done \/ IS_NOEVENT(r)
      BY <1>3, <1>4, <1>6, <3>1
    <3>2. CASE ~(q.done \/ IS_NOEVENT(r))
      <4>1. u.buf = Append(<<>>, q.rec) /\ q.rec.pressed
        BY <1>3, <1>4, <1>6, <3>2 DEF IS_NOEVENT
      <4>2. Len(Append(<<>>, q.rec)) = 1 /\ Append(<<>>, q.rec)[1] = q.rec
        OBVIOUS
      <4>3. \A i \in 1 .. 1 : i = 1
        OBVIOUS
      <4> QED BY <4>1, <4>2, <4>3
    <3> QED BY <3>1, <3>2
  <2> QED BY <2>1, <2>2 DEF Kept
<1> QED BY <1>4, <1>5, <1>6

\* What a call makes of what is on, and of the records.
LEMMA CallEmits ==
  ASSUME TypeOK, OneTapKey, NEW r \in Records, NEW E, NEW D, NEW L, NEW M,
         TapInv(Now.tk, Now.buf, Now.on, E, L), Ready(Now, r, L), ~Overflows(r),
         LET u == Queued(r) IN LoopInv(u.tk, u.buf, u.on, D, L, M)
  PROVE  /\ Matched(active, Drain(Queued(r)), L)
         /\ waiting_buffer = <<>> /\ (r.pressed \/ r.key = NoKey)
              => active \subseteq Drain(Queued(r)).on
<1> DEFINE g == waiting_buffer = <<>> /\ (r.pressed \/ r.key = NoKey)
<1>1. PICK u \in States : u = Queued(r) /\ Len(u.buf) < WAITING_BUFFER_SIZE
  BY QueuedTypes
<1>2. LoopInv(u.tk, u.buf, u.on, D, L, M)
  BY <1>1
<1>3. Matched(active, u, L) /\ (g => Kept(active, u)) /\ g \in BOOLEAN
  <2>1. r.pressed \in BOOLEAN
    BY DEF Records
  <2> QED BY <1>1, <2>1, QueuedEmits
<1> HIDE DEF g
<1>4. Matched(active, Drain(u), L) /\ (g => active \subseteq Drain(u).on)
  BY <1>1, <1>2, <1>3, DrainEmits
<1> QED BY <1>1, <1>4 DEF g

\* Where an overflow is forgotten, every key was up: nothing waited, nothing was
\* switched off, and nothing had been left on.
LEMMA NothingLeft ==
  ASSUME OneKeyInv, NEW r \in Records, action_tapping_process(r), ~lost', NEW D, NEW M,
         Ready(Now, r, Left), LET u == Queued(r) IN LoopInv(u.tk, u.buf, u.on, D, Left, M),
         down = {} => r.pressed \/ r.key = NoKey
  PROVE  TapInv(tapping_key, waiting_buffer, active, down, {})
<1>1. TypeOK /\ OneTapKey /\ TapInv(tapping_key, waiting_buffer, active, down, Left)
  BY DEF OneKeyInv
<1>2. CASE ~lost
  BY <1>1, <1>2 DEF Left
<1>3. CASE lost
  <2>1. ~Overflows(r) /\ down = {} /\ Cleared(active') = {} /\ active' = Drain(Queued(r)).on
    BY <1>3, ActionParts
  <2>2. waiting_buffer = <<>>
    <3>1. ~IsUnsettled(tapping_key)
      BY <1>1, <2>1 DEF TapInv, StateInv
    <3> QED BY <2>1, <3>1 DEF OneKeyInv, Rests
  <2>3. active \subseteq active'
    <3>1. TapInv(Now.tk, Now.buf, Now.on, down, Left)
      BY <1>1, NowTypes
    <3> QED BY <1>1, <2>1, <2>2, <3>1, CallEmits
  <2>4. \A e \in active : e \in Left => e \in {}
    <3> SUFFICES ASSUME NEW e \in active, e \in Left PROVE FALSE
      OBVIOUS
    <3>1. e \in Cleared(active')
      BY <1>3, <2>3 DEF Left, Cleared
    <3> QED BY <2>1, <3>1
  <2> QED BY <1>1, <2>4, LeftChanges
<1> QED BY <1>2, <1>3

LEMMA KeyEventMatches ==
  ASSUME OneKeyInv, NEW k \in Keys, KeyEvent(k), ~lost'
  PROVE  ReleasesMatch(active, processed')
<1> DEFINE r == KeyRecord(k)
<1>0. TypeOK /\ OneTapKey /\ moved' # {}
  BY DEF OneKeyInv, KeyEvent
<1>1. /\ r \in Records /\ r \in KeyRecords /\ (r.pressed <=> k \notin down)
      /\ action_tapping_process(r) /\ Comes(Now, r, down, down', Left)
  BY KeyComes DEF OneKeyInv
<1> HIDE DEF r
<1>2. ~Overflows(r)
  BY <1>1, ActionParts
<1>3. TapInv(tapping_key, waiting_buffer, active, down, {})
  <2>1. Ready(Now, r, Left)
    BY <1>0, <1>1, NowTypes, EventReady
  <2>2. LET u == Queued(r) IN LoopInv(u.tk, u.buf, u.on, down', Left, moved')
    BY <1>0, <1>1, <1>2, QueuedGood
  <2> QED BY <1>1, <2>1, <2>2, NothingLeft
<1>4. Comes(Now, r, down, down', {})
  BY <1>3, KeyComes DEF r
<1>5. PICK d \in States : d = Drain(Queued(r)) /\ processed' = d.out
  <2>1. Queued(r) \in States /\ Len(Queued(r).buf) < WAITING_BUFFER_SIZE
    BY <1>0, <1>1, QueuedTypes
  <2> QED BY <1>1, <2>1, DrainTypes, ActionParts
<1>6. Matched(active, d, {})
  <2>1. Ready(Now, r, {}) /\ TapInv(Now.tk, Now.buf, Now.on, down, {})
    BY <1>0, <1>1, <1>3, <1>4, NowTypes, EventReady
  <2>2. LET u == Queued(r) IN LoopInv(u.tk, u.buf, u.on, down', {}, moved')
    BY <1>0, <1>1, <1>2, <1>4, QueuedGood
  <2> QED BY <1>0, <1>1, <1>2, <1>5, <2>1, <2>2, CallEmits
<1> QED BY <1>5, <1>6, MatchedReleases

LEMMA TickEventMatches ==
  ASSUME OneKeyInv, TickEvent, ~lost'
  PROVE  ReleasesMatch(active, processed')
<1> DEFINE r == Event(NoKey, FALSE, now)
<1>0. TypeOK /\ OneTapKey
  BY DEF OneKeyInv
<1>1. r \in Records /\ r.key = NoKey /\ IS_NOEVENT(r) /\ action_tapping_process(r)
  <2>1. r \in Records
    BY <1>0, RecordFacts DEF TypeOK
  <2> QED BY <2>1 DEF Event, IS_NOEVENT, TickEvent
<1> HIDE DEF r
<1>2. ~Overflows(r) /\ Queued(r) = Looked(r).s
  BY <1>1 DEF Overflows, Queued
<1>3. ASSUME NEW L, TapInv(tapping_key, waiting_buffer, active, down, L)
      PROVE  /\ Ready(Now, r, L) /\ TapInv(Now.tk, Now.buf, Now.on, down, L)
             /\ LET u == Queued(r) IN LoopInv(u.tk, u.buf, u.on, down, L, {})
  <2>1. TapInv(Now.tk, Now.buf, Now.on, down, L) /\ Rests(Now.tk, Now.buf, down, moved)
    BY <1>0, <1>3, NowTypes DEF OneKeyInv
  <2>2. Ready(Now, r, L)
    BY <1>1 DEF Ready
  <2> QED BY <1>0, <1>1, <1>2, <2>1, <2>2, NowTypes, TickStep DEF Looked
<1>4. TapInv(tapping_key, waiting_buffer, active, down, {})
  <2>1. TapInv(tapping_key, waiting_buffer, active, down, Left)
    BY DEF OneKeyInv
  <2>2. Ready(Now, r, Left) /\ LET u == Queued(r) IN LoopInv(u.tk, u.buf, u.on, down, Left, {})
    BY <1>3, <2>1
  <2> QED BY <1>1, <2>2, NothingLeft
<1>5. PICK d \in States : d = Drain(Queued(r)) /\ processed' = d.out
  <2>1. Queued(r) \in States /\ Len(Queued(r).buf) < WAITING_BUFFER_SIZE
    BY <1>0, <1>1, QueuedTypes
  <2> QED BY <1>1, <2>1, DrainTypes, ActionParts
<1>6. Matched(active, d, {})
  <2>1. /\ Ready(Now, r, {}) /\ TapInv(Now.tk, Now.buf, Now.on, down, {})
        /\ LET u == Queued(r) IN LoopInv(u.tk, u.buf, u.on, down, {}, {})
    BY <1>3, <1>4
  <2> QED BY <1>0, <1>1, <1>2, <1>5, <2>1, CallEmits
<1> QED BY <1>5, <1>6, MatchedReleases

\* On every keyboard with one tap-hold key, whatever the options, the terms and the
\* size of the buffer, and whatever waits: each press is processed while nothing of
\* its key is on, and each release leaves nothing of its key on, unless the buffer
\* overflowed.
THEOREM ReleasesGoToTheirPresses == Spec => ReleaseMatchesPress
<1>1. IfOneKey /\ [Next]_vars /\ ~UNCHANGED vars
        => (OneTapKey /\ ~lost' => ReleasesMatch(active, processed'))
  <2> SUFFICES ASSUME OneKeyInv, Next, ~lost' PROVE ReleasesMatch(active, processed')
    BY DEF IfOneKey
  <2>1. CASE Pass
    <3>1. processed' = <<>> /\ Len(<<>>) = 0
      BY <2>1 DEF Pass
    <3> QED BY <3>1 DEF ReleasesMatch
  <2> QED BY <2>1, KeyEventMatches, TickEventMatches DEF Next
<1>2. IfOneKey /\ [Next]_vars =>
        [OneTapKey /\ ~lost' =>
           LET on == After(active, processed')
           IN \A i \in 1 .. Len(processed') :
                 EffectsOf(processed'[i].key,
                           IF processed'[i].pressed THEN on[i - 1] ELSE on[i]) = {}]_vars
  BY <1>1 DEF ReleasesMatch
<1> QED BY <1>2, InitIfOneKey, StepsKeepIfOneKey, PTL DEF Spec, ReleaseMatchesPress
=============================================================================
