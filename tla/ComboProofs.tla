---------------------------- MODULE ComboProofs -----------------------------
(***************************************************************************)
(* Combos: the buffers keep their bounds for every set of combos.  When    *)
(* every two combos share a key, or no two do, and the buffers have room   *)
(* for their keys, no press is lost and nothing stays down.                *)
(***************************************************************************)
EXTENDS Combo, OrderLemmas, FiniteSetTheorems, TLAPS

-----------------------------------------------------------------------------
(* Types.                                                                  *)

\* A press that has become a combo names it.
Slots == {x \in Queued : x.as = "combo" => x.combo \in Combos}

\* The states of process_combo.c whose buffers are within their bounds.
Bounded == {s \in State : /\ s.keys \in Seq(Slots) /\ Len(s.keys) <= COMBO_KEY_BUFFER_LENGTH
                          /\ Len(s.combos) < COMBO_BUFFER_LENGTH}

LEMMA FieldTypes ==
  ASSUME NEW s \in State
  PROVE  /\ s.active \in SUBSET Combos /\ s.disabled \in SUBSET Combos
         /\ s.held \in [Combos -> SUBSET Keys] /\ s.keys \in Seq(Queued)
         /\ s.combos \in Seq(Combos) /\ s.timer \in 0 .. TimerRange - 1
         /\ s.term \in {0, COMBO_TERM, COMBO_HOLD_TERM} /\ s.on \in BOOLEAN
         /\ s.keysOut \in SUBSET Keys /\ s.combosOut \in SUBSET Combos
         /\ s.lost \in SUBSET Keys /\ Len(s.keys) \in Nat /\ Len(s.combos) \in Nat
BY DEF State

LEMMA ComboTypes ==
  /\ Len(ComboKeys) \in Nat /\ \A i \in Combos : ComboKeys[i] \in SUBSET Keys /\ i \in Nat
  /\ 0 \in {0, COMBO_TERM, COMBO_HOLD_TERM}
BY ComboAssumption DEF Combos

\* The updates of a state that leave the buffers alone.
LEMMA FlagTypes ==
  ASSUME NEW s \in Bounded
  PROVE  /\ \A a \in SUBSET Combos : [s EXCEPT !.disabled = a] \in Bounded
         /\ \A h \in [Combos -> SUBSET Keys] : [s EXCEPT !.held = h] \in Bounded
         /\ \A h \in [Combos -> SUBSET Keys], t \in {0, COMBO_TERM, COMBO_HOLD_TERM} :
              [s EXCEPT !.held = h, !.term = t] \in Bounded
         /\ \A a \in SUBSET Combos, h \in [Combos -> SUBSET Keys] :
              [s EXCEPT !.term = 0, !.disabled = a, !.held = h] \in Bounded
         /\ \A a, c \in SUBSET Combos : [s EXCEPT !.combosOut = c, !.active = a] \in Bounded
         /\ \A t \in 0 .. TimerRange - 1 : [s EXCEPT !.timer = t] \in Bounded
         /\ [s EXCEPT !.on = TRUE] \in Bounded
         /\ \A ko \in SUBSET Keys : [s EXCEPT !.keysOut = ko] \in Bounded
         /\ \A ko, l \in SUBSET Keys : [s EXCEPT !.keysOut = ko, !.lost = l] \in Bounded
         /\ \A l \in SUBSET Keys : [s EXCEPT !.lost = l] \in Bounded
BY DEF Bounded, State

\* The updates that do not.
LEMMA BufferTypes ==
  ASSUME NEW s \in Bounded
  PROVE  /\ \A ks \in Seq(Slots) : Len(ks) <= COMBO_KEY_BUFFER_LENGTH =>
              /\ [s EXCEPT !.keys = ks] \in Bounded
              /\ \A ko \in SUBSET Keys, c \in SUBSET Combos :
                   /\ [s EXCEPT !.keys = ks, !.keysOut = ko, !.combosOut = c] \in Bounded
                   /\ [s EXCEPT !.keys = ks, !.active = c, !.lost = ko] \in Bounded
         /\ \A r \in Seq(Combos) : Len(r) < COMBO_BUFFER_LENGTH =>
              /\ \A a \in SUBSET Combos : [s EXCEPT !.disabled = a, !.combos = r] \in Bounded
              /\ \A t \in {0, COMBO_TERM, COMBO_HOLD_TERM} :
                   [s EXCEPT !.combos = r, !.term = t] \in Bounded
              /\ [s EXCEPT !.timer = 0, !.on = FALSE, !.combos = r] \in Bounded
<1>1. 0 \in 0 .. TimerRange - 1
  BY SizeAssumption
<1>2. Seq(Slots) \subseteq Seq(Queued)
  BY DEF Slots
<1>3. \A ks \in Seq(Slots) : Len(ks) <= COMBO_KEY_BUFFER_LENGTH =>
         /\ [s EXCEPT !.keys = ks] \in Bounded
         /\ \A ko \in SUBSET Keys, c \in SUBSET Combos :
              /\ [s EXCEPT !.keys = ks, !.keysOut = ko, !.combosOut = c] \in Bounded
              /\ [s EXCEPT !.keys = ks, !.active = c, !.lost = ko] \in Bounded
  BY <1>2, SMT, ZenonT(60) DEF Bounded, State
<1>4. \A r \in Seq(Combos) : Len(r) < COMBO_BUFFER_LENGTH =>
         /\ \A a \in SUBSET Combos : [s EXCEPT !.disabled = a, !.combos = r] \in Bounded
         /\ \A t \in {0, COMBO_TERM, COMBO_HOLD_TERM} :
              [s EXCEPT !.combos = r, !.term = t] \in Bounded
         /\ [s EXCEPT !.timer = 0, !.on = FALSE, !.combos = r] \in Bounded
  BY <1>1, SMT, ZenonT(60) DEF Bounded, State
<1> QED BY <1>3, <1>4

LEMMA ReleaseComboTypes ==
  ASSUME NEW s \in Bounded, NEW i \in Combos
  PROVE  release_combo(s, i) \in Bounded
BY FieldTypes, FlagTypes DEF Bounded, release_combo

LEMMA ClearTypes ==
  ASSUME NEW s \in Bounded
  PROVE  clear_combos(s) \in Bounded
<1> DEFINE h == [i \in Combos |-> IF i \in s.active THEN s.held[i] ELSE {}]
<1>1. h \in [Combos -> SUBSET Keys]
  BY FieldTypes DEF Bounded
<1>2. s.disabled \cap s.active \in SUBSET Combos
  BY FieldTypes DEF Bounded
<1> HIDE DEF h
<1>3. [s EXCEPT !.term = 0, !.disabled = s.disabled \cap s.active, !.held = h] \in Bounded
  BY <1>1, <1>2, FlagTypes, ComboTypes
<1> QED BY <1>3 DEF clear_combos, h

LEMMA RangeTypes ==
  ASSUME NEW S, NEW r \in Seq(S)
  PROVE  Range(r) \subseteq S /\ Range(r) = {r[n] : n \in 1 .. Len(r)} /\ <<>> \in Seq(S) /\ Len(<<>>) = 0
BY DEF Range

LEMMA DumpTypes ==
  ASSUME NEW s \in Bounded
  PROVE  dump_key_buffer(s) \in Bounded
<1> DEFINE ko == s.keysOut \cup {r.key : r \in {x \in Range(s.keys) : x.as = "key"}}
           co == s.combosOut \cup {r.combo : r \in {x \in Range(s.keys) : x.as = "combo"}}
<1>1. Range(s.keys) \subseteq Slots
  BY RangeTypes DEF Bounded
<1>2. ko \in SUBSET Keys
  BY <1>1, FieldTypes DEF Bounded, Slots, Queued
<1>3. co \in SUBSET Combos
  BY <1>1, FieldTypes DEF Bounded, Slots, Queued
<1>4. <<>> \in Seq(Slots) /\ Len(<<>>) <= COMBO_KEY_BUFFER_LENGTH
  BY SizeAssumption
<1> HIDE DEF ko, co
<1>5. [s EXCEPT !.keys = <<>>, !.keysOut = ko, !.combosOut = co] \in Bounded
  BY <1>2, <1>3, <1>4, BufferTypes
<1> QED BY <1>5 DEF dump_key_buffer, ko, co

LEMMA DropTypes ==
  ASSUME NEW s \in Bounded, NEW i \in Combos
  PROVE  drop_combo_from_buffer(s, i) \in Bounded
<1>1. CASE i \notin Range(s.combos)
  BY <1>1 DEF drop_combo_from_buffer
<1>2. CASE i \in Range(s.combos)
  <2> DEFINE r == IF Head(s.combos) = i THEN Tail(s.combos) ELSE s.combos
             a == s.disabled \cup {i}
  <2>1. s.combos \in Seq(Combos) /\ Len(s.combos) < COMBO_BUFFER_LENGTH /\ a \in SUBSET Combos
    BY FieldTypes DEF Bounded
  <2>2. s.combos # <<>>
    BY <1>2 DEF Range
  <2>3. r \in Seq(Combos) /\ Len(r) < COMBO_BUFFER_LENGTH
    BY <2>1, <2>2, SizeAssumption
  <2> HIDE DEF r, a
  <2>4. [s EXCEPT !.disabled = a, !.combos = r] \in Bounded
    BY <2>1, <2>3, BufferTypes
  <2> QED BY <1>2, <2>4 DEF drop_combo_from_buffer, r, a
<1> QED BY <1>1, <1>2

LEMMA ApplyKeysTypes ==
  ASSUME NEW s \in Bounded, NEW i \in Combos
  PROVE  ApplyKeys(s, i) \in Bounded
<1> DEFINE seen(n) == {s.keys[m].key : m \in 1 .. n} \cap ComboKeys[i]
           completes(n) == seen(n) = ComboKeys[i] /\ seen(n - 1) # ComboKeys[i]
           mine(n) == s.keys[n].key \in ComboKeys[i] /\ seen(n - 1) # ComboKeys[i]
           fires == \E n \in DOMAIN s.keys : completes(n)
           ks == [n \in DOMAIN s.keys |->
                    IF completes(n) THEN [s.keys[n] EXCEPT !.as = "combo", !.combo = i]
                    ELSE IF mine(n) THEN [s.keys[n] EXCEPT !.as = "tick"]
                    ELSE s.keys[n]]
           a == IF fires THEN s.active \cup {i} ELSE s.active
           l == IF fires THEN s.lost ELSE s.lost \cup seen(Len(s.keys))
<1>1. PICK m \in Nat : m = Len(s.keys) /\ s.keys \in [1 .. m -> Slots] /\ DOMAIN s.keys = 1 .. m
  BY FieldTypes DEF Bounded
<1>2. ASSUME NEW x \in Slots
      PROVE  [x EXCEPT !.as = "combo", !.combo = i] \in Slots /\ [x EXCEPT !.as = "tick"] \in Slots
  BY DEF Slots, Queued
<1>3. ks \in [1 .. m -> Slots]
  <2> HIDE DEF completes, mine
  <2> QED BY <1>1, <1>2
<1>4. a \in SUBSET Combos
  BY FieldTypes DEF Bounded
<1>5. l \in SUBSET Keys
  <2>1. ComboKeys[i] \in SUBSET Keys
    BY ComboTypes
  <2>2. seen(Len(s.keys)) \in SUBSET Keys
    BY <2>1
  <2> HIDE DEF fires, seen
  <2> QED BY <2>2, FieldTypes DEF Bounded
<1>6. ks \in Seq(Slots) /\ Len(ks) <= COMBO_KEY_BUFFER_LENGTH
  <2> HIDE DEF ks
  <2> QED BY <1>1, <1>3 DEF Bounded
<1>7. ApplyKeys(s, i) = [s EXCEPT !.keys = ks, !.active = a, !.lost = l]
  BY DEF ApplyKeys
<1> HIDE DEF ks, a, l
<1>8. [s EXCEPT !.keys = ks, !.active = a, !.lost = l] \in Bounded
  BY <1>4, <1>5, <1>6, BufferTypes
<1> QED BY <1>7, <1>8

LEMMA ApplyComboTypes ==
  ASSUME NEW s \in Bounded, NEW i \in Combos
  PROVE  apply_combo(s, i) \in Bounded
BY ApplyKeysTypes, DropTypes DEF apply_combo

-----------------------------------------------------------------------------
(* apply_combos, one queued combo at a time.                               *)

ApplyTurn(s, p, j) ==
  LET i == s.combos[j]
  IN IF i \in MustTap THEN drop_combo_from_buffer(p, i) ELSE apply_combo(p, i)

\* The turns of the loop are well defined.
LEMMA ApplyTurns ==
  ASSUME NEW s \in State
  PROVE  \E f : /\ f[0] = s /\ \A j \in 1 .. Len(s.combos) : f[j] = ApplyTurn(s, f[j - 1], j)
                /\ apply_combos(s) = clear_combos(dump_key_buffer(f[Len(s.combos)]))
<1> DEFINE Turns(f, n) == f = [j \in 0 .. n |-> IF j = 0 THEN s ELSE ApplyTurn(s, f[j - 1], j)]
           G == {n \in Nat : \E f : Turns(f, n)}
<1>1. PICK l \in Nat : l = Len(s.combos)
  BY FieldTypes
<1>2. 0 \in G
  <2>1. Turns([j \in 0 .. 0 |-> s], 0)
    OBVIOUS
  <2> QED BY <2>1
<1>3. ASSUME NEW m \in 1 .. l, m - 1 \in G
      PROVE  m \in G
  <2>1. PICK f : Turns(f, m - 1)
    BY <1>3
  <2> DEFINE g == [j \in 0 .. m |-> IF j = m THEN ApplyTurn(s, f[m - 1], m) ELSE f[j]]
  <2>2. ASSUME NEW j \in 0 .. m
        PROVE  g[j] = IF j = 0 THEN s ELSE ApplyTurn(s, g[j - 1], j)
    BY <2>1
  <2>3. Turns(g, m)
    BY <2>2
  <2> HIDE DEF g, Turns
  <2> QED BY <2>3
<1>4. l \in G
  <2> HIDE DEF G
  <2> QED BY <1>2, <1>3, UpTo
<1> DEFINE f == CHOOSE g : Turns(g, Len(s.combos))
<1>5. Turns(f, Len(s.combos))
  BY <1>1, <1>4
<1>6. f[0] = s /\ \A j \in 1 .. Len(s.combos) : f[j] = ApplyTurn(s, f[j - 1], j)
  <2> HIDE DEF f
  <2> QED BY <1>1, <1>5, SMTT(30)
<1>7. apply_combos(s) = clear_combos(dump_key_buffer(f[Len(s.combos)]))
  BY DEF apply_combos, ApplyTurn
<1> HIDE DEF f
<1> QED BY <1>6, <1>7

LEMMA ApplyCombosTypes ==
  ASSUME NEW s \in Bounded
  PROVE  apply_combos(s) \in Bounded
<1>0. s \in State
  BY DEF Bounded
<1>1. PICK f : /\ f[0] = s /\ \A j \in 1 .. Len(s.combos) : f[j] = ApplyTurn(s, f[j - 1], j)
               /\ apply_combos(s) = clear_combos(dump_key_buffer(f[Len(s.combos)]))
  BY <1>0, ApplyTurns
<1>2. PICK l \in Nat : l = Len(s.combos) /\ \A j \in 1 .. l : s.combos[j] \in Combos
  BY <1>0, FieldTypes
<1> DEFINE G == {j \in 0 .. l : f[j] \in Bounded}
<1>3. ASSUME NEW j \in 1 .. l, j - 1 \in G
      PROVE  j \in G
  <2>1. f[j - 1] \in Bounded /\ s.combos[j] \in Combos
    BY <1>2, <1>3
  <2>2. ApplyTurn(s, f[j - 1], j) \in Bounded
    BY <2>1, DropTypes, ApplyComboTypes DEF ApplyTurn
  <2> QED BY <1>1, <1>2, <2>2
<1>4. l \in G
  <2>1. 0 \in G
    BY <1>1
  <2> HIDE DEF G
  <2> QED BY <2>1, <1>3, UpTo
<1>5. f[l] \in Bounded
  BY <1>4
<1> QED BY <1>1, <1>2, <1>5, DumpTypes, ClearTypes

-----------------------------------------------------------------------------
(* QueueCombo, one queued combo at a time.                                 *)

QueueTurn(s, i, t, j) ==
  LET b == s.combos[j]
      first == Len(t.s.combos) = Len(s.combos) - (j - 1)
      drop == overlaps(b, i)
  IN IF t.mine \/ drop = 0 THEN t
     ELSE [mine |-> drop = i,
           s |-> [t.s EXCEPT !.disabled = @ \cup {drop},
                    !.combos = IF drop = b /\ drop # i /\ first THEN Tail(@) ELSE @]]

Queue(s, i, done) ==
  IF done.mine THEN done.s
  ELSE [done.s EXCEPT !.combos = RingAppend(@, i), !.term = WaitTime(i, @)]

\* The turns of the loop are well defined.
LEMMA QueueTurns ==
  ASSUME NEW s \in State, NEW i \in Combos
  PROVE  \E f : /\ f[0] = [s |-> s, mine |-> FALSE]
                /\ \A j \in 1 .. Len(s.combos) : f[j] = QueueTurn(s, i, f[j - 1], j)
                /\ QueueCombo(s, i) = Queue(s, i, f[Len(s.combos)])
<1> DEFINE z == [s |-> s, mine |-> FALSE]
           Turns(f, n) == f = [j \in 0 .. n |-> IF j = 0 THEN z ELSE QueueTurn(s, i, f[j - 1], j)]
           G == {n \in Nat : \E f : Turns(f, n)}
<1>1. PICK l \in Nat : l = Len(s.combos)
  BY FieldTypes
<1>2. 0 \in G
  <2>1. Turns([j \in 0 .. 0 |-> z], 0)
    OBVIOUS
  <2> QED BY <2>1
<1>3. ASSUME NEW m \in 1 .. l, m - 1 \in G
      PROVE  m \in G
  <2> HIDE DEF z
  <2>1. PICK f : Turns(f, m - 1)
    BY <1>3
  <2> DEFINE g == [j \in 0 .. m |-> IF j = m THEN QueueTurn(s, i, f[m - 1], m) ELSE f[j]]
  <2>2. ASSUME NEW j \in 0 .. m
        PROVE  g[j] = IF j = 0 THEN z ELSE QueueTurn(s, i, g[j - 1], j)
    BY <2>1
  <2>3. Turns(g, m)
    BY <2>2
  <2> HIDE DEF g, Turns
  <2> QED BY <2>3
<1>4. l \in G
  <2> HIDE DEF G
  <2> QED BY <1>2, <1>3, UpTo
<1> DEFINE f == CHOOSE g : Turns(g, Len(s.combos))
<1>5. Turns(f, Len(s.combos))
  BY <1>1, <1>4
<1>6. f[0] = z /\ \A j \in 1 .. Len(s.combos) : f[j] = QueueTurn(s, i, f[j - 1], j)
  <2> HIDE DEF f, z
  <2> QED BY <1>1, <1>5, SMTT(30)
<1>7. QueueCombo(s, i) = Queue(s, i, f[Len(s.combos)])
  BY DEF QueueCombo, QueueTurn, Queue
<1> HIDE DEF f
<1> QED BY <1>6, <1>7

LEMMA OverlapsIsOne ==
  ASSUME NEW i \in Combos, NEW j \in Combos
  PROVE  overlaps(i, j) = 0 \/ overlaps(i, j) \in {i, j}
BY DEF overlaps

LEMMA QueueTurnTypes ==
  ASSUME NEW s \in Bounded, NEW i \in Combos, NEW t, t.s \in Bounded, t.mine \in BOOLEAN,
         NEW j \in 1 .. Len(s.combos)
  PROVE  QueueTurn(s, i, t, j).s \in Bounded /\ QueueTurn(s, i, t, j).mine \in BOOLEAN
<1>1. PICK b \in Combos : b = s.combos[j]
  BY FieldTypes DEF Bounded
<1>2. PICK drop : drop = overlaps(b, i)
  OBVIOUS
<1>3. CASE t.mine \/ drop = 0
  BY <1>1, <1>2, <1>3 DEF QueueTurn
<1>4. CASE ~(t.mine \/ drop = 0)
  <2> DEFINE first == Len(t.s.combos) = Len(s.combos) - (j - 1)
             r == IF drop = b /\ drop # i /\ first THEN Tail(t.s.combos) ELSE t.s.combos
             a == t.s.disabled \cup {drop}
  <2>1. a \in SUBSET Combos
    <3>1. drop \in Combos
      BY <1>2, <1>4, OverlapsIsOne
    <3> QED BY <3>1, FieldTypes DEF Bounded
  <2>2. t.s.combos \in Seq(Combos) /\ Len(t.s.combos) < COMBO_BUFFER_LENGTH
    BY FieldTypes DEF Bounded
  <2>3. r \in Seq(Combos) /\ Len(r) < COMBO_BUFFER_LENGTH
    <3>1. CASE first
      <4>1. Len(s.combos) \in Nat /\ Len(s.combos) - (j - 1) > 0
        BY FieldTypes DEF Bounded
      <4>2. t.s.combos # <<>>
        BY <3>1, <4>1
      <4> QED BY <2>2, <4>2, SizeAssumption
    <3>2. CASE ~first
      BY <3>2, <2>2
    <3> QED BY <3>1, <3>2
  <2>4. QueueTurn(s, i, t, j) = [mine |-> drop = i,
                                 s |-> [t.s EXCEPT !.disabled = a, !.combos = r]]
    BY <1>1, <1>2, <1>4 DEF QueueTurn
  <2> HIDE DEF r, a
  <2>5. [t.s EXCEPT !.disabled = a, !.combos = r] \in Bounded
    BY <2>1, <2>3, BufferTypes
  <2> QED BY <2>4, <2>5
<1> QED BY <1>3, <1>4

LEMMA QueueComboTypes ==
  ASSUME NEW s \in Bounded, NEW i \in Combos
  PROVE  QueueCombo(s, i) \in Bounded
<1>0. s \in State
  BY DEF Bounded
<1>1. PICK f : /\ f[0] = [s |-> s, mine |-> FALSE]
               /\ \A j \in 1 .. Len(s.combos) : f[j] = QueueTurn(s, i, f[j - 1], j)
               /\ QueueCombo(s, i) = Queue(s, i, f[Len(s.combos)])
  BY <1>0, QueueTurns
<1>2. PICK l \in Nat : l = Len(s.combos)
  BY <1>0, FieldTypes
<1> DEFINE G == {j \in 0 .. l : f[j].s \in Bounded /\ f[j].mine \in BOOLEAN}
<1>3. ASSUME NEW j \in 1 .. l, j - 1 \in G
      PROVE  j \in G
  <2>1. f[j - 1].s \in Bounded /\ f[j - 1].mine \in BOOLEAN /\ j \in 1 .. Len(s.combos)
    BY <1>2, <1>3
  <2>2. QueueTurn(s, i, f[j - 1], j).s \in Bounded /\ QueueTurn(s, i, f[j - 1], j).mine \in BOOLEAN
    BY <2>1, QueueTurnTypes
  <2> QED BY <1>1, <2>1, <2>2
<1>4. l \in G
  <2>1. f[0].s \in Bounded /\ f[0].mine \in BOOLEAN
    BY <1>1
  <2>2. 0 \in G
    BY <2>1
  <2> HIDE DEF G
  <2> QED BY <2>2, <1>3, UpTo
<1>5. PICK done : done = f[l] /\ done.s \in Bounded
  BY <1>4
<1> DEFINE r == RingAppend(done.s.combos, i)
           t == WaitTime(i, done.s.term)
<1>6. r \in Seq(Combos) /\ Len(r) < COMBO_BUFFER_LENGTH
  <2>1. done.s.combos \in Seq(Combos) /\ Len(done.s.combos) \in Nat
    BY <1>5, FieldTypes DEF Bounded
  <2> QED BY <2>1, SizeAssumption DEF RingAppend
<1>7. t \in {0, COMBO_TERM, COMBO_HOLD_TERM}
  BY <1>5, FieldTypes DEF WaitTime, Bounded
<1> HIDE DEF r, t
<1>8. [done.s EXCEPT !.combos = r, !.term = t] \in Bounded
  BY <1>5, <1>6, <1>7, BufferTypes
<1>9. Queue(s, i, done) \in Bounded
  BY <1>5, <1>8 DEF Queue, r, t
<1> QED BY <1>1, <1>2, <1>5, <1>9

-----------------------------------------------------------------------------
(* process_single_combo and the steps.                                     *)

LEMMA HeldTypes ==
  ASSUME NEW s \in Bounded, NEW i \in Combos, NEW k \in Keys
  PROVE  /\ [s EXCEPT !.held[i] = @ \ {k}] \in Bounded
         /\ [s EXCEPT !.held[i] = @ \ {k}] = [s EXCEPT !.held = [s.held EXCEPT ![i] = s.held[i] \ {k}]]
<1>1. [s.held EXCEPT ![i] = s.held[i] \ {k}] \in [Combos -> SUBSET Keys]
  BY FieldTypes DEF Bounded
<1>2. [s EXCEPT !.held[i] = @ \ {k}] = [s EXCEPT !.held = [s.held EXCEPT ![i] = s.held[i] \ {k}]]
  OBVIOUS
<1> QED BY <1>1, <1>2, FlagTypes

\* The combo that may still take k notes it.
Noted(s, i, k) ==
  IF i \in s.active THEN s
  ELSE [s EXCEPT !.held[i] = @ \cup {k},
                 !.term = IF @ < COMBO_TERM THEN COMBO_TERM ELSE @]

LEMMA NotedTypes ==
  ASSUME NEW s \in Bounded, NEW i \in Combos, NEW k \in Keys
  PROVE  Noted(s, i, k) \in Bounded
<1> DEFINE h == [s.held EXCEPT ![i] = s.held[i] \cup {k}]
           t == IF s.term < COMBO_TERM THEN COMBO_TERM ELSE s.term
<1>1. h \in [Combos -> SUBSET Keys]
  BY FieldTypes DEF Bounded
<1>2. t \in {0, COMBO_TERM, COMBO_HOLD_TERM}
  BY FieldTypes DEF Bounded
<1>3. Noted(s, i, k) = IF i \in s.active THEN s ELSE [s EXCEPT !.held = h, !.term = t]
  BY DEF Noted
<1> HIDE DEF h, t
<1>4. [s EXCEPT !.held = h, !.term = t] \in Bounded
  BY <1>1, <1>2, FlagTypes
<1> QED BY <1>3, <1>4

LEMMA ComboPressTypes ==
  ASSUME NEW s \in Bounded, NEW i \in Combos, NEW k \in Keys
  PROVE  ComboPress(s, i, k) \in Bounded
<1>1. PICK t \in Bounded : t = Noted(s, i, k)
  BY NotedTypes
<1>2. ComboPress(s, i, k) =
        IF ~AllDown(t, i) THEN t
        ELSE IF t.timer # 0 /\ timer_elapsed(t.timer) > COMBO_TERM
        THEN [t EXCEPT !.disabled = t.disabled \cup {i}]
        ELSE QueueCombo(t, i)
  BY <1>1 DEF ComboPress, Noted
<1>3. [t EXCEPT !.disabled = t.disabled \cup {i}] \in Bounded
  <2>1. t.disabled \cup {i} \in SUBSET Combos
    BY FieldTypes DEF Bounded
  <2> QED BY <2>1, FlagTypes
<1> QED BY <1>2, <1>3, QueueComboTypes

LEMMA ComboReleaseTypes ==
  ASSUME NEW s \in Bounded, NEW i \in Combos, NEW k \in Keys
  PROVE  ComboRelease(s, i, k).s \in Bounded /\ ComboRelease(s, i, k).mine \in BOOLEAN
<1> DEFINE up(t) == [t EXCEPT !.held[i] = @ \ {k}]
<1>1. \A t \in Bounded : up(t) \in Bounded
  BY HeldTypes
<1>2. s.on \in BOOLEAN
  BY FieldTypes DEF Bounded
<1>3. /\ up(s) \in Bounded /\ up(drop_combo_from_buffer(s, i)) \in Bounded
      /\ up(apply_combos(apply_combo(s, i))) \in Bounded /\ up(release_combo(s, i)) \in Bounded
  <2> HIDE DEF up
  <2> QED BY <1>1, DropTypes, ApplyComboTypes, ApplyCombosTypes, ReleaseComboTypes
<1> QED BY <1>2, <1>3 DEF ComboRelease

LEMMA SingleComboTypes ==
  ASSUME NEW s \in Bounded, NEW i \in Combos, NEW k \in Keys, NEW p \in BOOLEAN
  PROVE  /\ process_single_combo(s, i, k, p).s \in Bounded
         /\ process_single_combo(s, i, k, p).mine \in BOOLEAN
BY ComboPressTypes, ComboReleaseTypes DEF process_single_combo

\* Every combo in turn.
SingleTurn(k, p, t, i) ==
  LET r == process_single_combo(t.s, i, k, p)
  IN [s |-> r.s, mine |-> t.mine \/ r.mine]

LEMMA SingleTurns ==
  ASSUME NEW k, NEW p
  PROVE  \E f : /\ f[0] = [s |-> q, mine |-> FALSE]
                /\ \A i \in Combos : f[i] = SingleTurn(k, p, f[i - 1], i)
                /\ SingleCombos(k, p) = f[Len(ComboKeys)]
<1> DEFINE z == [s |-> q, mine |-> FALSE]
           Turns(f, n) == f = [i \in 0 .. n |-> IF i = 0 THEN z ELSE SingleTurn(k, p, f[i - 1], i)]
           G == {n \in Nat : \E f : Turns(f, n)}
<1>1. PICK l \in Nat : l = Len(ComboKeys)
  BY ComboTypes
<1>2. 0 \in G
  <2>1. Turns([j \in 0 .. 0 |-> z], 0)
    OBVIOUS
  <2> QED BY <2>1
<1>3. ASSUME NEW m \in 1 .. l, m - 1 \in G
      PROVE  m \in G
  <2> HIDE DEF z
  <2>1. PICK f : Turns(f, m - 1)
    BY <1>3
  <2> DEFINE g == [j \in 0 .. m |-> IF j = m THEN SingleTurn(k, p, f[m - 1], m) ELSE f[j]]
  <2>2. ASSUME NEW j \in 0 .. m
        PROVE  g[j] = IF j = 0 THEN z ELSE SingleTurn(k, p, g[j - 1], j)
    BY <2>1
  <2>3. Turns(g, m)
    BY <2>2
  <2> HIDE DEF g, Turns
  <2> QED BY <2>3
<1>4. l \in G
  <2> HIDE DEF G
  <2> QED BY <1>2, <1>3, UpTo
<1> DEFINE f == CHOOSE g : Turns(g, Len(ComboKeys))
<1>5. Turns(f, Len(ComboKeys))
  BY <1>1, <1>4
<1>6. f[0] = z /\ \A i \in Combos : f[i] = SingleTurn(k, p, f[i - 1], i)
  <2> HIDE DEF f, z
  <2> QED BY <1>1, <1>5 DEF Combos
<1>7. SingleCombos(k, p) = f[Len(ComboKeys)]
  BY DEF SingleCombos, SingleTurn
<1> HIDE DEF f
<1> QED BY <1>6, <1>7

LEMMA SingleCombosTypes ==
  ASSUME q \in Bounded, NEW k \in Keys, NEW p \in BOOLEAN
  PROVE  SingleCombos(k, p).s \in Bounded /\ SingleCombos(k, p).mine \in BOOLEAN
<1>1. PICK f : /\ f[0] = [s |-> q, mine |-> FALSE]
               /\ \A i \in Combos : f[i] = SingleTurn(k, p, f[i - 1], i)
               /\ SingleCombos(k, p) = f[Len(ComboKeys)]
  BY SingleTurns, ZenonT(40)
<1>2. PICK l \in Nat : l = Len(ComboKeys)
  BY ComboTypes
<1> DEFINE G == {i \in 0 .. l : f[i].s \in Bounded /\ f[i].mine \in BOOLEAN}
<1>3. ASSUME NEW i \in 1 .. l, i - 1 \in G
      PROVE  i \in G
  <2>1. f[i - 1].s \in Bounded /\ f[i - 1].mine \in BOOLEAN /\ i \in Combos
    BY <1>2, <1>3 DEF Combos
  <2>2. SingleTurn(k, p, f[i - 1], i).s \in Bounded /\ SingleTurn(k, p, f[i - 1], i).mine \in BOOLEAN
    BY <2>1, SingleComboTypes DEF SingleTurn
  <2> QED BY <1>1, <2>1, <2>2
<1>4. l \in G
  <2>1. f[0].s \in Bounded /\ f[0].mine \in BOOLEAN
    BY <1>1
  <2>2. 0 \in G
    BY <2>1
  <2> HIDE DEF G
  <2> QED BY <2>2, <1>3, UpTo
<1> QED BY <1>1, <1>2, <1>4

LEMMA FlushTypes ==
  ASSUME NEW s \in Bounded
  PROVE  Flush(s) \in Bounded /\ clear_combos([dump_key_buffer(s) EXCEPT !.timer = 0]) \in Bounded
<1>1. PICK d \in Bounded : d = dump_key_buffer(s)
  BY DumpTypes
<1>2. 0 \in 0 .. TimerRange - 1
  BY SizeAssumption
<1>3. [d EXCEPT !.timer = 0] \in Bounded
  BY <1>2, FlagTypes
<1>4. clear_combos([dump_key_buffer(s) EXCEPT !.timer = 0]) \in Bounded
  BY <1>1, <1>3, ClearTypes
<1> QED BY <1>4, ApplyCombosTypes DEF Flush

LEMMA ToggleTypes ==
  ASSUME NEW s \in Bounded
  PROVE  combo_toggle(s) \in Bounded
<1>1. <<>> \in Seq(Combos) /\ Len(<<>>) < COMBO_BUFFER_LENGTH
  BY SizeAssumption
<1>2. PICK t \in Bounded : t = [s EXCEPT !.timer = 0, !.on = FALSE, !.combos = <<>>]
  BY <1>1, BufferTypes
<1>3. dump_key_buffer(clear_combos(t)) \in Bounded
  BY ClearTypes, DumpTypes
<1>4. [s EXCEPT !.on = TRUE] \in Bounded
  BY FlagTypes
<1> QED BY <1>2, <1>3, <1>4 DEF combo_toggle, combo_disable

LEMMA EnqueueTypes ==
  ASSUME NEW s \in Bounded, NEW k \in Keys
  PROVE  Enqueue(s, k) \in Bounded
<1>1. CASE Len(s.keys) < COMBO_KEY_BUFFER_LENGTH
  <2> DEFINE ks == Append(s.keys, [key |-> k, as |-> "key", combo |-> 0])
  <2>1. [key |-> k, as |-> "key", combo |-> 0] \in Slots
    BY DEF Slots, Queued
  <2>2. s.keys \in Seq(Slots) /\ Len(s.keys) \in Nat
    BY DEF Bounded
  <2>3. ks \in Seq(Slots) /\ Len(ks) <= COMBO_KEY_BUFFER_LENGTH
    BY <1>1, <2>1, <2>2, SizeAssumption
  <2> HIDE DEF ks
  <2>4. [s EXCEPT !.keys = ks] \in Bounded
    BY <2>3, BufferTypes
  <2> QED BY <1>1, <2>4 DEF Enqueue, ks
<1>2. CASE ~(Len(s.keys) < COMBO_KEY_BUFFER_LENGTH)
  <2>1. s.lost \cup {k} \in SUBSET Keys
    BY FieldTypes DEF Bounded
  <2>2. [s EXCEPT !.lost = s.lost \cup {k}] \in Bounded
    BY <2>1, FlagTypes
  <2> QED BY <1>2, <2>2 DEF Enqueue
<1> QED BY <1>1, <1>2

-----------------------------------------------------------------------------
(* The type invariant.                                                     *)

Types ==
  q \in Bounded /\ now \in 0 .. TimerRange - 1 /\ scanned \in BOOLEAN /\ down \subseteq Keys

LEMMA TypesGive == Types => TypeOK
<1>1. SUFFICES ASSUME Types PROVE TypeOK
  OBVIOUS
<1>2. q \in State /\ q.keys \in Seq(Queued)
  BY <1>1, FieldTypes DEF Types, Bounded
<1>3. [q EXCEPT !.keys = <<>>, !.combos = <<>>] \in State
  <2>1. <<>> \in Seq(Queued) /\ <<>> \in Seq(Combos)
    OBVIOUS
  <2> QED BY <1>2, <2>1 DEF State
<1>4. Range(q.keys) \subseteq Queued /\ q.combos \in Seq(Combos)
  BY <1>2, RangeTypes, FieldTypes
<1> QED BY <1>1, <1>3, <1>4 DEF TypeOK, Types, Bounded

LEMMA InitTypes == Init => Types
<1>1. SUFFICES ASSUME Init PROVE Types
  OBVIOUS
<1>2. 0 \in 0 .. TimerRange - 1 /\ Len(<<>>) <= COMBO_KEY_BUFFER_LENGTH /\ Len(<<>>) < COMBO_BUFFER_LENGTH
  BY SizeAssumption
<1>3. <<>> \in Seq(Queued) /\ <<>> \in Seq(Slots) /\ <<>> \in Seq(Combos)
  OBVIOUS
<1> QED BY <1>1, <1>2, <1>3 DEF Init, Types, Bounded, State

LEMMA PressTypes ==
  ASSUME Types, NEW k \in Keys, Press(k)
  PROVE  Types'
<1>1. PICK r : r = SingleCombos(k, TRUE) /\ r.s \in Bounded
  BY SingleCombosTypes DEF Types
<1>2. CASE k \in ToggleKeys
  BY <1>2, ToggleTypes DEF Press, Types
<1>3. CASE k \notin ToggleKeys /\ r.mine
  <2> DEFINE t == IF StrictTimer /\ r.s.timer # 0 THEN r.s.timer ELSE now
  <2>1. t \in 0 .. TimerRange - 1
    BY <1>1, FieldTypes DEF Types, Bounded
  <2>2. q' = Enqueue([r.s EXCEPT !.timer = t], k)
    BY <1>1, <1>3 DEF Press
  <2> HIDE DEF t
  <2>3. [r.s EXCEPT !.timer = t] \in Bounded
    BY <1>1, <2>1, FlagTypes
  <2>4. q' \in Bounded
    BY <2>2, <2>3, EnqueueTypes
  <2> QED BY <2>4 DEF Press, Types
<1>4. CASE k \notin ToggleKeys /\ ~r.mine
  <2>1. PICK t \in Bounded : t = Flush(r.s)
    BY <1>1, FlushTypes
  <2>2. q' = [t EXCEPT !.keysOut = t.keysOut \cup {k}]
    BY <1>1, <1>4, <2>1 DEF Press
  <2>3. t.keysOut \cup {k} \in SUBSET Keys
    BY FieldTypes DEF Bounded
  <2>4. q' \in Bounded
    BY <2>2, <2>3, FlagTypes
  <2> QED BY <2>4 DEF Press, Types
<1> QED BY <1>2, <1>3, <1>4

LEMMA ReleaseTypes ==
  ASSUME Types, NEW k \in Keys, Release(k)
  PROVE  Types'
<1>1. PICK r : r = SingleCombos(k, FALSE) /\ r.s \in Bounded
  BY SingleCombosTypes DEF Types
<1>2. PICK t \in Bounded : t = Flush(r.s)
  BY <1>1, FlushTypes
<1> DEFINE ko == IF r.mine THEN t.keysOut ELSE t.keysOut \ {k}
<1>3. q' = [t EXCEPT !.keysOut = ko, !.lost = t.lost \ {k}]
  BY <1>1, <1>2 DEF Release
<1>4. ko \in SUBSET Keys /\ t.lost \ {k} \in SUBSET Keys
  BY FieldTypes DEF Bounded
<1> HIDE DEF ko
<1>5. q' \in Bounded
  BY <1>3, <1>4, FlagTypes
<1> QED BY <1>5 DEF Release, Types

LEMMA TaskTypes ==
  ASSUME Types, combo_task
  PROVE  Types'
<1>1. PICK t \in Bounded : t = apply_combos(q)
  BY ApplyCombosTypes DEF Types
<1>2. [t EXCEPT !.timer = 0] \in Bounded
  <2>1. 0 \in 0 .. TimerRange - 1
    BY SizeAssumption
  <2> QED BY <2>1, FlagTypes
<1>3. clear_combos([dump_key_buffer(q) EXCEPT !.timer = 0]) \in Bounded
  BY FlushTypes DEF Types
<1>4. q' \in Bounded
  BY <1>1, <1>2, <1>3 DEF combo_task, Types
<1> QED BY <1>4 DEF combo_task, Types

LEMMA TypesStep == Types /\ [Next]_vars => Types'
<1>1. SUFFICES ASSUME Types, [Next]_vars PROVE Types'
  OBVIOUS
<1>2. CASE \E k \in Keys : Press(k) \/ Release(k)
  BY <1>1, <1>2, PressTypes, ReleaseTypes
<1>3. CASE combo_task
  BY <1>1, <1>3, TaskTypes
<1>4. CASE Time
  <2>1. (now + 1) % TimerRange \in 0 .. TimerRange - 1
    BY <1>1, SizeAssumption DEF Types
  <2> QED BY <1>1, <1>4, <2>1 DEF Time, Types
<1>5. CASE UNCHANGED vars
  BY <1>1, <1>5 DEF vars, Types
<1> QED BY <1>1, <1>2, <1>3, <1>4, <1>5 DEF Next

LEMMA TypesHold == Spec => []Types
BY InitTypes, TypesStep, PTL DEF Spec

\* For every set of combos and all buffer sizes: key_buffer and combo_buffer are
\* never filled beyond their ends, whatever is pressed, released or toggled,
\* and longest_term is 0 or one of the two terms.
THEOREM BuffersInBounds == Spec => []TypeOK
BY TypesHold, TypesGive, PTL

-----------------------------------------------------------------------------
(* What the operations do to the presses that wait and to the queued       *)
(* combos.                                                                 *)

\* The keys that wait in key_buffer as themselves, the combos that have taken a
\* place in it, and the combos of combo_buffer.
Pending(s) == {s.keys[n].key : n \in {m \in 1 .. Len(s.keys) : s.keys[m].as = "key"}}
Firing(s)  == {s.keys[n].combo : n \in {m \in 1 .. Len(s.keys) : s.keys[m].as = "combo"}}
Ring(s)    == {s.combos[n] : n \in 1 .. Len(s.combos)}

\* No key waits twice.
Distinct(s) == \A m, n \in 1 .. Len(s.keys) : s.keys[m].key = s.keys[n].key => m = n

\* The queued combos share no key.
Apart(s) ==
  \A m, n \in 1 .. Len(s.combos) :
    m # n => ComboKeys[s.combos[m]] \cap ComboKeys[s.combos[n]] = {}

\* The fields no combo is applied through.
SameOut(s, t) ==
  /\ t.held = s.held /\ t.keysOut = s.keysOut /\ t.combosOut = s.combosOut /\ t.lost = s.lost
  /\ t.timer = s.timer /\ t.on = s.on

\* Combo i takes its keys, all of which wait, and its own place among them.
LEMMA ApplyKeysEffect ==
  ASSUME NEW s \in Bounded, NEW i \in Combos, Distinct(s), ComboKeys[i] \subseteq Pending(s)
  PROVE  LET t == ApplyKeys(s, i)
         IN /\ Distinct(t) /\ Len(t.keys) = Len(s.keys)
            /\ Pending(t) = Pending(s) \ ComboKeys[i] /\ Firing(t) = Firing(s) \cup {i}
            /\ t.active = s.active \cup {i} /\ t.disabled = s.disabled /\ t.combos = s.combos
            /\ SameOut(s, t)
<1> DEFINE C == ComboKeys[i]
           seen(n) == {s.keys[m].key : m \in 1 .. n} \cap C
           completes(n) == seen(n) = C /\ seen(n - 1) # C
           mine(n) == s.keys[n].key \in C /\ seen(n - 1) # C
           fires == \E n \in DOMAIN s.keys : completes(n)
           ks == [n \in DOMAIN s.keys |->
                    IF completes(n) THEN [s.keys[n] EXCEPT !.as = "combo", !.combo = i]
                    ELSE IF mine(n) THEN [s.keys[n] EXCEPT !.as = "tick"]
                    ELSE s.keys[n]]
<1>0. s \in State
  BY DEF Bounded
<1>1. PICK l \in Nat : l = Len(s.keys) /\ s.keys \in [1 .. l -> Slots] /\ DOMAIN s.keys = 1 .. l
  BY DEF Bounded
<1>2. ApplyKeys(s, i) = [s EXCEPT !.keys = ks,
                           !.active = IF fires THEN s.active \cup {i} ELSE s.active,
                           !.lost = IF fires THEN s.lost ELSE s.lost \cup seen(Len(s.keys))]
  BY DEF ApplyKeys
<1>3. C # {} /\ C \subseteq {s.keys[m].key : m \in 1 .. l}
  BY <1>1, ComboAssumption DEF Pending
<1> DEFINE S == {n \in 0 .. l : seen(n) = C}
<1>4. PICK c \in S : \A n \in S : c <= n
  <2>1. seen(l) = C
    BY <1>3
  <2>2. S # {} /\ S \subseteq Nat
    BY <2>1
  <2> HIDE DEF S
  <2> QED BY <2>2, SmallestElement
<1>5. c \in 1 .. l /\ completes(c)
  <2>1. seen(0) = {}
    OBVIOUS
  <2>2. c # 0
    BY <1>3, <1>4, <2>1
  <2>3. c - 1 \in 0 .. l /\ c - 1 \notin S
    BY <1>4, <2>2
  <2> QED BY <1>4, <2>2, <2>3
<1>6. ASSUME NEW n \in 1 .. l, completes(n)
      PROVE  n = c
  <2>1. c <= n
    BY <1>4, <1>6
  <2>2. CASE c < n
    <3>1. 1 .. c \subseteq 1 .. (n - 1)
      BY <2>2
    <3>2. seen(c) \subseteq seen(n - 1)
      BY <3>1
    <3>3. seen(n - 1) = C
      BY <1>5, <3>2
    <3> QED BY <1>6, <3>3
  <2> QED BY <2>1, <2>2
<1>7. ASSUME NEW n \in 1 .. l, s.keys[n].key \in C
      PROVE  n <= c /\ s.keys[n].as = "key"
  <2>1. s.keys[n].key \in seen(c)
    BY <1>5, <1>7
  <2>2. PICK x \in 1 .. c : s.keys[x].key = s.keys[n].key
    BY <2>1
  <2>3. x = n
    BY <1>1, <1>5, <2>2 DEF Distinct
  <2>4. s.keys[n].key \in Pending(s)
    BY <1>7
  <2>5. PICK y \in 1 .. l : s.keys[y].key = s.keys[n].key /\ s.keys[y].as = "key"
    BY <1>1, <2>4 DEF Pending
  <2>6. y = n
    BY <1>1, <2>5 DEF Distinct
  <2> QED BY <2>2, <2>3, <2>5, <2>6
<1>8. s.keys[c].key \in C
  <2>1. \A m \in 1 .. c : m = c \/ m \in 1 .. (c - 1)
    BY <1>5
  <2>2. seen(c) \subseteq seen(c - 1) \cup ({s.keys[c].key} \cap C)
    BY <2>1
  <2>3. seen(c - 1) \subseteq C /\ seen(c) = C /\ seen(c - 1) # C
    BY <1>5
  <2> QED BY <2>2, <2>3
<1>9. ASSUME NEW n \in 1 .. l
      PROVE  ks[n] = IF n = c THEN [s.keys[n] EXCEPT !.as = "combo", !.combo = i]
                     ELSE IF s.keys[n].key \in C THEN [s.keys[n] EXCEPT !.as = "tick"]
                     ELSE s.keys[n]
  <2>1. completes(n) <=> n = c
    BY <1>5, <1>6
  <2>2. n # c => (mine(n) <=> s.keys[n].key \in C)
    <3>1. SUFFICES ASSUME n # c, s.keys[n].key \in C PROVE seen(n - 1) # C
      OBVIOUS
    <3>2. n - 1 < c /\ n - 1 \in 0 .. l
      BY <1>4, <1>5, <1>7, <3>1
    <3> QED BY <1>4, <3>2
  <2> HIDE DEF completes, mine
  <2> QED BY <1>1, <2>1, <2>2
<1>10. fires
  BY <1>1, <1>5
<1>11. PICK t : /\ t = ApplyKeys(s, i) /\ t.keys = ks /\ t.active = s.active \cup {i} /\ t.lost = s.lost
                /\ t.disabled = s.disabled /\ t.combos = s.combos /\ SameOut(s, t)
  <2> HIDE DEF ks, fires, seen
  <2> QED BY <1>0, <1>2, <1>10 DEF State, SameOut
<1>12. DOMAIN ks = 1 .. l /\ Len(ks) = l
  <2>1. ApplyKeys(s, i) \in Bounded
    BY ApplyKeysTypes
  <2>2. ks \in Seq(Slots)
    BY <1>11, <2>1 DEF Bounded
  <2>3. DOMAIN ks = 1 .. l
    BY <1>1
  <2> HIDE DEF ks
  <2> QED BY <2>2, <2>3
<1> HIDE DEF ks, completes, mine, fires, seen, S
<1>13. \A n \in 1 .. l : /\ ks[n].key = s.keys[n].key
                         /\ (n # c /\ s.keys[n].key \notin C => ks[n] = s.keys[n])
                         /\ (n # c /\ s.keys[n].key \in C => ks[n].as = "tick")
                         /\ (n = c => ks[n].as = "combo" /\ ks[n].combo = i)
  <2>1. TAKE n \in 1 .. l
  <2>2. PICK x \in Queued : x = s.keys[n]
    BY <1>1 DEF Slots
  <2>3. PICK u : u = [x EXCEPT !.as = "combo", !.combo = i]
    OBVIOUS
  <2>4. PICK v : v = [x EXCEPT !.as = "tick"]
    OBVIOUS
  <2>5. u.key = x.key /\ u.as = "combo" /\ u.combo = i /\ v.key = x.key /\ v.as = "tick"
    BY <2>3, <2>4 DEF Queued
  <2>6. ks[n] = IF n = c THEN u ELSE IF x.key \in C THEN v ELSE x
    BY <1>9, <2>2, <2>3, <2>4
  <2> HIDE DEF C
  <2> QED BY <2>2, <2>5, <2>6
<1>14. Distinct(t)
  BY <1>1, <1>11, <1>12, <1>13 DEF Distinct
<1>15. Pending(t) = Pending(s) \ C
  <2>1. \A n \in 1 .. l : ks[n].as = "key" <=> s.keys[n].as = "key" /\ s.keys[n].key \notin C
    BY <1>7, <1>8, <1>13
  <2> QED BY <1>1, <1>11, <1>12, <1>13, <2>1 DEF Pending
<1>16. Firing(t) = Firing(s) \cup {i}
  <2>1. \A n \in 1 .. l : n # c => (ks[n].as = "combo" <=> s.keys[n].as = "combo") /\
                                   (ks[n].as = "combo" => ks[n].combo = s.keys[n].combo)
    BY <1>7, <1>13
  <2>2. s.keys[c].as = "key"
    BY <1>5, <1>7, <1>8
  <2>3. Firing(t) \subseteq Firing(s) \cup {i}
    BY <1>1, <1>11, <1>12, <1>13, <2>1 DEF Firing
  <2>4. Firing(s) \subseteq Firing(t)
    BY <1>1, <1>11, <1>12, <1>13, <2>1, <2>2 DEF Firing
  <2>5. i \in Firing(t)
    BY <1>5, <1>11, <1>12, <1>13 DEF Firing
  <2> QED BY <2>3, <2>4, <2>5
<1> QED BY <1>1, <1>11, <1>12, <1>14, <1>15, <1>16

LEMMA TailFacts ==
  ASSUME NEW S, NEW c \in Seq(S), c # <<>>
  PROVE  /\ Tail(c) \in Seq(S) /\ Len(c) \in Nat \ {0} /\ Len(Tail(c)) = Len(c) - 1
         /\ \A m \in 1 .. Len(c) - 1 : Tail(c)[m] = c[m + 1]
OBVIOUS

\* The front of combo_buffer is taken out.
LEMMA DropEffect ==
  ASSUME NEW s \in Bounded, NEW i \in Combos, s.combos # <<>>, s.combos[1] = i
  PROVE  LET t == drop_combo_from_buffer(s, i)
         IN /\ t.combos = Tail(s.combos) /\ t.disabled = s.disabled \cup {i}
            /\ t.keys = s.keys /\ t.active = s.active /\ SameOut(s, t)
<1>1. s.combos \in Seq(Combos) /\ s \in State
  BY FieldTypes DEF Bounded
<1>2. i \in Range(s.combos) /\ Head(s.combos) = i
  BY <1>1 DEF Range
<1>3. drop_combo_from_buffer(s, i) =
        [s EXCEPT !.disabled = s.disabled \cup {i}, !.combos = Tail(s.combos)]
  BY <1>2 DEF drop_combo_from_buffer
<1> QED BY <1>1, <1>3 DEF State, SameOut

\* Everything that waits goes out: keys, and the combos that took their place.
LEMMA DumpEffect ==
  ASSUME NEW s \in Bounded
  PROVE  LET t == dump_key_buffer(s)
         IN /\ t.keys = <<>> /\ t.keysOut = s.keysOut \cup Pending(s)
            /\ t.combosOut = s.combosOut \cup Firing(s)
            /\ t.active = s.active /\ t.disabled = s.disabled /\ t.held = s.held
            /\ t.combos = s.combos /\ t.lost = s.lost
<1> DEFINE ko == s.keysOut \cup {r.key : r \in {x \in Range(s.keys) : x.as = "key"}}
           co == s.combosOut \cup {r.combo : r \in {x \in Range(s.keys) : x.as = "combo"}}
<1>1. s \in State /\ Range(s.keys) = {s.keys[n] : n \in 1 .. Len(s.keys)}
  BY RangeTypes DEF Bounded
<1>2. ko = s.keysOut \cup Pending(s)
  BY <1>1 DEF Pending
<1>3. co = s.combosOut \cup Firing(s)
  BY <1>1 DEF Firing
<1>4. dump_key_buffer(s) = [s EXCEPT !.keys = <<>>, !.keysOut = ko, !.combosOut = co]
  BY DEF dump_key_buffer
<1> HIDE DEF ko, co
<1> QED BY <1>1, <1>2, <1>3, <1>4 DEF State

LEMMA ClearEffect ==
  ASSUME NEW s \in Bounded
  PROVE  LET t == clear_combos(s)
         IN /\ t.disabled = s.disabled \cap s.active
            /\ t.held = [i \in Combos |-> IF i \in s.active THEN s.held[i] ELSE {}]
            /\ t.keys = s.keys /\ t.combos = s.combos /\ t.active = s.active
            /\ t.keysOut = s.keysOut /\ t.combosOut = s.combosOut /\ t.lost = s.lost
<1> DEFINE h == [i \in Combos |-> IF i \in s.active THEN s.held[i] ELSE {}]
<1>1. clear_combos(s) = [s EXCEPT !.term = 0, !.disabled = s.disabled \cap s.active, !.held = h]
  BY DEF clear_combos
<1>2. s \in State
  BY DEF Bounded
<1> HIDE DEF h
<1>3. LET t == clear_combos(s)
      IN /\ t.disabled = s.disabled \cap s.active /\ t.held = h
         /\ t.keys = s.keys /\ t.combos = s.combos /\ t.active = s.active
         /\ t.keysOut = s.keysOut /\ t.combosOut = s.combosOut /\ t.lost = s.lost
  BY <1>1, <1>2 DEF State
<1> QED BY <1>3 DEF h

QueuedFirst(s, j) == {s.combos[m] : m \in 1 .. j}
TakenBy(B) == UNION {ComboKeys[b] : b \in B}

\* Combos that are queued and not only for taps can still be applied.
CanApply(s) ==
  \A b \in Ring(s) \ MustTap : b \notin s.disabled /\ ComboKeys[b] \subseteq Pending(s)

\* p is s after the first j combos of the queue had their turn.
Turned(s, p, j) ==
  /\ p \in Bounded /\ Distinct(p)
  /\ Len(p.combos) = Len(s.combos) - j
  /\ \A m \in 1 .. Len(s.combos) - j : p.combos[m] = s.combos[m + j]
  /\ p.disabled \subseteq s.disabled \cup QueuedFirst(s, j)
  /\ p.active = s.active \cup (QueuedFirst(s, j) \ MustTap)
  /\ Pending(p) = Pending(s) \ TakenBy(QueuedFirst(s, j) \ MustTap)
  /\ Firing(p) = Firing(s) \cup (QueuedFirst(s, j) \ MustTap)
  /\ SameOut(s, p)

LEMMA ApplyTurnEffect ==
  ASSUME NEW s \in Bounded, Apart(s), CanApply(s), NEW j \in 1 .. Len(s.combos),
         NEW p, Turned(s, p, j - 1)
  PROVE  Turned(s, ApplyTurn(s, p, j), j)
<1>1. PICK l \in Nat : l = Len(s.combos) /\ \A m \in 1 .. l : s.combos[m] \in Combos
  BY FieldTypes DEF Bounded
<1>2. PICK i \in Combos : i = s.combos[j] /\ i \in Ring(s)
  BY <1>1 DEF Ring
<1>3. p.combos \in Seq(Combos) /\ p \in Bounded
  BY FieldTypes DEF Turned, Bounded
<1>4. p.combos # <<>> /\ p.combos[1] = i
  BY <1>1, <1>2, <1>3 DEF Turned
<1>5. /\ i \in QueuedFirst(s, j) /\ QueuedFirst(s, j) = QueuedFirst(s, j - 1) \cup {i}
  BY <1>1, <1>2 DEF QueuedFirst
<1>6. ASSUME NEW b \in QueuedFirst(s, j - 1)
      PROVE  ComboKeys[i] \cap ComboKeys[b] = {} /\ b # i
  <2>1. PICK m \in 1 .. (j - 1) : b = s.combos[m]
    BY DEF QueuedFirst
  <2>2. m \in 1 .. l /\ m # j /\ j \in 1 .. l
    BY <1>1
  <2>3. ComboKeys[i] \cap ComboKeys[b] = {}
    BY <1>1, <1>2, <2>1, <2>2 DEF Apart
  <2> QED BY <2>3, ComboAssumption
<1>7. ASSUME NEW u \in Bounded, u.combos = p.combos, NEW t, t = drop_combo_from_buffer(u, i)
      PROVE  /\ t \in Bounded /\ t.disabled = u.disabled \cup {i}
             /\ t.keys = u.keys /\ t.active = u.active /\ SameOut(u, t)
             /\ Len(t.combos) = Len(s.combos) - j
             /\ \A m \in 1 .. Len(s.combos) - j : t.combos[m] = s.combos[m + j]
  <2>1. t \in Bounded
    BY <1>7, DropTypes
  <2>2. /\ t.combos = Tail(p.combos) /\ t.disabled = u.disabled \cup {i}
        /\ t.keys = u.keys /\ t.active = u.active /\ SameOut(u, t)
    BY <1>4, <1>7, DropEffect
  <2>3. /\ Len(p.combos) = l - (j - 1)
        /\ \A m \in 1 .. l - (j - 1) : p.combos[m] = s.combos[m + (j - 1)]
    BY <1>1 DEF Turned
  <2>4. Len(t.combos) = l - j /\ \A m \in 1 .. l - j : t.combos[m] = p.combos[m + 1]
    <3>1. /\ Len(t.combos) = Len(p.combos) - 1
          /\ \A m \in 1 .. Len(p.combos) - 1 : t.combos[m] = p.combos[m + 1]
      BY <1>3, <1>4, <2>2, TailFacts
    <3>2. Len(p.combos) - 1 = l - j
      BY <1>1, <2>3
    <3> QED BY <3>1, <3>2
  <2>5. ASSUME NEW m \in 1 .. l - j PROVE t.combos[m] = s.combos[m + j]
    <3>1. m + 1 \in 1 .. l - (j - 1) /\ (m + 1) + (j - 1) = m + j
      BY <1>1
    <3>2. p.combos[m + 1] = s.combos[(m + 1) + (j - 1)]
      BY <2>3, <3>1
    <3> QED BY <2>4, <3>1, <3>2
  <2> QED BY <1>1, <2>1, <2>2, <2>4, <2>5
<1>8. CASE i \in MustTap
  <2>1. PICK t : t = drop_combo_from_buffer(p, i)
    OBVIOUS
  <2>2. t = ApplyTurn(s, p, j)
    BY <1>2, <1>8, <2>1 DEF ApplyTurn
  <2>3. QueuedFirst(s, j) \ MustTap = QueuedFirst(s, j - 1) \ MustTap
    BY <1>5, <1>8
  <2>4. /\ t \in Bounded /\ t.disabled = p.disabled \cup {i}
        /\ t.keys = p.keys /\ t.active = p.active /\ SameOut(p, t)
        /\ Len(t.combos) = Len(s.combos) - j
        /\ \A m \in 1 .. Len(s.combos) - j : t.combos[m] = s.combos[m + j]
    BY <1>3, <1>7, <2>1
  <2>5. Distinct(t) /\ Pending(t) = Pending(p) /\ Firing(t) = Firing(p)
    BY <2>4 DEF Turned, Distinct, Pending, Firing
  <2>6. t.disabled \subseteq s.disabled \cup QueuedFirst(s, j) /\ SameOut(s, t)
    BY <1>5, <2>4 DEF Turned, SameOut
  <2>7. Turned(s, t, j)
    BY <2>3, <2>4, <2>5, <2>6 DEF Turned
  <2> QED BY <2>2, <2>7
<1>9. CASE i \notin MustTap
  <2>1. i \notin p.disabled
    BY <1>2, <1>6, <1>9 DEF CanApply, Turned
  <2>2. ComboKeys[i] \subseteq Pending(p)
    <3>1. ComboKeys[i] \subseteq Pending(s)
      BY <1>2, <1>9 DEF CanApply
    <3>2. ComboKeys[i] \cap TakenBy(QueuedFirst(s, j - 1) \ MustTap) = {}
      BY <1>6 DEF TakenBy
    <3> QED BY <3>1, <3>2 DEF Turned
  <2>3. PICK u : u = ApplyKeys(p, i)
    OBVIOUS
  <2>4. /\ u \in Bounded /\ Distinct(u) /\ Len(u.keys) = Len(p.keys)
        /\ Pending(u) = Pending(p) \ ComboKeys[i] /\ Firing(u) = Firing(p) \cup {i}
        /\ u.active = p.active \cup {i} /\ u.disabled = p.disabled /\ u.combos = p.combos
        /\ SameOut(p, u)
    BY <1>3, <2>2, <2>3, ApplyKeysEffect, ApplyKeysTypes DEF Turned
  <2>5. PICK t : t = drop_combo_from_buffer(u, i)
    OBVIOUS
  <2>6. t = ApplyTurn(s, p, j)
    BY <1>2, <1>9, <2>1, <2>3, <2>5 DEF ApplyTurn, apply_combo
  <2>7. /\ t \in Bounded /\ t.disabled = u.disabled \cup {i}
        /\ t.keys = u.keys /\ t.active = u.active /\ SameOut(u, t)
        /\ Len(t.combos) = Len(s.combos) - j
        /\ \A m \in 1 .. Len(s.combos) - j : t.combos[m] = s.combos[m + j]
    <3>1. u \in Bounded /\ u.combos = p.combos
      BY <2>4
    <3> QED BY <1>7, <2>5, <3>1
  <2>8. Distinct(t) /\ Pending(t) = Pending(u) /\ Firing(t) = Firing(u)
    BY <2>4, <2>7 DEF Distinct, Pending, Firing
  <2>9. QueuedFirst(s, j) \ MustTap = (QueuedFirst(s, j - 1) \ MustTap) \cup {i}
    BY <1>5, <1>9
  <2>10. TakenBy(QueuedFirst(s, j) \ MustTap) = TakenBy(QueuedFirst(s, j - 1) \ MustTap) \cup ComboKeys[i]
    BY <2>9 DEF TakenBy
  <2>11. Pending(t) = Pending(s) \ TakenBy(QueuedFirst(s, j) \ MustTap)
    BY <2>4, <2>8, <2>10 DEF Turned
  <2>12. /\ Firing(t) = Firing(s) \cup (QueuedFirst(s, j) \ MustTap)
         /\ t.active = s.active \cup (QueuedFirst(s, j) \ MustTap)
    BY <2>4, <2>7, <2>8, <2>9 DEF Turned
  <2>13. t.disabled \subseteq s.disabled \cup QueuedFirst(s, j) /\ SameOut(s, t)
    BY <1>5, <2>4, <2>7 DEF Turned, SameOut
  <2>14. Turned(s, t, j)
    BY <2>7, <2>8, <2>11, <2>12, <2>13 DEF Turned
  <2> QED BY <2>6, <2>14
<1> QED BY <1>8, <1>9

\* What is left when the buffers have been emptied: the combos of F have fired
\* besides those that had taken a place already, the keys that are not theirs
\* are out, and every other combo starts again.
Settled(s, t, F) ==
  /\ t.keys = <<>> /\ t.combos = <<>>
  /\ t.active = s.active \cup F /\ t.disabled \subseteq t.active
  /\ t.held = [i \in Combos |-> IF i \in t.active THEN s.held[i] ELSE {}]
  /\ t.keysOut = s.keysOut \cup (Pending(s) \ TakenBy(F))
  /\ t.combosOut = s.combosOut \cup Firing(s) \cup F /\ t.lost = s.lost

LEMMA ApplyCombosEffect ==
  ASSUME NEW s \in Bounded, Distinct(s), Apart(s), CanApply(s)
  PROVE  Settled(s, apply_combos(s), Ring(s) \ MustTap)
<1>0. s \in State
  BY DEF Bounded
<1>1. PICK f : /\ f[0] = s /\ \A j \in 1 .. Len(s.combos) : f[j] = ApplyTurn(s, f[j - 1], j)
               /\ apply_combos(s) = clear_combos(dump_key_buffer(f[Len(s.combos)]))
  BY <1>0, ApplyTurns
<1>2. PICK l \in Nat : l = Len(s.combos)
  BY <1>0, FieldTypes
<1> DEFINE G == {j \in 0 .. l : Turned(s, f[j], j)}
<1>3. ASSUME NEW j \in 1 .. l, j - 1 \in G
      PROVE  j \in G
  <2>1. Turned(s, f[j - 1], j - 1) /\ j \in 1 .. Len(s.combos)
    BY <1>2, <1>3
  <2>2. Turned(s, ApplyTurn(s, f[j - 1], j), j)
    BY <2>1, ApplyTurnEffect
  <2> QED BY <1>1, <2>1, <2>2
<1>4. 0 \in G
  <2>1. QueuedFirst(s, 0) = {} /\ TakenBy({}) = {}
    BY DEF QueuedFirst, TakenBy
  <2>2. QueuedFirst(s, 0) \ MustTap = {}
    BY <2>1
  <2>3. Len(s.combos) = Len(s.combos) - 0 /\ \A m \in 1 .. Len(s.combos) - 0 : m + 0 = m
    BY <1>2
  <2>4. Pending(s) = Pending(s) \ TakenBy(QueuedFirst(s, 0) \ MustTap)
    BY <2>1, <2>2
  <2>5. Turned(s, s, 0)
    BY <2>1, <2>2, <2>3, <2>4 DEF Turned, SameOut
  <2> QED BY <1>1, <2>5
<1>5. l \in G
  <2> HIDE DEF G
  <2> QED BY <1>3, <1>4, UpTo
<1>6. PICK p : p = f[l] /\ Turned(s, p, l)
  BY <1>5
<1>7. QueuedFirst(s, l) = Ring(s)
  BY <1>2 DEF QueuedFirst, Ring
<1>8. p \in Bounded /\ p.combos = <<>>
  <2>1. p \in Bounded /\ Len(p.combos) = 0
    BY <1>2, <1>6 DEF Turned
  <2> QED BY <2>1, FieldTypes DEF Bounded
<1>9. PICK d \in Bounded : /\ d = dump_key_buffer(p) /\ d.keys = <<>>
                           /\ d.keysOut = p.keysOut \cup Pending(p)
                           /\ d.combosOut = p.combosOut \cup Firing(p)
                           /\ d.active = p.active /\ d.held = p.held
                           /\ d.combos = p.combos /\ d.lost = p.lost
  BY <1>8, DumpTypes, DumpEffect
<1>10. PICK t : /\ t = clear_combos(d) /\ t.disabled = d.disabled \cap d.active
                /\ t.held = [i \in Combos |-> IF i \in d.active THEN d.held[i] ELSE {}]
                /\ t.keys = d.keys /\ t.combos = d.combos /\ t.active = d.active
                /\ t.keysOut = d.keysOut /\ t.combosOut = d.combosOut /\ t.lost = d.lost
  BY ClearEffect
<1>11. t.active = s.active \cup (Ring(s) \ MustTap)
  BY <1>6, <1>7, <1>9, <1>10 DEF Turned
<1>12. t.held = [i \in Combos |-> IF i \in t.active THEN s.held[i] ELSE {}]
  <2>1. d.held = s.held
    BY <1>6, <1>9 DEF Turned, SameOut
  <2> QED BY <1>10, <2>1
<1>13. t.keysOut = s.keysOut \cup (Pending(s) \ TakenBy(Ring(s) \ MustTap))
  BY <1>6, <1>7, <1>9, <1>10 DEF Turned, SameOut
<1>14. t.combosOut = s.combosOut \cup Firing(s) \cup (Ring(s) \ MustTap)
  BY <1>6, <1>7, <1>9, <1>10 DEF Turned, SameOut
<1>15. t.lost = s.lost
  BY <1>6, <1>9, <1>10 DEF Turned, SameOut
<1>16. Settled(s, t, Ring(s) \ MustTap)
  BY <1>8, <1>9, <1>10, <1>11, <1>12, <1>13, <1>14, <1>15 DEF Settled
<1> QED BY <1>1, <1>2, <1>6, <1>9, <1>10, <1>16

\* The other way to empty the buffers, when no combo is queued.
LEMMA DumpAllEffect ==
  ASSUME NEW s \in Bounded, s.combos = <<>>
  PROVE  Settled(s, clear_combos([dump_key_buffer(s) EXCEPT !.timer = 0]), {})
<1>1. PICK d \in Bounded : /\ d = dump_key_buffer(s) /\ d.keys = <<>>
                           /\ d.keysOut = s.keysOut \cup Pending(s)
                           /\ d.combosOut = s.combosOut \cup Firing(s)
                           /\ d.active = s.active /\ d.held = s.held
                           /\ d.combos = s.combos /\ d.lost = s.lost
  BY DumpTypes, DumpEffect
<1>2. 0 \in 0 .. TimerRange - 1
  BY SizeAssumption
<1>3. PICK e \in Bounded : /\ e = [d EXCEPT !.timer = 0] /\ e.keys = d.keys
                           /\ e.keysOut = d.keysOut /\ e.combosOut = d.combosOut
                           /\ e.active = d.active /\ e.held = d.held
                           /\ e.combos = d.combos /\ e.lost = d.lost
  <2>1. [d EXCEPT !.timer = 0] \in Bounded
    BY <1>2, FlagTypes
  <2> QED BY <2>1 DEF Bounded, State
<1>4. PICK t : /\ t = clear_combos(e) /\ t.disabled = e.disabled \cap e.active
               /\ t.held = [i \in Combos |-> IF i \in e.active THEN e.held[i] ELSE {}]
               /\ t.keys = e.keys /\ t.combos = e.combos /\ t.active = e.active
               /\ t.keysOut = e.keysOut /\ t.combosOut = e.combosOut /\ t.lost = e.lost
  BY ClearEffect
<1>5. t.held = [i \in Combos |-> IF i \in t.active THEN s.held[i] ELSE {}]
  <2>1. e.held = s.held /\ t.active = e.active
    BY <1>1, <1>3, <1>4
  <2> QED BY <1>4, <2>1
<1>6. TakenBy({}) = {}
  BY DEF TakenBy
<1>7. Settled(s, t, {})
  BY <1>1, <1>3, <1>4, <1>5, <1>6 DEF Settled
<1> QED BY <1>1, <1>3, <1>4, <1>7

LEMMA FlushEffect ==
  ASSUME NEW s \in Bounded, Distinct(s), Apart(s), CanApply(s)
  PROVE  Settled(s, Flush(s), Ring(s) \ MustTap)
<1>1. CASE s.combos # <<>>
  BY <1>1, ApplyCombosEffect DEF Flush
<1>2. CASE s.combos = <<>>
  <2>1. Ring(s) \ MustTap = {}
    BY <1>2 DEF Ring
  <2> QED BY <1>2, <2>1, DumpAllEffect DEF Flush
<1> QED BY <1>1, <1>2

-----------------------------------------------------------------------------
(* Combos that all share a key, or none.                                   *)

\* Every two combos have a key in common: at most one of them is queued.
Sharing == \A i, j \in Combos : ComboKeys[i] \cap ComboKeys[j] # {}

\* No two combos have a key in common.  A combo for holds only that is dropped
\* from the middle of the queue stays there, so there may be none.
Separate ==
  /\ \A i, j \in Combos : i # j => ComboKeys[i] \cap ComboKeys[j] = {}
  /\ MustHold = {}

\* Every combo has at least two keys, key_buffer holds all keys that are part of a
\* combo, and combo_buffer as many combos as are ever queued, with the place it
\* leaves unused.
Roomy ==
  /\ \A i \in Combos, k \in Keys : ComboKeys[i] # {k}
  /\ IsFiniteSet(TakenBy(Combos)) /\ Cardinality(TakenBy(Combos)) <= COMBO_KEY_BUFFER_LENGTH
  /\ \/ Sharing /\ COMBO_BUFFER_LENGTH > 1
     \/ Separate /\ COMBO_BUFFER_LENGTH > Len(ComboKeys)

\* What queueing combo i does: i and every queued combo is in the queue, or
\* disabled, and not both.
Queues(s, t, i) ==
  /\ Apart(t) /\ Ring(t) \subseteq Ring(s) \cup {i}
  /\ s.disabled \subseteq t.disabled /\ (t.disabled \ s.disabled) \cap Ring(t) = {}
  /\ Ring(s) \cup {i} \subseteq Ring(t) \cup t.disabled
  /\ t.keys = s.keys /\ t.active = s.active /\ SameOut(s, t)

LEMMA AppendFacts ==
  ASSUME NEW S, NEW c \in Seq(S), NEW e \in S
  PROVE  /\ Append(c, e) \in Seq(S) /\ Len(c) \in Nat /\ Len(Append(c, e)) = Len(c) + 1
         /\ Append(c, e)[Len(c) + 1] = e /\ \A n \in 1 .. Len(c) : Append(c, e)[n] = c[n]
OBVIOUS

LEMMA EmptyFacts ==
  ASSUME NEW S, NEW c \in Seq(S), Len(c) = 0
  PROVE  c = <<>>
OBVIOUS

LEMMA AppendCombo ==
  ASSUME NEW s \in Bounded, NEW i \in Combos, Len(s.combos) + 1 < COMBO_BUFFER_LENGTH
  PROVE  LET t == [s EXCEPT !.combos = RingAppend(s.combos, i), !.term = WaitTime(i, s.term)]
         IN /\ t.combos = Append(s.combos, i) /\ Ring(t) = Ring(s) \cup {i}
            /\ t.keys = s.keys /\ t.active = s.active /\ t.disabled = s.disabled /\ SameOut(s, t)
<1>1. PICK w : w = WaitTime(i, s.term)
  OBVIOUS
<1>2. PICK c : c = Append(s.combos, i) /\ c = RingAppend(s.combos, i)
  BY DEF RingAppend
<1>3. PICK t : /\ t = [s EXCEPT !.combos = c, !.term = w] /\ t.combos = c
               /\ t.keys = s.keys /\ t.active = s.active /\ t.disabled = s.disabled /\ SameOut(s, t)
  <2>1. LET t == [s EXCEPT !.combos = c, !.term = w]
        IN /\ t.combos = c /\ t.keys = s.keys /\ t.active = s.active /\ t.disabled = s.disabled
           /\ SameOut(s, t)
    BY DEF Bounded, State, SameOut
  <2> QED BY <2>1
<1>4. PICK l \in Nat : l = Len(s.combos) /\ s.combos \in Seq(Combos)
  BY FieldTypes DEF Bounded
<1>5. Len(c) = l + 1 /\ c[l + 1] = i /\ \A n \in 1 .. l : c[n] = s.combos[n]
  <2>1. s.combos \in Seq(Combos)
    BY <1>4
  <2>2. /\ Len(Append(s.combos, i)) = Len(s.combos) + 1 /\ Append(s.combos, i)[Len(s.combos) + 1] = i
        /\ \A n \in 1 .. Len(s.combos) : Append(s.combos, i)[n] = s.combos[n]
    BY <2>1, AppendFacts
  <2> QED BY <1>2, <1>4, <2>2
<1>6. \A n \in 1 .. (l + 1) : n = l + 1 \/ n \in 1 .. l
  BY <1>4
<1>7. Ring(t) = Ring(s) \cup {i}
  BY <1>3, <1>4, <1>5, <1>6 DEF Ring
<1> QED BY <1>1, <1>2, <1>3, <1>7

LEMMA QueueSharing ==
  ASSUME Sharing, COMBO_BUFFER_LENGTH > 1,
         NEW s \in Bounded, Apart(s), NEW i \in Combos, i \notin Ring(s)
  PROVE  Queues(s, QueueCombo(s, i), i)
<1>0. s \in State /\ s.combos \in Seq(Combos)
  BY FieldTypes DEF Bounded
<1>1. PICK f : /\ f[0] = [s |-> s, mine |-> FALSE]
               /\ \A j \in 1 .. Len(s.combos) : f[j] = QueueTurn(s, i, f[j - 1], j)
               /\ QueueCombo(s, i) = Queue(s, i, f[Len(s.combos)])
  BY <1>0, QueueTurns
<1>2. PICK l \in Nat : l = Len(s.combos) /\ \A m \in 1 .. l : s.combos[m] \in Combos
  BY <1>0, FieldTypes
<1>3. l = 0 \/ l = 1
  <2>1. SUFFICES ASSUME l > 1 PROVE FALSE
    OBVIOUS
  <2>2. 1 \in 1 .. l /\ 2 \in 1 .. l
    BY <2>1
  <2>3. ComboKeys[s.combos[1]] \cap ComboKeys[s.combos[2]] = {}
    <3>1. 1 \in 1 .. Len(s.combos) /\ 2 \in 1 .. Len(s.combos) /\ 1 # 2
      BY <1>2, <2>2
    <3> QED BY <3>1 DEF Apart
  <2> QED BY <1>2, <2>2, <2>3 DEF Sharing
<1>4. ASSUME NEW u \in Bounded, u.combos = <<>>, NEW t,
             t = [u EXCEPT !.combos = RingAppend(u.combos, i), !.term = WaitTime(i, u.term)]
      PROVE  /\ Apart(t) /\ Ring(t) = {i}
             /\ t.keys = u.keys /\ t.active = u.active /\ t.disabled = u.disabled /\ SameOut(u, t)
  <2>1. Len(u.combos) + 1 < COMBO_BUFFER_LENGTH /\ Ring(u) = {}
    BY <1>4, SizeAssumption DEF Ring
  <2>2. /\ t.combos = Append(u.combos, i) /\ Ring(t) = {i}
        /\ t.keys = u.keys /\ t.active = u.active /\ t.disabled = u.disabled /\ SameOut(u, t)
    <3>1. /\ t.combos = Append(u.combos, i) /\ Ring(t) = Ring(u) \cup {i}
          /\ t.keys = u.keys /\ t.active = u.active /\ t.disabled = u.disabled /\ SameOut(u, t)
      BY <1>4, <2>1, AppendCombo
    <3> QED BY <2>1, <3>1
  <2>3. Len(t.combos) = 1
    BY <1>4, <2>2
  <2> QED BY <2>2, <2>3 DEF Apart
<1>5. CASE l = 0
  <2>1. s.combos = <<>> /\ Ring(s) = {}
    <3>1. s.combos = <<>>
      BY <1>0, <1>2, <1>5, EmptyFacts
    <3> QED BY <3>1 DEF Ring
  <2>2. QueueCombo(s, i) = [s EXCEPT !.combos = RingAppend(s.combos, i), !.term = WaitTime(i, s.term)]
    <3>1. QueueCombo(s, i) = Queue(s, i, f[0]) /\ f[0].s = s /\ f[0].mine = FALSE
      BY <1>1, <1>2, <1>5
    <3> QED BY <3>1 DEF Queue
  <2>3. PICK t : t = QueueCombo(s, i)
    OBVIOUS
  <2>4. /\ Apart(t) /\ Ring(t) = {i}
        /\ t.keys = s.keys /\ t.active = s.active /\ t.disabled = s.disabled /\ SameOut(s, t)
    BY <1>4, <2>1, <2>2, <2>3
  <2>5. Queues(s, t, i)
    BY <2>1, <2>4 DEF Queues
  <2> QED BY <2>3, <2>5
<1>6. CASE l = 1
  <2>1. PICK b \in Combos : b = s.combos[1] /\ Ring(s) = {b} /\ b # i
    BY <1>2, <1>6 DEF Ring
  <2>2. f[1] = QueueTurn(s, i, f[0], 1) /\ QueueCombo(s, i) = Queue(s, i, f[1])
    BY <1>1, <1>2, <1>6
  <2>3. overlaps(b, i) \in {b, i} /\ b # 0 /\ i # 0
    <3>1. ComboKeys[b] \cap ComboKeys[i] # {}
      BY DEF Sharing
    <3> QED BY <3>1 DEF overlaps, Combos
  <2>4. f[0].s = s /\ f[0].mine = FALSE /\ Len(s.combos) = Len(s.combos) - (1 - 1)
    BY <1>1, <1>2, <1>6
  <2>5. CASE overlaps(b, i) = i
    <3>1. f[1] = [mine |-> TRUE, s |-> [s EXCEPT !.disabled = s.disabled \cup {i}, !.combos = s.combos]]
      BY <2>1, <2>2, <2>3, <2>4, <2>5 DEF QueueTurn
    <3>2. PICK t : /\ t = QueueCombo(s, i)
                   /\ t = [s EXCEPT !.disabled = s.disabled \cup {i}, !.combos = s.combos]
      BY <2>2, <3>1 DEF Queue
    <3>3. /\ t.disabled = s.disabled \cup {i} /\ t.combos = s.combos /\ t.keys = s.keys
          /\ t.active = s.active /\ SameOut(s, t)
      BY <1>0, <3>2 DEF State, SameOut
    <3>4. Ring(t) = Ring(s) /\ Apart(t)
      BY <3>3 DEF Ring, Apart
    <3>5. Queues(s, t, i)
      BY <2>1, <3>3, <3>4 DEF Queues
    <3> QED BY <3>2, <3>5
  <2>6. CASE overlaps(b, i) = b
    <3>1. s.combos # <<>> /\ Tail(s.combos) = <<>>
      <4>1. s.combos # <<>>
        <5>1. Len(<<>>) = 0 /\ Len(s.combos) = 1
          BY <1>2, <1>6
        <5> QED BY <5>1
      <4>2. Tail(s.combos) \in Seq(Combos) /\ Len(Tail(s.combos)) = Len(s.combos) - 1
        BY <1>0, <4>1, TailFacts
      <4>3. Len(s.combos) - 1 = 0
        BY <1>2, <1>6
      <4> QED BY <4>1, <4>2, <4>3, EmptyFacts
    <3>2. PICK u \in Bounded : /\ u = [s EXCEPT !.disabled = s.disabled \cup {b}, !.combos = <<>>]
                               /\ u.disabled = s.disabled \cup {b} /\ u.combos = <<>>
                               /\ u.keys = s.keys /\ u.active = s.active /\ SameOut(s, u)
      <4>1. <<>> \in Seq(Combos) /\ Len(<<>>) < COMBO_BUFFER_LENGTH /\ s.disabled \cup {b} \in SUBSET Combos
        BY <1>0, FieldTypes, SizeAssumption
      <4>2. [s EXCEPT !.disabled = s.disabled \cup {b}, !.combos = <<>>] \in Bounded
        BY <4>1, BufferTypes
      <4> QED BY <1>0, <4>2 DEF State, SameOut
    <3>3. f[1] = [mine |-> FALSE, s |-> u]
      BY <2>1, <2>2, <2>3, <2>4, <2>6, <3>1, <3>2 DEF QueueTurn
    <3>4. PICK t : /\ t = QueueCombo(s, i)
                   /\ t = [u EXCEPT !.combos = RingAppend(u.combos, i), !.term = WaitTime(i, u.term)]
      <4>1. f[1].s = u /\ f[1].mine = FALSE
        BY <3>3
      <4> QED BY <2>2, <4>1 DEF Queue
    <3>5. /\ Apart(t) /\ Ring(t) = {i}
          /\ t.keys = u.keys /\ t.active = u.active /\ t.disabled = u.disabled /\ SameOut(u, t)
      BY <1>4, <3>2, <3>4
    <3>6. SameOut(s, t)
      BY <3>2, <3>5 DEF SameOut
    <3>7. Queues(s, t, i)
      BY <2>1, <3>2, <3>5, <3>6 DEF Queues
    <3> QED BY <3>4, <3>7
  <2> QED BY <2>3, <2>5, <2>6
<1> QED BY <1>3, <1>5, <1>6

\* A queue of other combos leaves room for one more.
LEMMA RingRoom ==
  ASSUME COMBO_BUFFER_LENGTH > Len(ComboKeys),
         NEW s \in Bounded, Apart(s), NEW i \in Combos, i \notin Ring(s)
  PROVE  Len(s.combos) + 1 < COMBO_BUFFER_LENGTH
<1>1. PICK l \in Nat : l = Len(s.combos) /\ \A m \in 1 .. l : s.combos[m] \in Combos
  BY FieldTypes DEF Bounded
<1>2. PICK n \in Nat : n = Len(ComboKeys) /\ Combos = 1 .. n /\ n >= 1
  BY ComboTypes DEF Combos
<1>3. SUFFICES ASSUME l > n - 1 PROVE FALSE
  BY <1>1, <1>2, SizeAssumption
<1>4. IsFiniteSet(1 .. l) /\ Cardinality(1 .. l) = l
  <2>1. 1 \in Int /\ l \in Int
    OBVIOUS
  <2>2. IsFiniteSet(1 .. l) /\ Cardinality(1 .. l) = IF 1 > l THEN 0 ELSE l - 1 + 1
    BY <2>1, FS_Interval
  <2> QED BY <2>2
<1>5. IsFiniteSet(Combos \ {i}) /\ Cardinality(Combos \ {i}) = n - 1
  <2>1. IsFiniteSet(Combos) /\ Cardinality(Combos) = n
    <3>1. 1 \in Int /\ n \in Int
      OBVIOUS
    <3>2. IsFiniteSet(1 .. n) /\ Cardinality(1 .. n) = IF 1 > n THEN 0 ELSE n - 1 + 1
      BY <3>1, FS_Interval
    <3> QED BY <1>2, <3>2
  <2> QED BY <2>1, FS_RemoveElement
<1> DEFINE f == [m \in 1 .. l |-> s.combos[m]]
<1>6. f \in [1 .. l -> Combos \ {i}]
  BY <1>1 DEF Ring
<1>7. \E x, y \in 1 .. l : x # y /\ f[x] = f[y]
  <2>1. Cardinality(Combos \ {i}) < Cardinality(1 .. l)
    BY <1>2, <1>3, <1>4, <1>5
  <2> HIDE DEF f
  <2> QED BY <1>4, <1>5, <1>6, <2>1, FS_PigeonHole
<1>8. PICK x, y \in 1 .. l : x # y /\ s.combos[x] = s.combos[y]
  BY <1>7
<1>9. ComboKeys[s.combos[x]] \cap ComboKeys[s.combos[x]] = {} /\ s.combos[x] \in Combos
  BY <1>1, <1>8 DEF Apart
<1> QED BY <1>9, ComboAssumption

LEMMA QueueSeparate ==
  ASSUME Separate, COMBO_BUFFER_LENGTH > Len(ComboKeys),
         NEW s \in Bounded, Apart(s), NEW i \in Combos, i \notin Ring(s)
  PROVE  Queues(s, QueueCombo(s, i), i)
<1>0. s \in State /\ s.combos \in Seq(Combos)
  BY FieldTypes DEF Bounded
<1>1. PICK f : /\ f[0] = [s |-> s, mine |-> FALSE]
               /\ \A j \in 1 .. Len(s.combos) : f[j] = QueueTurn(s, i, f[j - 1], j)
               /\ QueueCombo(s, i) = Queue(s, i, f[Len(s.combos)])
  BY <1>0, QueueTurns
<1>2. PICK l \in Nat : l = Len(s.combos) /\ \A m \in 1 .. l : s.combos[m] \in Combos
  BY <1>0, FieldTypes
<1> DEFINE G == {j \in 0 .. l : f[j] = f[0]}
<1>3. ASSUME NEW j \in 1 .. l, j - 1 \in G
      PROVE  j \in G
  <2>1. PICK b \in Combos : b = s.combos[j] /\ b # i
    BY <1>2 DEF Ring
  <2>2. overlaps(b, i) = 0
    BY <2>1 DEF Separate, overlaps
  <2>3. QueueTurn(s, i, f[j - 1], j) = f[j - 1]
    BY <2>1, <2>2 DEF QueueTurn
  <2>4. f[j] = QueueTurn(s, i, f[j - 1], j)
    BY <1>1, <1>2
  <2> QED BY <1>3, <2>3, <2>4
<1>4. l \in G
  <2>1. 0 \in G
    OBVIOUS
  <2>2. \A j \in 1 .. l : j - 1 \in G => j \in G
    BY <1>3
  <2> HIDE DEF G
  <2>3. \A j \in 0 .. l : j \in G
    BY <2>1, <2>2, UpTo
  <2> QED BY <2>3
<1>5. QueueCombo(s, i) = [s EXCEPT !.combos = RingAppend(s.combos, i), !.term = WaitTime(i, s.term)]
  <2>1. QueueCombo(s, i) = Queue(s, i, f[0]) /\ f[0].s = s /\ f[0].mine = FALSE
    BY <1>1, <1>2, <1>4
  <2> QED BY <2>1 DEF Queue
<1>6. PICK t : t = QueueCombo(s, i)
  OBVIOUS
<1>7. /\ t.combos = Append(s.combos, i) /\ Ring(t) = Ring(s) \cup {i}
      /\ t.keys = s.keys /\ t.active = s.active /\ t.disabled = s.disabled /\ SameOut(s, t)
  <2>1. Len(s.combos) + 1 < COMBO_BUFFER_LENGTH
    BY RingRoom
  <2> QED BY <1>5, <1>6, <2>1, AppendCombo, ZenonT(60)
<1>8. Apart(t)
  <2>1. /\ Len(t.combos) = l + 1 /\ t.combos[l + 1] = i
        /\ \A n \in 1 .. l : t.combos[n] = s.combos[n]
    <3>1. /\ Len(Append(s.combos, i)) = Len(s.combos) + 1 /\ Append(s.combos, i)[Len(s.combos) + 1] = i
          /\ \A n \in 1 .. Len(s.combos) : Append(s.combos, i)[n] = s.combos[n]
      BY <1>0, AppendFacts
    <3> QED BY <1>2, <1>7, <3>1
  <2>2. SUFFICES ASSUME NEW m \in 1 .. (l + 1), NEW n \in 1 .. (l + 1), m # n
                 PROVE  ComboKeys[t.combos[m]] \cap ComboKeys[t.combos[n]] = {}
    BY <2>1 DEF Apart
  <2>3. ASSUME NEW x \in 1 .. l PROVE ComboKeys[s.combos[x]] \cap ComboKeys[i] = {}
    <3>1. s.combos[x] \in Combos /\ s.combos[x] # i
      BY <1>2 DEF Ring
    <3> QED BY <3>1 DEF Separate
  <2>4. CASE m = l + 1
    <3>1. n \in 1 .. l
      BY <2>2, <2>4
    <3> QED BY <2>1, <2>3, <2>4, <3>1
  <2>5. CASE n = l + 1
    <3>1. m \in 1 .. l
      BY <2>2, <2>5
    <3> QED BY <2>1, <2>3, <2>5, <3>1
  <2>6. CASE m \in 1 .. l /\ n \in 1 .. l
    BY <1>2, <2>1, <2>2, <2>6 DEF Apart
  <2> QED BY <2>4, <2>5, <2>6
<1>9. Ring(s) \cup {i} \subseteq Ring(t) \cup t.disabled /\ (t.disabled \ s.disabled) \cap Ring(t) = {}
  BY <1>7
<1> QED BY <1>6, <1>7, <1>8, <1>9 DEF Queues

LEMMA QueueEffect ==
  ASSUME Roomy, NEW s \in Bounded, Apart(s), NEW i \in Combos, i \notin Ring(s)
  PROVE  Queues(s, QueueCombo(s, i), i)
BY QueueSharing, QueueSeparate DEF Roomy

-----------------------------------------------------------------------------
(* The inductive invariant.  X: a key that combos have noted and that is   *)
(* not in the buffer yet.  Y: a key that is being released.                *)

\* key_buffer holds presses of keys that are part of a combo, each once.
BufferSound(s) ==
  /\ \A n \in 1 .. Len(s.keys) : s.keys[n].as = "key"
  /\ Distinct(s) /\ Pending(s) \subseteq TakenBy(Combos)
  /\ IsFiniteSet(Pending(s)) /\ Cardinality(Pending(s)) = Len(s.keys)

\* The keys of a combo that has fired are not out and do not wait; those another
\* combo has noted wait.  A queued combo has not fired, is not disabled, and
\* all its keys wait.
KeysSound(s, X, Y) ==
  /\ Apart(s)
  /\ \A i \in Combos : s.held[i] \subseteq ComboKeys[i]
  /\ \A i \in s.active : s.held[i] # {} /\ s.held[i] \cap (Pending(s) \cup s.keysOut) = {}
  /\ \A i \in Combos \ s.active : s.held[i] \subseteq Pending(s) \cup X
  /\ s.keysOut \cap Pending(s) = {} /\ s.combosOut = s.active /\ s.lost = {}
  /\ \A b \in Ring(s) : /\ b \notin s.active /\ b \notin s.disabled
                        /\ ComboKeys[b] \subseteq Pending(s) \cup X
                        /\ ComboKeys[b] \ Y \subseteq s.held[b]

\* Combos whose keys are all down are queued unless they fired or are disabled.
QueueSound(s, E) ==
  \A i \in Combos \ E : i \notin s.active /\ i \notin s.disabled /\ AllDown(s, i) => i \in Ring(s)

DownSound(s, D) == Pending(s) \cup s.keysOut \subseteq D /\ \A i \in Combos : s.held[i] \subseteq D

Sound(s, X, Y) == s \in Bounded /\ BufferSound(s) /\ KeysSound(s, X, Y) /\ QueueSound(s, {})

SameFields(s, t) ==
  /\ t.keys = s.keys /\ t.combos = s.combos /\ t.active = s.active /\ t.disabled = s.disabled
  /\ t.held = s.held /\ t.keysOut = s.keysOut /\ t.combosOut = s.combosOut /\ t.lost = s.lost

LEMMA SameFieldsSound ==
  ASSUME NEW s, NEW t \in Bounded, NEW X, NEW Y, NEW D, SameFields(s, t)
  PROVE  /\ Sound(s, X, Y) => Sound(t, X, Y)
         /\ DownSound(s, D) => DownSound(t, D)
<1>1. Pending(t) = Pending(s) /\ Ring(t) = Ring(s) /\ (Distinct(s) => Distinct(t)) /\ (Apart(s) => Apart(t))
  BY DEF SameFields, Pending, Ring, Distinct, Apart
<1>2. BufferSound(s) => BufferSound(t)
  BY <1>1 DEF BufferSound, SameFields
<1>3. KeysSound(s, X, Y) => KeysSound(t, X, Y)
  BY <1>1 DEF KeysSound, SameFields
<1>4. QueueSound(s, {}) => QueueSound(t, {})
  BY <1>1 DEF QueueSound, SameFields, AllDown
<1>5. DownSound(s, D) => DownSound(t, D)
  BY <1>1 DEF DownSound, SameFields
<1> QED BY <1>2, <1>3, <1>4, <1>5 DEF Sound

\* Empty buffers: nothing waits.
LEMMA EmptyBuffers ==
  ASSUME NEW t, t.keys = <<>>, t.combos = <<>>
  PROVE  Pending(t) = {} /\ Firing(t) = {} /\ Ring(t) = {} /\ Apart(t) /\ BufferSound(t)
<1>1. Len(<<>>) = 0
  OBVIOUS
<1>2. Pending(t) = {} /\ Firing(t) = {} /\ Ring(t) = {} /\ Apart(t) /\ Distinct(t)
  BY <1>1 DEF Pending, Firing, Ring, Apart, Distinct
<1>3. IsFiniteSet({}) /\ Cardinality({}) = 0
  BY FS_EmptySet
<1> QED BY <1>1, <1>2, <1>3 DEF BufferSound

LEMMA NoneFiring ==
  ASSUME NEW s, BufferSound(s)
  PROVE  Firing(s) = {}
BY DEF BufferSound, Firing

\* Emptying the buffers keeps the invariant, and completes it: no key that is
\* being released is missing any more.
LEMMA SettledSound ==
  ASSUME Roomy, NEW k \in Keys, NEW s, Sound(s, {}, {k}), NEW t \in Bounded,
         NEW F \in SUBSET Ring(s), Settled(s, t, F)
  PROVE  Sound(t, {}, {}) /\ t.disabled \subseteq t.active
<1>1. Pending(t) = {} /\ Ring(t) = {} /\ Apart(t) /\ BufferSound(t)
  BY EmptyBuffers DEF Settled
<1>2. s \in Bounded /\ Firing(s) = {} /\ Ring(s) \subseteq Combos
  <2>1. s.combos \in Seq(Combos) /\ s \in Bounded
    BY FieldTypes DEF Sound, Bounded
  <2>2. Ring(s) \subseteq Combos
    BY <2>1 DEF Ring
  <2> QED BY <2>1, <2>2, NoneFiring DEF Sound
<1>3. t.combosOut = t.active /\ t.lost = {} /\ t.active \subseteq Combos /\ t.disabled \subseteq t.active
  <2>1. t.active \subseteq Combos
    BY FieldTypes DEF Bounded
  <2> QED BY <1>2, <2>1 DEF Settled, Sound, KeysSound
<1>4. \A i \in Combos : t.held[i] = IF i \in t.active THEN s.held[i] ELSE {}
  BY DEF Settled
<1>5. \A i \in Combos : t.held[i] \subseteq ComboKeys[i]
  BY <1>4 DEF Sound, KeysSound
<1>6. ASSUME NEW i \in t.active
      PROVE  t.held[i] # {} /\ t.held[i] \cap (Pending(t) \cup t.keysOut) = {}
  <2>0. i \in Combos /\ t.held[i] = s.held[i]
    BY <1>3, <1>4
  <2>1. t.keysOut = s.keysOut \cup (Pending(s) \ TakenBy(F))
    BY DEF Settled
  <2>2. CASE i \in s.active
    BY <1>1, <2>0, <2>1, <2>2 DEF Sound, KeysSound
  <2>3. CASE i \in F
    <3>1. i \in Ring(s)
      BY <2>3
    <3>2. /\ i \notin s.active /\ ComboKeys[i] \ {k} \subseteq s.held[i]
          /\ s.held[i] \subseteq ComboKeys[i] /\ s.held[i] \subseteq Pending(s)
          /\ s.keysOut \cap Pending(s) = {}
      BY <2>0, <3>1 DEF Sound, KeysSound
    <3>3. ComboKeys[i] \subseteq TakenBy(F)
      BY <2>3 DEF TakenBy
    <3>4. ComboKeys[i] # {} /\ ComboKeys[i] # {k}
      BY <2>0, ComboAssumption DEF Roomy
    <3>5. s.held[i] # {}
      BY <3>2, <3>4
    <3> QED BY <1>1, <2>0, <2>1, <3>2, <3>3, <3>5
  <2> QED BY <2>2, <2>3 DEF Settled
<1>7. \A i \in Combos \ t.active : t.held[i] = {}
  BY <1>4
<1>8. KeysSound(t, {}, {})
  BY <1>1, <1>3, <1>5, <1>6, <1>7 DEF KeysSound
<1>9. QueueSound(t, {})
  BY <1>7, ComboAssumption DEF QueueSound, AllDown
<1> QED BY <1>1, <1>3, <1>8, <1>9 DEF Sound

LEMMA SettledDown ==
  ASSUME NEW s, NEW t, NEW F, NEW D, Settled(s, t, F), DownSound(s, D)
  PROVE  DownSound(t, D)
<1>1. Pending(t) = {}
  BY EmptyBuffers DEF Settled
<1>2. \A i \in Combos : t.held[i] = IF i \in t.active THEN s.held[i] ELSE {}
  BY DEF Settled
<1> QED BY <1>1, <1>2 DEF Settled, DownSound

\* The invariant is what apply_combos needs.
LEMMA SoundApplies ==
  ASSUME NEW s, NEW Y, Sound(s, {}, Y)
  PROVE  s \in Bounded /\ Distinct(s) /\ Apart(s) /\ CanApply(s)
BY DEF Sound, BufferSound, KeysSound, CanApply

LEMMA SoundWeaker ==
  ASSUME NEW s, NEW Y, Sound(s, {}, {})
  PROVE  Sound(s, {}, Y)
BY DEF Sound, KeysSound

-----------------------------------------------------------------------------
(* A release, combo by combo.                                              *)

Up(s, i, k) == [s EXCEPT !.held[i] = @ \ {k}]

LEMMA UpFields ==
  ASSUME NEW s \in Bounded, NEW i \in Combos, NEW k \in Keys
  PROVE  LET t == Up(s, i, k)
         IN /\ t \in Bounded /\ t.held[i] = s.held[i] \ {k}
            /\ \A j \in Combos : j # i => t.held[j] = s.held[j]
            /\ t.keys = s.keys /\ t.combos = s.combos /\ t.active = s.active
            /\ t.disabled = s.disabled /\ t.keysOut = s.keysOut
            /\ t.combosOut = s.combosOut /\ t.lost = s.lost
            /\ Pending(t) = Pending(s) /\ Ring(t) = Ring(s)
            /\ (Apart(s) => Apart(t)) /\ (BufferSound(s) => BufferSound(t))
<1>1. PICK h : h = [s.held EXCEPT ![i] = s.held[i] \ {k}]
  OBVIOUS
<1>2. h[i] = s.held[i] \ {k} /\ \A j \in Combos : j # i => h[j] = s.held[j]
  BY <1>1, FieldTypes DEF Bounded
<1>3. PICK t : t = Up(s, i, k) /\ t = [s EXCEPT !.held = h] /\ t \in Bounded
  BY <1>1, HeldTypes DEF Up
<1>4. /\ t.held = h /\ t.keys = s.keys /\ t.combos = s.combos /\ t.active = s.active
      /\ t.disabled = s.disabled /\ t.keysOut = s.keysOut
      /\ t.combosOut = s.combosOut /\ t.lost = s.lost
  BY <1>3 DEF Bounded, State
<1>5. Pending(t) = Pending(s) /\ Ring(t) = Ring(s) /\ (Apart(s) => Apart(t)) /\ (Distinct(s) => Distinct(t))
  BY <1>4 DEF Pending, Ring, Apart, Distinct
<1>6. BufferSound(s) => BufferSound(t)
  BY <1>4, <1>5 DEF BufferSound
<1> QED BY <1>2, <1>3, <1>4, <1>5, <1>6

\* A combo forgets a key that goes up, unless that is the last key of a combo that
\* has fired.
LEMMA UpSound ==
  ASSUME NEW s, NEW i \in Combos, NEW k \in ComboKeys[i], k \in Keys, Sound(s, {}, {k}),
         i \in s.active => s.held[i] # {k}
  PROVE  Sound(Up(s, i, k), {}, {k})
<1>1. s \in Bounded
  BY DEF Sound
<1>2. PICK t : t = Up(s, i, k)
  OBVIOUS
<1>3. /\ t \in Bounded /\ t.held[i] = s.held[i] \ {k}
      /\ \A j \in Combos : j # i => t.held[j] = s.held[j]
      /\ t.keys = s.keys /\ t.combos = s.combos /\ t.active = s.active
      /\ t.disabled = s.disabled /\ t.keysOut = s.keysOut
      /\ t.combosOut = s.combosOut /\ t.lost = s.lost
      /\ Pending(t) = Pending(s) /\ Ring(t) = Ring(s)
      /\ (Apart(s) => Apart(t)) /\ (BufferSound(s) => BufferSound(t))
  BY <1>1, <1>2, UpFields
<1>4. \A j \in Combos : t.held[j] \subseteq s.held[j] /\ s.held[j] \ {k} \subseteq t.held[j]
  BY <1>3
<1>5. s.active \subseteq Combos /\ Ring(s) \subseteq Combos
  <2>1. s.combos \in Seq(Combos) /\ s.active \subseteq Combos
    BY <1>1, FieldTypes DEF Bounded
  <2> QED BY <2>1 DEF Ring
<1>6. \A j \in t.active : t.held[j] # {}
  BY <1>3, <1>5 DEF Sound, KeysSound
<1>7. \A j \in t.active : t.held[j] \cap (Pending(t) \cup t.keysOut) = {}
  BY <1>3, <1>4, <1>5 DEF Sound, KeysSound
<1>8. \A j \in Combos \ t.active : t.held[j] \subseteq Pending(t)
  BY <1>3, <1>4 DEF Sound, KeysSound
<1>9. \A b \in Ring(t) : ComboKeys[b] \ {k} \subseteq t.held[b]
  BY <1>3, <1>4, <1>5 DEF Sound, KeysSound
<1>10. \A j \in Combos : t.held[j] \subseteq ComboKeys[j]
  BY <1>4 DEF Sound, KeysSound
<1>11. KeysSound(t, {}, {k})
  BY <1>3, <1>6, <1>7, <1>8, <1>9, <1>10 DEF Sound, KeysSound
<1>12. QueueSound(t, {})
  BY <1>3 DEF Sound, QueueSound, AllDown
<1> QED BY <1>2, <1>3, <1>11, <1>12 DEF Sound

\* The last key of a combo that has fired goes up.
LEMMA LastUpSound ==
  ASSUME NEW s, NEW i \in Combos, NEW k \in ComboKeys[i], k \in Keys, Sound(s, {}, {k}),
         i \in s.active, s.held[i] = {k}
  PROVE  LET t == Up(release_combo(s, i), i, k)
         IN /\ Sound(t, {}, {k}) /\ Pending(t) = Pending(s) /\ t.keysOut = s.keysOut
            /\ t.held[i] = {} /\ \A j \in Combos : j # i => t.held[j] = s.held[j]
<1>1. s \in Bounded
  BY DEF Sound
<1>2. PICK u \in Bounded : /\ u = release_combo(s, i) /\ u.active = s.active \ {i}
                           /\ u.combosOut = s.combosOut \ {i} /\ u.held = s.held
                           /\ u.keys = s.keys /\ u.combos = s.combos /\ u.disabled = s.disabled
                           /\ u.keysOut = s.keysOut /\ u.lost = s.lost
  <2>1. release_combo(s, i) \in Bounded
    BY <1>1, ReleaseComboTypes
  <2> QED BY <1>1, <2>1 DEF release_combo, Bounded, State
<1>3. Pending(u) = Pending(s) /\ Ring(u) = Ring(s) /\ (Apart(s) => Apart(u)) /\ (Distinct(s) => Distinct(u))
  <2>1. u.keys = s.keys /\ u.combos = s.combos
    BY <1>2
  <2>2. Pending(u) = Pending(s) /\ Ring(u) = Ring(s)
    BY <2>1 DEF Pending, Ring
  <2>3. (Apart(s) => Apart(u)) /\ (Distinct(s) => Distinct(u))
    BY <2>1 DEF Apart, Distinct
  <2> QED BY <2>2, <2>3
<1>4. BufferSound(s) => BufferSound(u)
  BY <1>2, <1>3 DEF BufferSound
<1>5. PICK t : t = Up(u, i, k)
  OBVIOUS
<1>6. /\ t \in Bounded /\ t.held[i] = u.held[i] \ {k}
      /\ \A j \in Combos : j # i => t.held[j] = u.held[j]
      /\ t.active = u.active /\ t.disabled = u.disabled /\ t.keysOut = u.keysOut
      /\ t.combosOut = u.combosOut /\ t.lost = u.lost
      /\ Pending(t) = Pending(u) /\ Ring(t) = Ring(u)
      /\ (Apart(u) => Apart(t)) /\ (BufferSound(u) => BufferSound(t))
  BY <1>5, UpFields
<1>7. t.held[i] = {} /\ \A j \in Combos : j # i => t.held[j] = s.held[j]
  BY <1>2, <1>6
<1>8. s.active \subseteq Combos /\ Ring(s) \subseteq Combos /\ i \notin Ring(s)
  <2>1. s.combos \in Seq(Combos) /\ s.active \subseteq Combos
    BY <1>1, FieldTypes DEF Bounded
  <2> QED BY <2>1 DEF Ring, Sound, KeysSound
<1>9. t.active = s.active \ {i} /\ t.combosOut = t.active /\ t.keysOut = s.keysOut /\ t.lost = {}
      /\ t.disabled = s.disabled
  BY <1>2, <1>6 DEF Sound, KeysSound
<1>10. \A j \in t.active : t.held[j] # {} /\ t.held[j] \cap (Pending(t) \cup t.keysOut) = {}
  BY <1>3, <1>6, <1>7, <1>8, <1>9 DEF Sound, KeysSound
<1>11. \A j \in Combos \ t.active : t.held[j] \subseteq Pending(t)
  BY <1>3, <1>6, <1>7, <1>9 DEF Sound, KeysSound
<1>12. \A b \in Ring(t) : /\ b \notin t.active /\ b \notin t.disabled
                          /\ ComboKeys[b] \subseteq Pending(t) /\ ComboKeys[b] \ {k} \subseteq t.held[b]
  BY <1>3, <1>6, <1>7, <1>8, <1>9 DEF Sound, KeysSound
<1>13. Apart(t) /\ BufferSound(t) /\ \A j \in Combos : t.held[j] \subseteq ComboKeys[j]
  BY <1>3, <1>4, <1>6, <1>7 DEF Sound, KeysSound
<1>14. t.keysOut \cap Pending(t) = {}
  BY <1>3, <1>6, <1>9 DEF Sound, KeysSound
<1>15. KeysSound(t, {}, {k})
  BY <1>9, <1>10, <1>11, <1>12, <1>13, <1>14 DEF KeysSound
<1>16. QueueSound(t, {})
  BY <1>3, <1>6, <1>7, <1>9, ComboAssumption DEF Sound, QueueSound, AllDown
<1>17. Sound(t, {}, {k})
  BY <1>6, <1>13, <1>15, <1>16 DEF Sound
<1> QED BY <1>2, <1>3, <1>5, <1>6, <1>7, <1>9, <1>17

\* Two queued combos share no key.
LEMMA RingApart ==
  ASSUME NEW s, Apart(s), NEW a \in Ring(s), NEW b \in Ring(s), a # b
  PROVE  ComboKeys[a] \cap ComboKeys[b] = {}
<1>1. PICK m \in 1 .. Len(s.combos) : a = s.combos[m]
  BY DEF Ring
<1>2. PICK n \in 1 .. Len(s.combos) : b = s.combos[n]
  BY DEF Ring
<1> QED BY <1>1, <1>2 DEF Apart

LEMMA RingIsRange ==
  ASSUME NEW s \in Bounded
  PROVE  Range(s.combos) = Ring(s) /\ Ring(s) \subseteq Combos /\ s.active \subseteq Combos
<1>1. s.combos \in Seq(Combos) /\ s.active \subseteq Combos
  BY FieldTypes DEF Bounded
<1> QED BY <1>1, RangeTypes DEF Ring

\* A combo for holds only, or one that is disabled, is given up: it is not in the
\* queue then, or alone there.
LEMMA DropSound ==
  ASSUME Roomy, NEW k, NEW s, Sound(s, {}, {k}), NEW i \in Combos,
         i \in s.disabled \/ i \in MustHold
  PROVE  LET t == drop_combo_from_buffer(s, i)
         IN /\ Sound(t, {}, {k}) /\ Ring(t) = Ring(s) \ {i} /\ Pending(t) = Pending(s)
            /\ t.held = s.held /\ t.active = s.active /\ t.keysOut = s.keysOut
<1>0. s \in Bounded
  BY DEF Sound
<1>1. CASE i \notin Ring(s)
  <2>1. drop_combo_from_buffer(s, i) = s
    BY <1>0, <1>1, RingIsRange DEF drop_combo_from_buffer
  <2> QED BY <1>1, <2>1
<1>2. CASE i \in Ring(s)
  <2>1. i \in MustHold /\ Apart(s)
    BY <1>2 DEF Sound, KeysSound
  <2>2. Sharing
    BY <2>1 DEF Roomy, Separate
  <2>3. Ring(s) = {i}
    <3>1. \A b \in Ring(s) : b \in Combos /\ (b # i => ComboKeys[b] \cap ComboKeys[i] = {})
      BY <1>0, <1>2, <2>1, RingIsRange, RingApart
    <3> QED BY <1>2, <2>2, <3>1 DEF Sharing
  <2>4. PICK l \in Nat : l = Len(s.combos) /\ s.combos \in Seq(Combos)
    BY <1>0, FieldTypes DEF Bounded
  <2>5. \A m \in 1 .. l : s.combos[m] = i
    BY <2>3, <2>4 DEF Ring
  <2>6. l = 1
    <3>1. l # 0
      BY <1>2, <2>4 DEF Ring
    <3>2. SUFFICES ASSUME l > 1 PROVE FALSE
      BY <3>1
    <3>3. 1 \in 1 .. l /\ 2 \in 1 .. l /\ 1 # 2
      BY <3>2
    <3>4. ComboKeys[i] \cap ComboKeys[i] = {}
      <4>1. s.combos[1] = i /\ s.combos[2] = i
        BY <2>5, <3>3
      <4> QED BY <2>1, <2>4, <3>3, <4>1 DEF Apart
    <3> QED BY <3>4, ComboAssumption
  <2>7. s.combos # <<>> /\ s.combos[1] = i
    <3>1. Len(<<>>) = 0 /\ Len(s.combos) = 1
      BY <2>4, <2>6
    <3> QED BY <2>5, <2>6, <3>1
  <2>8. Tail(s.combos) = <<>>
    <3>1. Tail(s.combos) \in Seq(Combos) /\ Len(Tail(s.combos)) = Len(s.combos) - 1
      BY <2>4, <2>7, TailFacts
    <3>2. Len(s.combos) - 1 = 0
      BY <2>4, <2>6
    <3> QED BY <3>1, <3>2, EmptyFacts
  <2>9. PICK t : t = drop_combo_from_buffer(s, i)
    OBVIOUS
  <2>10. /\ t \in Bounded /\ t.combos = <<>> /\ t.disabled = s.disabled \cup {i}
         /\ t.keys = s.keys /\ t.active = s.active /\ SameOut(s, t)
    BY <1>0, <2>7, <2>8, <2>9, DropEffect, DropTypes
  <2>11. /\ Ring(t) = {} /\ Apart(t) /\ Pending(t) = Pending(s)
         /\ (Distinct(s) => Distinct(t)) /\ t.keys = s.keys
    <3>1. Len(<<>>) = 0 /\ t.combos = <<>> /\ t.keys = s.keys
      BY <2>10
    <3> QED BY <3>1 DEF Ring, Apart, Pending, Distinct
  <2>12. BufferSound(t)
    BY <2>11 DEF Sound, BufferSound
  <2>13. KeysSound(t, {}, {k})
    BY <2>10, <2>11 DEF Sound, KeysSound, SameOut
  <2>14. QueueSound(t, {})
    BY <2>3, <2>10, <2>11 DEF Sound, QueueSound, AllDown, SameOut
  <2>15. Sound(t, {}, {k})
    BY <2>10, <2>12, <2>13, <2>14 DEF Sound
  <2> QED BY <2>3, <2>9, <2>10, <2>11, <2>15 DEF SameOut
<1> QED BY <1>1, <1>2

\* A combo for taps only, released in time, fires, and then the others that are
\* queued.
LEMMA TapApplies ==
  ASSUME NEW k, NEW s, Sound(s, {}, {k}), NEW i \in Combos, i \in Ring(s), i \in MustTap
  PROVE  \E F \in SUBSET Ring(s) : i \in F /\ Settled(s, apply_combos(apply_combo(s, i)), F)
<1>0. s \in Bounded /\ Distinct(s) /\ Apart(s) /\ Firing(s) = {}
  BY NoneFiring DEF Sound, BufferSound, KeysSound
<1>1. i \notin s.disabled /\ ComboKeys[i] \subseteq Pending(s)
  BY DEF Sound, KeysSound
<1>2. PICK a \in Bounded : /\ a = ApplyKeys(s, i) /\ Distinct(a)
                           /\ Pending(a) = Pending(s) \ ComboKeys[i] /\ Firing(a) = Firing(s) \cup {i}
                           /\ a.active = s.active \cup {i} /\ a.disabled = s.disabled
                           /\ a.combos = s.combos /\ SameOut(s, a)
  BY <1>0, <1>1, ApplyKeysEffect, ApplyKeysTypes
<1>3. PICK c : c = IF Head(s.combos) = i THEN Tail(s.combos) ELSE s.combos
  OBVIOUS
<1>4. PICK u \in Bounded : /\ u = apply_combo(s, i) /\ u.keys = a.keys /\ u.active = a.active
                           /\ u.disabled = s.disabled \cup {i} /\ u.combos = c /\ SameOut(a, u)
  <2>1. i \in Range(a.combos)
    BY <1>0, <1>2, RingIsRange
  <2>2. apply_combo(s, i) = [a EXCEPT !.disabled = s.disabled \cup {i}, !.combos = c]
    BY <1>1, <1>2, <1>3, <2>1 DEF apply_combo, drop_combo_from_buffer
  <2>3. apply_combo(s, i) \in Bounded
    BY <1>0, ApplyComboTypes
  <2> QED BY <2>2, <2>3 DEF Bounded, State, SameOut
<1>5. Distinct(u) /\ Pending(u) = Pending(s) \ ComboKeys[i] /\ Firing(u) = {i}
  <2>1. u.keys = a.keys
    BY <1>4
  <2>2. Pending(u) = Pending(a) /\ Firing(u) = Firing(a) /\ (Distinct(a) => Distinct(u))
    BY <2>1 DEF Pending, Firing, Distinct
  <2> QED BY <1>0, <1>2, <2>2
<1>6. Apart(u) /\ Ring(u) \subseteq Ring(s)
  <2>1. CASE Head(s.combos) = i
    <3>1. s.combos \in Seq(Combos)
      BY <1>0, FieldTypes DEF Bounded
    <3>2. s.combos # <<>>
      BY DEF Ring
    <3>3. PICK l \in Nat : /\ l = Len(s.combos) /\ Len(u.combos) = l - 1
                           /\ \A m \in 1 .. l - 1 : u.combos[m] = s.combos[m + 1]
      BY <1>3, <1>4, <2>1, <3>1, <3>2, TailFacts
    <3>4. \A m \in 1 .. l - 1 : m + 1 \in 1 .. l
      BY <3>3
    <3>5. Ring(u) \subseteq Ring(s)
      BY <3>3, <3>4 DEF Ring
    <3>6. Apart(u)
      <4>1. SUFFICES ASSUME NEW m \in 1 .. l - 1, NEW n \in 1 .. l - 1, m # n
                     PROVE  ComboKeys[u.combos[m]] \cap ComboKeys[u.combos[n]] = {}
        BY <3>3 DEF Apart
      <4>2. m + 1 \in 1 .. l /\ n + 1 \in 1 .. l /\ m + 1 # n + 1
        BY <4>1
      <4>3. ComboKeys[s.combos[m + 1]] \cap ComboKeys[s.combos[n + 1]] = {}
        BY <1>0, <3>3, <4>2 DEF Apart
      <4> QED BY <3>3, <4>3
    <3> QED BY <3>5, <3>6
  <2>2. CASE Head(s.combos) # i
    <3>1. u.combos = s.combos
      BY <1>3, <1>4, <2>2
    <3> QED BY <1>0, <3>1 DEF Apart, Ring
  <2> QED BY <2>1, <2>2
<1>7. ASSUME NEW b \in Ring(u) \ MustTap
      PROVE  b \notin u.disabled /\ ComboKeys[b] \subseteq Pending(u)
  <2>1. b \in Ring(s) /\ b # i
    BY <1>6
  <2>2. ComboKeys[b] \cap ComboKeys[i] = {}
    BY <1>0, <2>1, RingApart
  <2>3. b \notin s.disabled /\ ComboKeys[b] \subseteq Pending(s)
    BY <2>1 DEF Sound, KeysSound
  <2> QED BY <1>4, <1>5, <2>1, <2>2, <2>3
<1>8. PICK v : v = apply_combos(u) /\ Settled(u, v, Ring(u) \ MustTap)
  <2>1. CanApply(u)
    BY <1>7 DEF CanApply
  <2> QED BY <1>5, <1>6, <2>1, ApplyCombosEffect
<1>9. PICK F : F = (Ring(u) \ MustTap) \cup {i} /\ F \subseteq Ring(s) /\ i \in F
  BY <1>6
<1>10. TakenBy(F) = TakenBy(Ring(u) \ MustTap) \cup ComboKeys[i]
  BY <1>9 DEF TakenBy
<1>11. u.held = s.held /\ u.keysOut = s.keysOut /\ u.combosOut = s.combosOut /\ u.lost = s.lost
       /\ u.active = s.active \cup {i}
  BY <1>2, <1>4 DEF SameOut
<1>12. v.active = s.active \cup F
  BY <1>8, <1>9, <1>11 DEF Settled
<1>13. v.keysOut = s.keysOut \cup (Pending(s) \ TakenBy(F))
  <2>1. v.keysOut = u.keysOut \cup (Pending(u) \ TakenBy(Ring(u) \ MustTap))
    BY <1>8 DEF Settled
  <2> QED BY <1>5, <1>10, <1>11, <2>1
<1>14. v.combosOut = s.combosOut \cup Firing(s) \cup F
  <2>1. v.combosOut = u.combosOut \cup Firing(u) \cup (Ring(u) \ MustTap)
    BY <1>8 DEF Settled
  <2> QED BY <1>0, <1>5, <1>9, <1>11, <2>1
<1>15. Settled(s, v, F)
  BY <1>8, <1>11, <1>12, <1>13, <1>14 DEF Settled
<1> QED BY <1>4, <1>8, <1>9, <1>15

\* Once a combo has answered for the release of k: k is not out, and if it waits
\* a combo will take it.
Spoken(s, k, n) ==
  /\ k \notin s.keysOut
  /\ k \in Pending(s) => \E b \in Ring(s) \ MustTap : b <= n /\ k \in ComboKeys[b]

\* The state after the first n combos have seen the release of k, D being down.
Releasing(p, k, D, n) ==
  /\ Sound(p.s, {}, {k}) /\ DownSound(p.s, D) /\ p.mine \in BOOLEAN
  /\ \A i \in Combos : i <= n => k \notin p.s.held[i]
  /\ p.mine => Spoken(p.s, k, n)

Shrinks(s, t) ==
  /\ \A j \in Combos : t.held[j] \subseteq s.held[j]
  /\ Pending(t) \cup t.keysOut \subseteq Pending(s) \cup s.keysOut

\* ComboRelease for a combo that k is part of.
LEMMA ComboReleaseSound ==
  ASSUME Roomy, NEW k \in Keys, NEW i \in Combos, k \in ComboKeys[i], NEW s, Sound(s, {}, {k})
  PROVE  LET r == ComboRelease(s, i, k)
         IN /\ Sound(r.s, {}, {k}) /\ Shrinks(s, r.s) /\ r.mine \in BOOLEAN /\ k \notin r.s.held[i]
            /\ Spoken(s, k, i - 1) \/ r.mine => Spoken(r.s, k, i)
<1> DEFINE Goal(t, mine) ==
             /\ Sound(t, {}, {k}) /\ Shrinks(s, t) /\ mine \in BOOLEAN /\ k \notin t.held[i]
             /\ Spoken(s, k, i - 1) \/ mine => Spoken(t, k, i)
           part == i \notin s.disabled /\ s.on
<1>0. s \in Bounded /\ part \in BOOLEAN /\ i \in Nat /\ Ring(s) \subseteq Combos
  BY FieldTypes, ComboTypes, RingIsRange DEF Sound, Bounded
<1>a. \A b \in Combos : b \in Nat
  BY ComboTypes
<1>1. ASSUME NEW u \in Bounded, NEW t, t = Up(u, i, k)
      PROVE  /\ t.keysOut = u.keysOut /\ Pending(t) = Pending(u) /\ Ring(t) = Ring(u)
             /\ k \notin t.held[i] /\ \A j \in Combos : t.held[j] \subseteq u.held[j]
  <2>1. /\ t.held[i] = u.held[i] \ {k} /\ \A j \in Combos : j # i => t.held[j] = u.held[j]
        /\ t.keysOut = u.keysOut /\ Pending(t) = Pending(u) /\ Ring(t) = Ring(u)
    BY <1>1, UpFields
  <2> QED BY <2>1
<1>b. ASSUME NEW t, t.keysOut = s.keysOut, Pending(t) = Pending(s), Ring(s) \ {i} \subseteq Ring(t),
             Spoken(s, k, i - 1)
      PROVE  Spoken(t, k, i)
  <2>1. CASE k \in Pending(s)
    <3>1. PICK b \in Ring(s) \ MustTap : b <= i - 1 /\ k \in ComboKeys[b]
      BY <1>b, <2>1 DEF Spoken
    <3>2. b \in Nat
      BY <1>0, <1>a
    <3>3. b <= i /\ b # i
      BY <1>0, <3>1, <3>2
    <3> QED BY <1>b, <3>1, <3>3 DEF Spoken
  <2>2. CASE k \notin Pending(s)
    BY <1>b, <2>2 DEF Spoken
  <2> QED BY <2>1, <2>2
<1>2. CASE i \notin s.active /\ AllDown(s, i) /\ (i \in s.disabled \/ i \in MustHold)
  <2>1. PICK u : /\ u = drop_combo_from_buffer(s, i) /\ Sound(u, {}, {k})
                 /\ Ring(u) = Ring(s) \ {i} /\ Pending(u) = Pending(s)
                 /\ u.held = s.held /\ u.active = s.active /\ u.keysOut = s.keysOut
    BY <1>2, DropSound
  <2>2. PICK t : t = Up(u, i, k)
    OBVIOUS
  <2>3. Sound(t, {}, {k})
    BY <1>2, <2>1, <2>2, UpSound
  <2>4. /\ t.keysOut = s.keysOut /\ Pending(t) = Pending(s) /\ Ring(t) = Ring(s) \ {i}
        /\ k \notin t.held[i] /\ \A j \in Combos : t.held[j] \subseteq s.held[j]
    BY <1>1, <2>1, <2>2 DEF Sound
  <2>5. Spoken(s, k, i - 1) => Spoken(t, k, i)
    BY <1>b, <2>4
  <2>6. Goal(t, FALSE)
    BY <2>3, <2>4, <2>5 DEF Shrinks
  <2>7. ComboRelease(s, i, k) = [s |-> t, mine |-> FALSE]
    BY <1>2, <2>1, <2>2 DEF ComboRelease, Up
  <2> QED BY <2>6, <2>7
<1>3. CASE i \notin s.active /\ AllDown(s, i) /\ ~(i \in s.disabled \/ i \in MustHold) /\ i \in MustTap
  <2>1. i \in Ring(s) /\ ComboKeys[i] \subseteq Pending(s) /\ s.keysOut \cap Pending(s) = {}
    <3>1. i \in Ring(s)
      BY <1>3 DEF Sound, QueueSound
    <3> QED BY <3>1 DEF Sound, KeysSound
  <2>2. PICK v : v = apply_combos(apply_combo(s, i))
    OBVIOUS
  <2>3. PICK F \in SUBSET Ring(s) : i \in F /\ Settled(s, v, F)
    BY <1>3, <2>1, <2>2, TapApplies
  <2>4. v \in Bounded
    BY <1>0, <2>2, ApplyComboTypes, ApplyCombosTypes
  <2>5. Sound(v, {}, {k})
    BY <2>3, <2>4, SettledSound, SoundWeaker
  <2>6. /\ v.keysOut = s.keysOut \cup (Pending(s) \ TakenBy(F)) /\ Pending(v) = {}
        /\ \A j \in Combos : v.held[j] \subseteq s.held[j]
        /\ v.held[i] = s.held[i]
    <3>1. Pending(v) = {}
      BY <2>3, EmptyBuffers DEF Settled
    <3>2. \A j \in Combos : v.held[j] = IF j \in v.active THEN s.held[j] ELSE {}
      BY <2>3 DEF Settled
    <3>3. i \in v.active
      BY <2>3 DEF Settled
    <3> QED BY <2>3, <3>1, <3>2, <3>3 DEF Settled
  <2>7. k \notin v.keysOut
    <3>1. k \in TakenBy(F)
      BY <2>3 DEF TakenBy
    <3> QED BY <2>1, <2>6, <3>1
  <2>8. PICK t : t = Up(v, i, k)
    OBVIOUS
  <2>9. Sound(t, {}, {k})
    <3>1. v.held[i] # {k}
      BY <1>3, <2>6 DEF AllDown, Roomy
    <3> QED BY <2>5, <2>8, <3>1, UpSound
  <2>10. /\ t.keysOut = v.keysOut /\ Pending(t) = {} /\ k \notin t.held[i]
         /\ \A j \in Combos : t.held[j] \subseteq v.held[j]
    BY <1>1, <2>4, <2>6, <2>8
  <2>11. Shrinks(s, t)
    BY <2>6, <2>10 DEF Shrinks
  <2>12. Goal(t, part)
    BY <1>0, <2>7, <2>9, <2>10, <2>11 DEF Spoken
  <2>13. ComboRelease(s, i, k) = [s |-> t, mine |-> part]
    BY <1>3, <2>2, <2>8 DEF ComboRelease, Up
  <2> HIDE DEF part
  <2> QED BY <2>12, <2>13
<1>4. CASE i \notin s.active /\ AllDown(s, i) /\ ~(i \in s.disabled \/ i \in MustHold) /\ i \notin MustTap
  <2>1. i \in Ring(s) /\ ComboKeys[i] \subseteq Pending(s) /\ s.keysOut \cap Pending(s) = {}
    <3>1. i \in Ring(s)
      BY <1>4 DEF Sound, QueueSound
    <3> QED BY <3>1 DEF Sound, KeysSound
  <2>2. PICK t : t = Up(s, i, k)
    OBVIOUS
  <2>3. Sound(t, {}, {k})
    BY <1>4, <2>2, UpSound
  <2>4. /\ t.keysOut = s.keysOut /\ Pending(t) = Pending(s) /\ Ring(t) = Ring(s)
        /\ k \notin t.held[i] /\ \A j \in Combos : t.held[j] \subseteq s.held[j]
    BY <1>0, <1>1, <2>2
  <2>5. Spoken(t, k, i)
    BY <1>0, <1>4, <2>1, <2>4 DEF Spoken
  <2>6. Goal(t, part)
    BY <1>0, <2>3, <2>4, <2>5 DEF Shrinks
  <2>7. ComboRelease(s, i, k) = [s |-> t, mine |-> part]
    BY <1>4, <2>2 DEF ComboRelease, Up
  <2> HIDE DEF part
  <2> QED BY <2>6, <2>7
<1>5. CASE i \in s.active /\ k \in s.held[i]
  <2>1. k \notin Pending(s) /\ k \notin s.keysOut
    BY <1>5 DEF Sound, KeysSound
  <2>2. PICK t : /\ ComboRelease(s, i, k) = [s |-> t, mine |-> TRUE]
                 /\ t = Up(IF s.held[i] = {k} THEN release_combo(s, i) ELSE s, i, k)
    BY <1>5 DEF ComboRelease, Up
  <2>3. /\ Sound(t, {}, {k}) /\ t.keysOut = s.keysOut /\ Pending(t) = Pending(s)
        /\ k \notin t.held[i] /\ \A j \in Combos : t.held[j] \subseteq s.held[j]
    <3>1. CASE s.held[i] = {k}
      <4>1. /\ Sound(t, {}, {k}) /\ Pending(t) = Pending(s) /\ t.keysOut = s.keysOut
            /\ t.held[i] = {} /\ \A j \in Combos : j # i => t.held[j] = s.held[j]
        BY <1>5, <2>2, <3>1, LastUpSound
      <4> QED BY <4>1
    <3>2. CASE s.held[i] # {k}
      <4>1. t = Up(s, i, k)
        BY <2>2, <3>2
      <4>2. Sound(t, {}, {k})
        BY <3>2, <4>1, UpSound
      <4> QED BY <1>0, <1>1, <4>1, <4>2
    <3> QED BY <3>1, <3>2
  <2>4. Goal(t, TRUE)
    BY <2>1, <2>3 DEF Shrinks, Spoken
  <2> QED BY <2>2, <2>4
<1>6. CASE ~(i \notin s.active /\ AllDown(s, i)) /\ ~(i \in s.active /\ k \in s.held[i])
  <2>1. PICK t : t = Up(s, i, k)
    OBVIOUS
  <2>2. Sound(t, {}, {k})
    BY <1>6, <2>1, UpSound
  <2>3. /\ t.keysOut = s.keysOut /\ Pending(t) = Pending(s) /\ Ring(t) = Ring(s)
        /\ k \notin t.held[i] /\ \A j \in Combos : t.held[j] \subseteq s.held[j]
    BY <1>0, <1>1, <2>1
  <2>4. Spoken(s, k, i - 1) => Spoken(t, k, i)
    BY <1>b, <2>3
  <2>5. Goal(t, FALSE)
    BY <2>2, <2>3, <2>4 DEF Shrinks
  <2>6. ComboRelease(s, i, k) = [s |-> t, mine |-> FALSE]
    BY <1>6, <2>1 DEF ComboRelease, Up
  <2> QED BY <2>5, <2>6
<1> QED BY <1>2, <1>3, <1>4, <1>5, <1>6

LEMMA ReleasingTurn ==
  ASSUME Roomy, NEW k \in Keys, NEW D, NEW i \in Combos, NEW p, Releasing(p, k, D, i - 1)
  PROVE  Releasing(SingleTurn(k, FALSE, p, i), k, D, i)
<1>1. PICK s : s = p.s /\ Sound(s, {}, {k}) /\ DownSound(s, D)
  BY DEF Releasing
<1>2. PICK r : r = process_single_combo(s, i, k, FALSE)
  OBVIOUS
<1>3. i \in Nat /\ \A j \in Combos : j \in Nat
  BY ComboTypes
<1>4. /\ Sound(r.s, {}, {k}) /\ Shrinks(s, r.s) /\ r.mine \in BOOLEAN /\ k \notin r.s.held[i]
      /\ (p.mine \/ r.mine => Spoken(r.s, k, i))
  <2>1. CASE k \notin ComboKeys[i]
    <3>1. r.s = s /\ r.mine = FALSE
      BY <1>2, <2>1 DEF process_single_combo
    <3>2. k \notin s.held[i]
      BY <1>1, <2>1 DEF Sound, KeysSound
    <3>3. Spoken(s, k, i - 1) => Spoken(s, k, i)
      <4>1. Ring(s) \subseteq Combos
        BY <1>1, RingIsRange DEF Sound
      <4>2. \A b \in Combos : b <= i - 1 => b <= i
        BY <1>3
      <4> QED BY <4>1, <4>2 DEF Spoken
    <3> QED BY <1>1, <3>1, <3>2, <3>3 DEF Releasing, Shrinks
  <2>2. CASE k \in ComboKeys[i]
    <3>1. r = ComboRelease(s, i, k)
      BY <1>2, <2>2 DEF process_single_combo
    <3>2. /\ Sound(r.s, {}, {k}) /\ Shrinks(s, r.s) /\ r.mine \in BOOLEAN /\ k \notin r.s.held[i]
          /\ (Spoken(s, k, i - 1) \/ r.mine => Spoken(r.s, k, i))
      BY <1>1, <2>2, <3>1, ComboReleaseSound
    <3>3. p.mine => Spoken(s, k, i - 1)
      BY <1>1 DEF Releasing
    <3> QED BY <3>2, <3>3
  <2> QED BY <2>1, <2>2
<1>5. DownSound(r.s, D)
  BY <1>1, <1>4 DEF Shrinks, DownSound
<1>6. ASSUME NEW j \in Combos, j <= i PROVE k \notin r.s.held[j]
  <2>1. j = i \/ j <= i - 1
    BY <1>3, <1>6
  <2> QED BY <1>1, <1>4, <2>1 DEF Releasing, Shrinks
<1>7. PICK t : /\ t = SingleTurn(k, FALSE, p, i) /\ t.s = r.s /\ t.mine = (p.mine \/ r.mine)
  <2>1. SingleTurn(k, FALSE, p, i) = [s |-> r.s, mine |-> p.mine \/ r.mine]
    BY <1>1, <1>2 DEF SingleTurn
  <2>2. PICK t : t = [s |-> r.s, mine |-> p.mine \/ r.mine]
    OBVIOUS
  <2>3. t.s = r.s /\ t.mine = (p.mine \/ r.mine)
    BY <2>2
  <2> QED BY <2>1, <2>2, <2>3
<1>8. t.mine \in BOOLEAN
  BY <1>7
<1> QED BY <1>4, <1>5, <1>6, <1>7, <1>8 DEF Releasing

LEMMA ReleasingAll ==
  ASSUME Roomy, NEW k \in Keys, NEW D, Sound(q, {}, {}), DownSound(q, D)
  PROVE  Releasing(SingleCombos(k, FALSE), k, D, Len(ComboKeys))
<1>1. PICK f : /\ f[0] = [s |-> q, mine |-> FALSE]
               /\ \A i \in Combos : f[i] = SingleTurn(k, FALSE, f[i - 1], i)
               /\ SingleCombos(k, FALSE) = f[Len(ComboKeys)]
  BY SingleTurns
<1>2. PICK l \in Nat : l = Len(ComboKeys) /\ Combos = 1 .. l
  BY ComboTypes DEF Combos
<1> DEFINE G == {i \in 0 .. l : Releasing(f[i], k, D, i)}
<1>3. \A i \in 1 .. l : i - 1 \in G => i \in G
  <2>1. SUFFICES ASSUME NEW i \in 1 .. l, i - 1 \in G PROVE i \in G
    OBVIOUS
  <2>2. i \in Combos /\ Releasing(f[i - 1], k, D, i - 1)
    BY <1>2, <2>1
  <2>3. Releasing(SingleTurn(k, FALSE, f[i - 1], i), k, D, i)
    BY <2>2, ReleasingTurn
  <2>4. f[i] = SingleTurn(k, FALSE, f[i - 1], i)
    BY <1>1, <2>2
  <2>5. Releasing(f[i], k, D, i)
    BY <2>3, <2>4
  <2>6. i \in 0 .. l
    BY <1>2
  <2> QED BY <2>5, <2>6
<1>4. 0 \in G
  <2>1. f[0].s = q /\ f[0].mine = FALSE
    BY <1>1
  <2>2. Sound(q, {}, {k})
    BY SoundWeaker
  <2>3. \A i \in Combos : ~(i <= 0)
    BY <1>2
  <2>4. Releasing(f[0], k, D, 0)
    BY <2>1, <2>2, <2>3 DEF Releasing
  <2> QED BY <2>4
<1>5. \A i \in 0 .. l : i \in G
  <2> HIDE DEF G
  <2> QED BY <1>3, <1>4, UpTo
<1>6. l \in G
  BY <1>5
<1> QED BY <1>1, <1>2, <1>6

-----------------------------------------------------------------------------
(* A press, combo by combo.                                                *)

\* The state after the first n combos have seen the press of k, D being down.
Pressing(p, k, D, n) ==
  /\ Sound(p.s, {k}, {}) /\ DownSound(p.s, D \cup {k}) /\ p.mine \in BOOLEAN
  /\ k \notin Pending(p.s) /\ k \notin p.s.keysOut
  /\ \A i \in Combos : i > n \/ i \in p.s.active => k \notin p.s.held[i]
  /\ IF p.mine THEN k \in TakenBy(Combos) ELSE \A i \in Combos : k \notin p.s.held[i]

LEMMA UpNothing ==
  ASSUME NEW s \in Bounded, NEW i \in Combos, NEW k \in Keys, k \notin s.held[i]
  PROVE  Up(s, i, k) = s
<1>1. [s.held EXCEPT ![i] = s.held[i] \ {k}] = s.held
  <2>1. s.held[i] \ {k} = s.held[i]
    OBVIOUS
  <2> QED BY <2>1, FieldTypes DEF Bounded
<1>2. Up(s, i, k) = [s EXCEPT !.held = s.held]
  BY <1>1, HeldTypes DEF Up
<1> QED BY <1>2 DEF Bounded, State

LEMMA NotedFields ==
  ASSUME NEW s \in Bounded, NEW i \in Combos, NEW k \in Keys, i \notin s.active
  PROVE  LET t == Noted(s, i, k)
         IN /\ t \in Bounded /\ t.held[i] = s.held[i] \cup {k}
            /\ \A j \in Combos : j # i => t.held[j] = s.held[j]
            /\ t.keys = s.keys /\ t.combos = s.combos /\ t.active = s.active
            /\ t.disabled = s.disabled /\ t.keysOut = s.keysOut
            /\ t.combosOut = s.combosOut /\ t.lost = s.lost
            /\ Pending(t) = Pending(s) /\ Ring(t) = Ring(s)
            /\ (Apart(s) => Apart(t)) /\ (BufferSound(s) => BufferSound(t))
<1>1. PICK h : h = [s.held EXCEPT ![i] = s.held[i] \cup {k}]
  OBVIOUS
<1>2. h[i] = s.held[i] \cup {k} /\ \A j \in Combos : j # i => h[j] = s.held[j]
  BY <1>1, FieldTypes DEF Bounded
<1>3. PICK w : w = IF s.term < COMBO_TERM THEN COMBO_TERM ELSE s.term
  OBVIOUS
<1>4. PICK t : t = Noted(s, i, k) /\ t = [s EXCEPT !.held = h, !.term = w] /\ t \in Bounded
  BY <1>1, <1>3, NotedTypes DEF Noted
<1>5. /\ t.held = h /\ t.keys = s.keys /\ t.combos = s.combos /\ t.active = s.active
      /\ t.disabled = s.disabled /\ t.keysOut = s.keysOut
      /\ t.combosOut = s.combosOut /\ t.lost = s.lost
  BY <1>4 DEF Bounded, State
<1>6. Pending(t) = Pending(s) /\ Ring(t) = Ring(s) /\ (Apart(s) => Apart(t)) /\ (Distinct(s) => Distinct(t))
  BY <1>5 DEF Pending, Ring, Apart, Distinct
<1>7. BufferSound(s) => BufferSound(t)
  BY <1>5, <1>6 DEF BufferSound
<1> QED BY <1>2, <1>4, <1>5, <1>6, <1>7

\* The outcome of a press for the combo it is part of: what it has noted, and
\* that it is queued or disabled when it is complete.
LEMMA ComboPressSound ==
  ASSUME Roomy, NEW k \in Keys, NEW i \in Combos, k \in ComboKeys[i],
         NEW s, Sound(s, {k}, {}), i \notin s.disabled,
         k \notin Pending(s), k \notin s.keysOut, k \notin s.held[i]
  PROVE  LET t == ComboPress(s, i, k)
         IN /\ Sound(t, {k}, {}) /\ Pending(t) = Pending(s) /\ t.keysOut = s.keysOut
            /\ t.active = s.active
            /\ \A j \in Combos : j # i \/ j \in s.active => t.held[j] = s.held[j]
            /\ t.held[i] \subseteq s.held[i] \cup {k}
<1>0. s \in Bounded
  BY DEF Sound
<1>1. PICK t \in Bounded : t = Noted(s, i, k)
  BY <1>0, NotedTypes
<1>2. ComboPress(s, i, k) =
        IF ~AllDown(t, i) THEN t
        ELSE IF t.timer # 0 /\ timer_elapsed(t.timer) > COMBO_TERM
        THEN [t EXCEPT !.disabled = t.disabled \cup {i}]
        ELSE QueueCombo(t, i)
  BY <1>1 DEF ComboPress, Noted
<1>3. CASE i \in s.active
  <2>1. t = s /\ ~AllDown(t, i)
    BY <1>1, <1>3 DEF Noted, AllDown
  <2> QED BY <1>2, <2>1
<1>4. CASE i \notin s.active
  <2>1. /\ t.held[i] = s.held[i] \cup {k} /\ \A j \in Combos : j # i => t.held[j] = s.held[j]
        /\ t.active = s.active
        /\ t.disabled = s.disabled /\ t.keysOut = s.keysOut
        /\ t.combosOut = s.combosOut /\ t.lost = s.lost
        /\ Pending(t) = Pending(s) /\ Ring(t) = Ring(s) /\ Apart(t) /\ BufferSound(t)
    <3>1. Apart(s) /\ BufferSound(s)
      BY DEF Sound, KeysSound
    <3> QED BY <1>0, <1>1, <1>4, <3>1, NotedFields
  <2>2. i \notin Ring(s)
    BY DEF Sound, KeysSound
  <2>3. s.active \subseteq Combos /\ Ring(s) \subseteq Combos
    BY <1>0, RingIsRange
  <2>4. KeysSound(t, {k}, {})
    <3>1. \A j \in Combos : t.held[j] \subseteq ComboKeys[j]
      BY <2>1 DEF Sound, KeysSound
    <3>2. \A j \in t.active : t.held[j] # {} /\ t.held[j] \cap (Pending(t) \cup t.keysOut) = {}
      BY <1>4, <2>1, <2>3 DEF Sound, KeysSound
    <3>3. \A j \in Combos \ t.active : t.held[j] \subseteq Pending(t) \cup {k}
      BY <2>1 DEF Sound, KeysSound
    <3>4. \A b \in Ring(t) : ComboKeys[b] \ {} \subseteq t.held[b]
      BY <2>1, <2>2, <2>3 DEF Sound, KeysSound
    <3> QED BY <2>1, <3>1, <3>2, <3>3, <3>4 DEF Sound, KeysSound
  <2>5. QueueSound(t, {i})
    BY <2>1 DEF Sound, QueueSound, AllDown
  <2>6. CASE ~AllDown(t, i)
    <3>1. QueueSound(t, {})
      BY <2>5, <2>6 DEF QueueSound
    <3>2. Sound(t, {k}, {})
      BY <2>1, <2>4, <3>1 DEF Sound
    <3> QED BY <1>2, <1>4, <2>1, <2>6, <3>2
  <2>7. CASE AllDown(t, i) /\ (t.timer # 0 /\ timer_elapsed(t.timer) > COMBO_TERM)
    <3>1. PICK u : u = [t EXCEPT !.disabled = t.disabled \cup {i}] /\ u = ComboPress(s, i, k)
      BY <1>2, <2>7
    <3>2. u \in Bounded
      BY <1>0, <3>1, ComboPressTypes
    <3>3. /\ u.disabled = t.disabled \cup {i} /\ u.keys = t.keys /\ u.combos = t.combos
          /\ u.active = t.active /\ u.held = t.held /\ u.keysOut = t.keysOut
          /\ u.combosOut = t.combosOut /\ u.lost = t.lost
      BY <3>1 DEF Bounded, State
    <3>4. Pending(u) = Pending(t) /\ Ring(u) = Ring(t) /\ (Apart(t) => Apart(u)) /\ (Distinct(t) => Distinct(u))
      BY <3>3 DEF Pending, Ring, Apart, Distinct
    <3>5. BufferSound(u)
      BY <2>1, <3>3, <3>4 DEF BufferSound
    <3>6. KeysSound(u, {k}, {})
      BY <2>1, <2>2, <2>4, <3>3, <3>4 DEF KeysSound
    <3>7. QueueSound(u, {})
      BY <2>5, <3>3, <3>4 DEF QueueSound, AllDown
    <3>8. Sound(u, {k}, {})
      BY <3>2, <3>5, <3>6, <3>7 DEF Sound
    <3> QED BY <1>4, <2>1, <3>1, <3>3, <3>4, <3>8
  <2>8. CASE AllDown(t, i) /\ ~(t.timer # 0 /\ timer_elapsed(t.timer) > COMBO_TERM)
    <3>1. PICK u : u = QueueCombo(t, i) /\ u = ComboPress(s, i, k)
      BY <1>2, <2>8
    <3>2. u \in Bounded
      BY <1>0, <3>1, ComboPressTypes
    <3>3. Queues(t, u, i)
      BY <2>1, <2>2, <3>1, QueueEffect
    <3>4. u.held = t.held /\ u.keysOut = t.keysOut /\ u.combosOut = t.combosOut /\ u.lost = t.lost
          /\ u.keys = t.keys /\ u.active = t.active
      BY <3>3 DEF Queues, SameOut
    <3>5. Pending(u) = Pending(t) /\ (Distinct(t) => Distinct(u))
      BY <3>4 DEF Pending, Distinct
    <3>6. BufferSound(u)
      BY <2>1, <3>4, <3>5 DEF BufferSound
    <3>7. ASSUME NEW b \in Ring(u)
          PROVE  /\ b \notin u.active /\ b \notin u.disabled
                 /\ ComboKeys[b] \subseteq Pending(u) \cup {k} /\ ComboKeys[b] \ {} \subseteq u.held[b]
      <4>1. b \in Ring(t) \/ b = i
        BY <3>3 DEF Queues
      <4>2. b \notin u.disabled \/ b \in t.disabled
        BY <3>3 DEF Queues
      <4>3. CASE b = i
        <5>1. t.held[i] = ComboKeys[i] /\ t.held[i] \subseteq Pending(t) \cup {k}
          BY <1>4, <2>1, <2>4, <2>8 DEF AllDown, KeysSound
        <5> QED BY <1>4, <2>1, <3>4, <3>5, <4>2, <4>3, <5>1
      <4>4. CASE b \in Ring(t)
        BY <2>4, <3>4, <3>5, <4>2, <4>4 DEF KeysSound
      <4> QED BY <4>1, <4>3, <4>4
    <3>8. KeysSound(u, {k}, {})
      <4>1. Apart(u)
        BY <3>3 DEF Queues
      <4> QED BY <2>4, <3>4, <3>5, <3>7, <4>1 DEF KeysSound
    <3>9. QueueSound(u, {})
      <4>1. t.disabled \subseteq u.disabled /\ Ring(t) \cup {i} \subseteq Ring(u) \cup u.disabled
        BY <3>3 DEF Queues
      <4> QED BY <2>5, <3>4, <4>1 DEF QueueSound, AllDown
    <3>10. Sound(u, {k}, {})
      BY <3>2, <3>6, <3>8, <3>9 DEF Sound
    <3> QED BY <1>4, <2>1, <3>1, <3>4, <3>5, <3>10
  <2> QED BY <2>6, <2>7, <2>8
<1> QED BY <1>3, <1>4

LEMMA PressingTurn ==
  ASSUME Roomy, NEW k \in Keys, NEW D, NEW i \in Combos, NEW p, Pressing(p, k, D, i - 1)
  PROVE  Pressing(SingleTurn(k, TRUE, p, i), k, D, i)
<1>1. PICK s : s = p.s /\ Sound(s, {k}, {}) /\ DownSound(s, D \cup {k})
  BY DEF Pressing
<1>2. PICK r : r = process_single_combo(s, i, k, TRUE)
  OBVIOUS
<1>3. i \in Nat /\ \A j \in Combos : j \in Nat
  BY ComboTypes
<1>4. /\ k \notin Pending(s) /\ k \notin s.keysOut /\ k \notin s.held[i]
      /\ \A j \in Combos : j > i \/ j \in s.active => k \notin s.held[j]
  <2>1. i > i - 1 /\ \A j \in Combos : j > i => j > i - 1
    BY <1>3
  <2> QED BY <1>1, <2>1 DEF Pressing
<1>5. s \in Bounded /\ s.held[i] \subseteq ComboKeys[i]
  BY <1>1 DEF Sound, KeysSound
<1>6. PICK t : /\ t = SingleTurn(k, TRUE, p, i) /\ t.s = r.s /\ t.mine = (p.mine \/ r.mine)
  <2>1. SingleTurn(k, TRUE, p, i) = [s |-> r.s, mine |-> p.mine \/ r.mine]
    BY <1>1, <1>2 DEF SingleTurn
  <2>2. PICK t : t = [s |-> r.s, mine |-> p.mine \/ r.mine]
    OBVIOUS
  <2>3. t.s = r.s /\ t.mine = (p.mine \/ r.mine)
    BY <2>2
  <2> QED BY <2>1, <2>2, <2>3
<1>7. CASE r.s = s /\ r.mine = FALSE
  <2>1. t.s = s /\ t.mine = p.mine /\ p.mine \in BOOLEAN
    BY <1>6, <1>7 DEF Pressing
  <2>2. IF p.mine THEN k \in TakenBy(Combos) ELSE \A j \in Combos : k \notin s.held[j]
    BY <1>1 DEF Pressing
  <2>3. Pressing(t, k, D, i)
    BY <1>1, <1>4, <2>1, <2>2 DEF Pressing
  <2> QED BY <1>6, <2>3
<1>8. CASE k \in ComboKeys[i] /\ i \notin s.disabled /\ s.on
  <2>1. r = [s |-> ComboPress(s, i, k), mine |-> TRUE]
    BY <1>2, <1>8 DEF process_single_combo
  <2>2. PICK u : u = ComboPress(s, i, k)
    OBVIOUS
  <2>3. /\ Sound(u, {k}, {}) /\ Pending(u) = Pending(s) /\ u.keysOut = s.keysOut
        /\ u.active = s.active
        /\ \A j \in Combos : j # i \/ j \in s.active => u.held[j] = s.held[j]
        /\ u.held[i] \subseteq s.held[i] \cup {k}
    <3>1. /\ k \in ComboKeys[i] /\ i \notin s.disabled /\ Sound(s, {k}, {})
          /\ k \notin Pending(s) /\ k \notin s.keysOut /\ k \notin s.held[i]
      BY <1>1, <1>4, <1>8
    <3>2. LET v == ComboPress(s, i, k)
          IN /\ Sound(v, {k}, {}) /\ Pending(v) = Pending(s) /\ v.keysOut = s.keysOut
             /\ v.active = s.active
             /\ \A j \in Combos : j # i \/ j \in s.active => v.held[j] = s.held[j]
             /\ v.held[i] \subseteq s.held[i] \cup {k}
      BY <3>1, ComboPressSound, Zenon
    <3> QED BY <2>2, <3>2
  <2>4. t.s = u /\ t.mine = TRUE
    BY <1>6, <2>1, <2>2
  <2>5. DownSound(u, D \cup {k})
    <3>1. \A j \in Combos : u.held[j] \subseteq s.held[j] \cup {k}
      BY <2>3
    <3> QED BY <1>1, <2>3, <3>1 DEF DownSound
  <2>6. \A j \in Combos : j > i \/ j \in u.active => k \notin u.held[j]
    <3>1. \A j \in Combos : j > i => j # i
      BY <1>3
    <3> QED BY <1>4, <2>3, <3>1
  <2>7. k \in TakenBy(Combos)
    BY <1>8 DEF TakenBy
  <2>8. Pressing(t, k, D, i)
    BY <1>4, <2>3, <2>4, <2>5, <2>6, <2>7 DEF Pressing
  <2> QED BY <1>6, <2>8
<1>9. CASE k \notin ComboKeys[i]
  <2>1. r = [s |-> s, mine |-> FALSE]
    BY <1>2, <1>9 DEF process_single_combo
  <2> QED BY <1>7, <2>1
<1>10. CASE k \in ComboKeys[i] /\ ~(i \notin s.disabled /\ s.on)
  <2>1. r = ComboRelease(s, i, k)
    BY <1>2, <1>10 DEF process_single_combo
  <2>2. ~AllDown(s, i) /\ k \notin s.held[i]
    BY <1>4, <1>10 DEF AllDown
  <2>3. ComboRelease(s, i, k) = [s |-> Up(s, i, k), mine |-> FALSE]
    BY <2>2 DEF ComboRelease, Up
  <2>4. Up(s, i, k) = s
    BY <1>5, <2>2, UpNothing
  <2>5. r = [s |-> s, mine |-> FALSE]
    BY <2>1, <2>3, <2>4
  <2> QED BY <1>7, <2>5
<1> QED BY <1>8, <1>9, <1>10

LEMMA PressingAll ==
  ASSUME Roomy, NEW k \in Keys, NEW D, k \notin D, Sound(q, {}, {}), DownSound(q, D)
  PROVE  Pressing(SingleCombos(k, TRUE), k, D, Len(ComboKeys))
<1>1. PICK f : /\ f[0] = [s |-> q, mine |-> FALSE]
               /\ \A i \in Combos : f[i] = SingleTurn(k, TRUE, f[i - 1], i)
               /\ SingleCombos(k, TRUE) = f[Len(ComboKeys)]
  BY SingleTurns
<1>2. PICK l \in Nat : l = Len(ComboKeys) /\ Combos = 1 .. l
  BY ComboTypes DEF Combos
<1> DEFINE G == {i \in 0 .. l : Pressing(f[i], k, D, i)}
<1>3. \A i \in 1 .. l : i - 1 \in G => i \in G
  <2>1. SUFFICES ASSUME NEW i \in 1 .. l, i - 1 \in G PROVE i \in G
    OBVIOUS
  <2>2. i \in Combos /\ Pressing(f[i - 1], k, D, i - 1)
    BY <1>2, <2>1
  <2>3. Pressing(SingleTurn(k, TRUE, f[i - 1], i), k, D, i)
    BY <2>2, PressingTurn
  <2>4. f[i] = SingleTurn(k, TRUE, f[i - 1], i)
    BY <1>1, <2>2
  <2>5. Pressing(f[i], k, D, i)
    BY <2>3, <2>4
  <2>6. i \in 0 .. l
    BY <1>2
  <2> QED BY <2>5, <2>6
<1>4. 0 \in G
  <2>1. f[0].s = q /\ f[0].mine = FALSE
    BY <1>1
  <2>2. Sound(q, {k}, {})
    BY DEF Sound, KeysSound
  <2>3. DownSound(q, D \cup {k})
    BY DEF DownSound
  <2>4. /\ k \notin Pending(q) /\ k \notin q.keysOut /\ \A i \in Combos : k \notin q.held[i]
    BY DEF DownSound
  <2>5. Pressing(f[0], k, D, 0)
    BY <2>1, <2>2, <2>3, <2>4 DEF Pressing
  <2> QED BY <1>2, <2>5
<1>5. \A i \in 0 .. l : i \in G
  <2> HIDE DEF G
  <2> QED BY <1>3, <1>4, UpTo
<1>6. l \in G
  BY <1>5
<1> QED BY <1>1, <1>2, <1>6

-----------------------------------------------------------------------------
(* The steps.                                                              *)

\* There is room for a press a combo keeps back: every key that waits is part of
\* a combo, and so is this one.
LEMMA RoomForKey ==
  ASSUME Roomy, NEW s \in Bounded, BufferSound(s), NEW k, k \in TakenBy(Combos), k \notin Pending(s)
  PROVE  /\ Len(s.keys) < COMBO_KEY_BUFFER_LENGTH
         /\ IsFiniteSet(Pending(s) \cup {k}) /\ Cardinality(Pending(s) \cup {k}) = Len(s.keys) + 1
<1>2. /\ IsFiniteSet(Pending(s) \cup {k}) /\ Cardinality(Pending(s) \cup {k}) = Cardinality(Pending(s)) + 1
  BY FS_AddElement DEF BufferSound
<1>3. Pending(s) \cup {k} \subseteq TakenBy(Combos)
  BY DEF BufferSound
<1>4. Cardinality(Pending(s) \cup {k}) <= Cardinality(TakenBy(Combos))
  BY <1>3, FS_Subset DEF Roomy
<1>5. Cardinality(TakenBy(Combos)) \in Nat /\ Cardinality(Pending(s)) = Len(s.keys)
  BY FS_CardinalityType DEF Roomy, BufferSound
<1>6. Len(s.keys) \in Nat /\ COMBO_KEY_BUFFER_LENGTH \in Nat
  BY FieldTypes, SizeAssumption DEF Bounded
<1>7. Cardinality(TakenBy(Combos)) <= COMBO_KEY_BUFFER_LENGTH
  BY DEF Roomy
<1> QED BY <1>2, <1>4, <1>5, <1>6, <1>7

\* A press that a combo keeps back waits as itself.
LEMMA EnqueueSound ==
  ASSUME Roomy, NEW k \in Keys, NEW D, NEW s, Sound(s, {k}, {}), DownSound(s, D \cup {k}),
         k \in TakenBy(Combos), k \notin Pending(s), k \notin s.keysOut,
         \A i \in s.active : k \notin s.held[i]
  PROVE  Sound(Enqueue(s, k), {}, {}) /\ DownSound(Enqueue(s, k), D \cup {k})
<1>1. s \in Bounded /\ s.keys \in Seq(Slots) /\ BufferSound(s) /\ s.active \subseteq Combos
  BY DEF Sound, Bounded, State
<1>2. /\ Len(s.keys) < COMBO_KEY_BUFFER_LENGTH
      /\ IsFiniteSet(Pending(s) \cup {k}) /\ Cardinality(Pending(s) \cup {k}) = Len(s.keys) + 1
  BY <1>1, RoomForKey
<1>3. PICK e \in Slots : e = [key |-> k, as |-> "key", combo |-> 0]
  BY DEF Slots, Queued
<1>4. e.key = k /\ e.as = "key"
  BY <1>3
<1>5. PICK a : a = Append(s.keys, e)
  OBVIOUS
<1>6. /\ Len(s.keys) \in Nat /\ Len(a) = Len(s.keys) + 1
      /\ a[Len(s.keys) + 1] = e /\ \A n \in 1 .. Len(s.keys) : a[n] = s.keys[n]
  BY <1>1, <1>5, AppendFacts
<1>7. PICK l \in Nat : l = Len(s.keys)
  BY <1>6
<1>8. PICK t : t = [s EXCEPT !.keys = a] /\ t = Enqueue(s, k)
  BY <1>2, <1>3, <1>5 DEF Enqueue
<1>9. t \in Bounded
  BY <1>1, <1>8, EnqueueTypes
<1>10. /\ t.keys = a /\ t.combos = s.combos /\ t.active = s.active /\ t.disabled = s.disabled
       /\ t.held = s.held /\ t.keysOut = s.keysOut /\ t.combosOut = s.combosOut /\ t.lost = s.lost
  BY <1>1, <1>8 DEF Bounded, State
<1>11. \A n \in 1 .. l : s.keys[n].as = "key" /\ s.keys[n].key \in Pending(s)
  BY <1>1, <1>7 DEF BufferSound, Pending
<1>12. \A n \in 1 .. l + 1 : n \in 1 .. l \/ n = l + 1
  BY <1>7
<1>13. \A n \in 1 .. l + 1 : a[n].as = "key"
  BY <1>4, <1>6, <1>7, <1>11, <1>12
<1>14. Pending(t) = Pending(s) \cup {k}
  <2>1. Pending(t) = {a[n].key : n \in 1 .. l + 1}
    BY <1>6, <1>7, <1>10, <1>13 DEF Pending
  <2>2. Pending(s) = {s.keys[n].key : n \in 1 .. l}
    BY <1>7, <1>11 DEF Pending
  <2>3. \A n \in 1 .. l : n \in 1 .. l + 1
    BY <1>7
  <2>4. l + 1 \in 1 .. l + 1
    BY <1>7
  <2>5. \A x \in Pending(s) \cup {k} : x \in {a[n].key : n \in 1 .. l + 1}
    BY <1>4, <1>6, <1>7, <2>2, <2>3, <2>4
  <2>6. \A n \in 1 .. l + 1 : a[n].key \in Pending(s) \cup {k}
    BY <1>4, <1>6, <1>7, <1>11, <1>12
  <2> QED BY <2>1, <2>5, <2>6
<1>15. Distinct(t)
  <2>1. Distinct(s)
    BY <1>1 DEF BufferSound
  <2>2. \A m, n \in 1 .. l : a[m].key = a[n].key => m = n
    BY <1>6, <1>7, <2>1 DEF Distinct
  <2>3. \A m \in 1 .. l : a[m].key # k /\ a[l + 1].key = k
    BY <1>4, <1>6, <1>7, <1>11
  <2>4. \A m, n \in 1 .. l + 1 : a[m].key = a[n].key => m = n
    BY <1>12, <2>2, <2>3
  <2> QED BY <1>6, <1>7, <1>10, <2>4 DEF Distinct
<1>16. Ring(t) = Ring(s) /\ (Apart(s) => Apart(t))
  BY <1>10 DEF Ring, Apart
<1>17. BufferSound(t)
  <2>1. Pending(t) \subseteq TakenBy(Combos)
    BY <1>1, <1>14 DEF BufferSound
  <2>2. IsFiniteSet(Pending(t)) /\ Cardinality(Pending(t)) = Len(t.keys)
    BY <1>2, <1>6, <1>10, <1>14
  <2>3. \A n \in 1 .. Len(t.keys) : t.keys[n].as = "key"
    BY <1>6, <1>7, <1>10, <1>13
  <2> QED BY <1>15, <2>1, <2>2, <2>3 DEF BufferSound
<1>18. KeysSound(t, {}, {})
  <2>1. KeysSound(s, {k}, {})
    BY DEF Sound
  <2>2. \A i \in t.active : t.held[i] # {} /\ t.held[i] \cap (Pending(t) \cup t.keysOut) = {}
    BY <1>10, <1>14, <2>1 DEF KeysSound
  <2>3. \A i \in Combos \ t.active : t.held[i] \subseteq Pending(t) \cup {}
    BY <1>10, <1>14, <2>1 DEF KeysSound
  <2>4. t.keysOut \cap Pending(t) = {} /\ t.combosOut = t.active /\ t.lost = {}
    BY <1>10, <1>14, <2>1 DEF KeysSound
  <2>5. \A b \in Ring(t) : /\ b \notin t.active /\ b \notin t.disabled
                           /\ ComboKeys[b] \subseteq Pending(t) \cup {}
                           /\ ComboKeys[b] \ {} \subseteq t.held[b]
    BY <1>10, <1>14, <1>16, <2>1 DEF KeysSound
  <2> QED BY <1>10, <1>16, <2>1, <2>2, <2>3, <2>4, <2>5 DEF KeysSound
<1>19. QueueSound(t, {})
  BY <1>10, <1>16 DEF Sound, QueueSound, AllDown
<1>20. Sound(t, {}, {})
  BY <1>9, <1>17, <1>18, <1>19 DEF Sound
<1>21. DownSound(t, D \cup {k})
  BY <1>10, <1>14 DEF DownSound
<1> QED BY <1>8, <1>20, <1>21

\* A key that goes straight through is out.
LEMMA PassSound ==
  ASSUME NEW k \in Keys, NEW s, Sound(s, {}, {}), k \notin Pending(s),
         \A i \in s.active : k \notin s.held[i]
  PROVE  LET t == [s EXCEPT !.keysOut = @ \cup {k}]
         IN Sound(t, {}, {}) /\ t.keysOut = s.keysOut \cup {k} /\ Pending(t) = Pending(s) /\ t.held = s.held
<1>1. s \in Bounded /\ s.keysOut \in SUBSET Keys
  BY DEF Sound, Bounded, State
<1>2. PICK ko \in SUBSET Keys : ko = s.keysOut \cup {k}
  BY <1>1
<1>3. PICK t \in Bounded : t = [s EXCEPT !.keysOut = ko]
  BY <1>1, FlagTypes
<1>4. /\ t.keysOut = ko /\ t.keys = s.keys /\ t.combos = s.combos /\ t.active = s.active
      /\ t.disabled = s.disabled /\ t.held = s.held /\ t.combosOut = s.combosOut /\ t.lost = s.lost
  BY <1>1, <1>3 DEF Bounded, State
<1>5. Pending(t) = Pending(s) /\ Ring(t) = Ring(s) /\ (Apart(s) => Apart(t)) /\ (Distinct(s) => Distinct(t))
  BY <1>4 DEF Pending, Ring, Apart, Distinct
<1>6. BufferSound(t)
  BY <1>4, <1>5 DEF Sound, BufferSound
<1>7. KeysSound(t, {}, {})
  <2>1. \A i \in t.active : t.held[i] # {} /\ t.held[i] \cap (Pending(t) \cup t.keysOut) = {}
    BY <1>2, <1>4, <1>5 DEF Sound, KeysSound
  <2>2. t.keysOut \cap Pending(t) = {}
    BY <1>2, <1>4, <1>5 DEF Sound, KeysSound
  <2> QED BY <1>4, <1>5, <2>1, <2>2 DEF Sound, KeysSound
<1>8. QueueSound(t, {})
  BY <1>4, <1>5 DEF Sound, QueueSound, AllDown
<1>9. Sound(t, {}, {})
  BY <1>3, <1>6, <1>7, <1>8 DEF Sound
<1>10. t = [s EXCEPT !.keysOut = @ \cup {k}]
  BY <1>2, <1>3
<1> QED BY <1>2, <1>4, <1>5, <1>9, <1>10

ComboInv == Types /\ Sound(q, {}, {}) /\ DownSound(q, down)

LEMMA InitSound == Init => ComboInv
<1>1. SUFFICES ASSUME Init PROVE ComboInv
  OBVIOUS
<1>2. Types
  BY <1>1, InitTypes
<1>3. PICK h \in [Combos -> SUBSET Keys] : h = [i \in Combos |-> {}]
  OBVIOUS
<1>4. /\ q.active = {} /\ q.held = h /\ q.keys = <<>> /\ q.combos = <<>>
      /\ q.keysOut = {} /\ q.combosOut = {} /\ q.lost = {} /\ down = {}
  BY <1>1, <1>3 DEF Init
<1>5. Pending(q) = {} /\ Ring(q) = {} /\ Apart(q) /\ BufferSound(q)
  BY <1>4, EmptyBuffers
<1>6. \A i \in Combos : q.held[i] = {} /\ ComboKeys[i] # {}
  BY <1>3, <1>4, ComboAssumption
<1>7. KeysSound(q, {}, {})
  BY <1>4, <1>5, <1>6 DEF KeysSound
<1>8. QueueSound(q, {})
  BY <1>6 DEF QueueSound, AllDown
<1>9. DownSound(q, down)
  BY <1>4, <1>5, <1>6 DEF DownSound
<1> QED BY <1>2, <1>5, <1>7, <1>8, <1>9 DEF ComboInv, Sound, Types

\* The buffers are emptied in the middle of a release.
LEMMA FlushSound ==
  ASSUME Roomy, NEW k \in Keys, NEW D, NEW s, Sound(s, {}, {k}), DownSound(s, D)
  PROVE  /\ Sound(Flush(s), {}, {}) /\ DownSound(Flush(s), D)
         /\ Settled(s, Flush(s), Ring(s) \ MustTap)
<1>1. s \in Bounded /\ Distinct(s) /\ Apart(s) /\ CanApply(s)
  BY SoundApplies
<1>2. PICK t \in Bounded : t = Flush(s)
  BY <1>1, FlushTypes
<1>3. PICK F \in SUBSET Ring(s) : F = Ring(s) \ MustTap
  OBVIOUS
<1>4. Settled(s, t, F)
  BY <1>1, <1>2, <1>3, FlushEffect
<1>5. Sound(t, {}, {})
  BY <1>4, SettledSound
<1>6. DownSound(t, D)
  BY <1>4, SettledDown
<1> QED BY <1>2, <1>3, <1>4, <1>5, <1>6

\* Combos are turned on, or off: then the presses that wait go out.
LEMMA ToggleSound ==
  ASSUME Roomy, NEW k \in Keys, NEW D, NEW s, Sound(s, {}, {}), DownSound(s, D)
  PROVE  Sound(combo_toggle(s), {}, {}) /\ DownSound(combo_toggle(s), D)
<1>0. s \in Bounded
  BY DEF Sound
<1>1. PICK t \in Bounded : t = combo_toggle(s)
  BY <1>0, ToggleTypes
<1>2. CASE ~s.on
  <2>1. t = [s EXCEPT !.on = TRUE]
    BY <1>1, <1>2 DEF combo_toggle
  <2>2. SameFields(s, t)
    BY <1>0, <2>1 DEF Bounded, State, SameFields
  <2> QED BY <1>1, <2>2, SameFieldsSound
<1>3. CASE s.on
  <2>1. PICK u : u = [s EXCEPT !.timer = 0, !.on = FALSE, !.combos = <<>>]
    OBVIOUS
  <2>2. u \in Bounded
    <3>1. <<>> \in Seq(Combos) /\ Len(<<>>) = 0
      OBVIOUS
    <3>2. Len(<<>>) < COMBO_BUFFER_LENGTH
      BY <3>1, SizeAssumption
    <3> QED BY <1>0, <2>1, <3>1, <3>2, BufferTypes
  <2>3. /\ u.keys = s.keys /\ u.combos = <<>> /\ u.active = s.active /\ u.disabled = s.disabled
        /\ u.held = s.held /\ u.keysOut = s.keysOut /\ u.combosOut = s.combosOut /\ u.lost = s.lost
    BY <1>0, <2>1 DEF Bounded, State
  <2>4. PICK v \in Bounded : v = clear_combos(u)
    BY <2>2, ClearTypes
  <2>5. /\ v.disabled = u.disabled \cap u.active
        /\ v.held = [i \in Combos |-> IF i \in u.active THEN u.held[i] ELSE {}]
        /\ v.keys = u.keys /\ v.combos = u.combos /\ v.active = u.active
        /\ v.keysOut = u.keysOut /\ v.combosOut = u.combosOut /\ v.lost = u.lost
    BY <2>2, <2>4, ClearEffect
  <2>6. t = dump_key_buffer(v)
    BY <1>1, <1>3, <2>1, <2>4 DEF combo_toggle, combo_disable
  <2>7. /\ t.keys = <<>> /\ t.keysOut = v.keysOut \cup Pending(v)
        /\ t.combosOut = v.combosOut \cup Firing(v)
        /\ t.active = v.active /\ t.disabled = v.disabled /\ t.held = v.held
        /\ t.combos = v.combos /\ t.lost = v.lost
    BY <2>4, <2>6, DumpEffect
  <2>8. Pending(v) = Pending(s) /\ Firing(v) = Firing(s)
    <3>1. v.keys = s.keys
      BY <2>3, <2>5
    <3> QED BY <3>1 DEF Pending, Firing
  <2>9. TakenBy({}) = {}
    BY DEF TakenBy
  <2>10. Settled(s, t, {})
    BY <2>3, <2>5, <2>7, <2>8, <2>9 DEF Settled
  <2>11. Sound(s, {}, {k})
    BY SoundWeaker
  <2>12. {} \in SUBSET Ring(s)
    OBVIOUS
  <2>13. Sound(t, {}, {})
    BY <2>10, <2>11, <2>12, SettledSound
  <2>14. DownSound(t, D)
    BY <2>10, SettledDown
  <2> QED BY <1>1, <2>13, <2>14
<1> QED BY <1>2, <1>3

LEMMA PressSound ==
  ASSUME Roomy, ComboInv, NEW k \in Keys, Press(k)
  PROVE  Sound(q', {}, {}) /\ DownSound(q', down')
<1>1. Sound(q, {}, {}) /\ DownSound(q, down) /\ Types /\ down' = down \cup {k} /\ k \notin down
  BY DEF ComboInv, Press
<1>2. CASE k \in ToggleKeys
  <2>1. q' = combo_toggle(q)
    BY <1>2 DEF Press
  <2>2. Sound(q', {}, {}) /\ DownSound(q', down)
    BY <1>1, <2>1, ToggleSound
  <2>3. DownSound(q', down \cup {k})
    BY <2>2 DEF DownSound
  <2> QED BY <1>1, <2>2, <2>3
<1>3. CASE k \notin ToggleKeys
  <2>1. PICK r : r = SingleCombos(k, TRUE) /\ Pressing(r, k, down, Len(ComboKeys))
    BY <1>1, PressingAll
  <2>2. PICK s : s = r.s
    OBVIOUS
  <2>3. /\ Sound(s, {k}, {}) /\ DownSound(s, down \cup {k})
        /\ k \notin Pending(s) /\ k \notin s.keysOut
        /\ \A i \in Combos : i \in s.active => k \notin s.held[i]
    BY <2>1, <2>2 DEF Pressing
  <2>4. s \in Bounded /\ s.active \subseteq Combos
    BY <2>3, RingIsRange DEF Sound
  <2>5. CASE r.mine
    <3>1. PICK w \in 0 .. TimerRange - 1 : w = IF StrictTimer /\ s.timer # 0 THEN s.timer ELSE now
      BY <1>1, <2>4, FieldTypes DEF Types, Bounded
    <3>2. PICK t \in Bounded : t = [s EXCEPT !.timer = w]
      BY <2>4, FlagTypes
    <3>3. SameFields(s, t)
      BY <2>4, <3>2 DEF Bounded, State, SameFields
    <3>4. Sound(t, {k}, {}) /\ DownSound(t, down \cup {k})
      BY <2>3, <3>3, SameFieldsSound
    <3>5. k \notin Pending(t) /\ k \notin t.keysOut /\ \A i \in t.active : k \notin t.held[i]
      <4>1. t.keys = s.keys
        BY <3>3 DEF SameFields
      <4>2. Pending(t) = Pending(s)
        BY <4>1 DEF Pending
      <4> QED BY <2>3, <2>4, <3>3, <4>2 DEF SameFields
    <3>6. k \in TakenBy(Combos)
      BY <2>1, <2>5 DEF Pressing
    <3>7. Sound(Enqueue(t, k), {}, {}) /\ DownSound(Enqueue(t, k), down \cup {k})
      BY <3>4, <3>5, <3>6, EnqueueSound
    <3>8. q' = Enqueue(t, k)
      BY <1>3, <2>1, <2>2, <2>5, <3>1, <3>2 DEF Press
    <3> QED BY <1>1, <3>7, <3>8
  <2>6. CASE ~r.mine
    <3>1. \A i \in Combos : k \notin s.held[i]
      BY <2>1, <2>2, <2>6 DEF Pressing
    <3>2. Sound(s, {}, {})
      <4>1. \A i \in Combos \ s.active : s.held[i] \subseteq Pending(s) \cup {}
        BY <2>3, <3>1 DEF Sound, KeysSound
      <4>2. \A b \in Ring(s) : ComboKeys[b] \subseteq Pending(s) \cup {}
        <5>1. Ring(s) \subseteq Combos
          BY <2>4, RingIsRange
        <5> QED BY <2>3, <3>1, <5>1 DEF Sound, KeysSound
      <4>3. KeysSound(s, {}, {})
        BY <2>3, <4>1, <4>2 DEF Sound, KeysSound
      <4> QED BY <2>3, <4>3 DEF Sound
    <3>3. Sound(s, {}, {k})
      BY <3>2, SoundWeaker
    <3>4. PICK t : /\ t = Flush(s) /\ Sound(t, {}, {}) /\ DownSound(t, down \cup {k})
                   /\ Settled(s, t, Ring(s) \ MustTap)
      BY <2>3, <3>3, FlushSound
    <3>5. k \notin Pending(t)
      BY <3>4, EmptyBuffers DEF Settled
    <3>6. \A i \in t.active : k \notin t.held[i]
      <4>1. t \in Bounded
        BY <3>4 DEF Sound
      <4>2. t.active \subseteq Combos
        BY <4>1, RingIsRange
      <4>3. \A i \in Combos : t.held[i] = IF i \in t.active THEN s.held[i] ELSE {}
        BY <3>4 DEF Settled
      <4> QED BY <3>1, <4>2, <4>3
    <3>7. PICK u : u = [t EXCEPT !.keysOut = @ \cup {k}]
      OBVIOUS
    <3>8. /\ Sound(u, {}, {}) /\ u.keysOut = t.keysOut \cup {k}
          /\ Pending(u) = Pending(t) /\ u.held = t.held
      BY <3>4, <3>5, <3>6, <3>7, PassSound
    <3>9. DownSound(u, down \cup {k})
      BY <3>4, <3>8 DEF DownSound
    <3>10. q' = u
      BY <1>3, <2>1, <2>2, <2>6, <3>4, <3>7 DEF Press
    <3> QED BY <1>1, <3>8, <3>9, <3>10
  <2>7. r.mine \in BOOLEAN
    BY <2>1 DEF Pressing
  <2> QED BY <2>5, <2>6, <2>7
<1> QED BY <1>2, <1>3

LEMMA ReleaseSound ==
  ASSUME Roomy, ComboInv, NEW k \in Keys, Release(k)
  PROVE  Sound(q', {}, {}) /\ DownSound(q', down')
<1>1. Sound(q, {}, {}) /\ DownSound(q, down) /\ Types /\ down' = down \ {k}
  BY DEF ComboInv, Release
<1>2. PICK r : r = SingleCombos(k, FALSE) /\ Releasing(r, k, down, Len(ComboKeys))
  BY <1>1, ReleasingAll
<1>3. PICK p : p = r.s
  OBVIOUS
<1>4. Sound(p, {}, {k}) /\ DownSound(p, down) /\ \A i \in Combos : k \notin p.held[i]
  <2>1. \A i \in Combos : i <= Len(ComboKeys)
    BY ComboTypes DEF Combos
  <2> QED BY <1>2, <1>3, <2>1 DEF Releasing
<1>5. PICK s : /\ s = Flush(p) /\ Sound(s, {}, {}) /\ DownSound(s, down)
               /\ Settled(p, s, Ring(p) \ MustTap)
  BY <1>4, FlushSound
<1>6. s \in Bounded /\ s.keysOut \in SUBSET Keys /\ s.lost \in SUBSET Keys /\ s.active \subseteq Combos
  BY <1>5 DEF Sound, Bounded, State
<1>7. PICK ko \in SUBSET Keys : ko = IF r.mine THEN s.keysOut ELSE s.keysOut \ {k}
  BY <1>6
<1>8. PICK l \in SUBSET Keys : l = s.lost \ {k}
  BY <1>6
<1>9. PICK t \in Bounded : t = [s EXCEPT !.keysOut = ko, !.lost = l]
  BY <1>6, FlagTypes
<1>10. q' = t
  BY <1>2, <1>3, <1>5, <1>7, <1>8, <1>9 DEF Release
<1>11. /\ t.keysOut = ko /\ t.lost = l /\ t.keys = s.keys /\ t.combos = s.combos
       /\ t.active = s.active /\ t.disabled = s.disabled /\ t.held = s.held
       /\ t.combosOut = s.combosOut
  BY <1>6, <1>9 DEF Bounded, State
<1>12. Pending(t) = Pending(s) /\ Ring(t) = Ring(s) /\ (Apart(s) => Apart(t)) /\ (Distinct(s) => Distinct(t))
  BY <1>11 DEF Pending, Ring, Apart, Distinct
<1>13. ko \subseteq s.keysOut /\ k \notin ko
  <2>1. CASE r.mine
    <3>1. k \notin p.keysOut /\ (k \in Pending(p) => k \in TakenBy(Ring(p) \ MustTap))
      BY <1>2, <1>3, <2>1 DEF Releasing, Spoken, TakenBy
    <3>2. k \notin s.keysOut
      BY <1>5, <3>1 DEF Settled
    <3> QED BY <1>7, <2>1, <3>2
  <2>2. CASE ~r.mine
    BY <1>7, <2>2
  <2> QED BY <2>1, <2>2
<1>14. BufferSound(t)
  BY <1>5, <1>11, <1>12 DEF Sound, BufferSound
<1>15. KeysSound(t, {}, {})
  <2>1. KeysSound(s, {}, {})
    BY <1>5 DEF Sound
  <2>2. t.lost = {}
    BY <1>8, <1>11, <2>1 DEF KeysSound
  <2>3. t.keysOut \subseteq s.keysOut
    BY <1>11, <1>13
  <2> QED BY <1>11, <1>12, <2>1, <2>2, <2>3 DEF KeysSound
<1>16. QueueSound(t, {})
  BY <1>5, <1>11, <1>12 DEF Sound, QueueSound, AllDown
<1>17. Sound(t, {}, {})
  BY <1>9, <1>14, <1>15, <1>16 DEF Sound
<1>18. DownSound(t, down \ {k})
  <2>1. Pending(t) = {}
    BY <1>5, <1>12, EmptyBuffers DEF Settled
  <2>2. t.keysOut \subseteq down \ {k}
    BY <1>5, <1>11, <1>13 DEF DownSound
  <2>3. \A i \in Combos : t.held[i] = IF i \in s.active THEN p.held[i] ELSE {}
    BY <1>5, <1>11 DEF Settled
  <2>4. \A i \in Combos : t.held[i] \subseteq down \ {k}
    BY <1>4, <2>3 DEF DownSound
  <2> QED BY <2>1, <2>2, <2>4 DEF DownSound
<1> QED BY <1>1, <1>10, <1>17, <1>18

LEMMA TaskSound ==
  ASSUME Roomy, ComboInv, combo_task, Keys # {}
  PROVE  Sound(q', {}, {}) /\ DownSound(q', down')
<1>1. Sound(q, {}, {}) /\ DownSound(q, down) /\ q \in Bounded /\ down' = down
  BY DEF ComboInv, Sound, combo_task
<1>2. PICK k \in Keys : Sound(q, {}, {k})
  BY <1>1, SoundWeaker
<1>3. CASE q' = q
  BY <1>1, <1>3
<1>4. CASE q.combos # <<>> /\ q' = [apply_combos(q) EXCEPT !.timer = 0]
  <2>1. PICK t : t = apply_combos(q)
    OBVIOUS
  <2>2. t \in Bounded
    BY <1>1, <2>1, ApplyCombosTypes
  <2>3. t = Flush(q)
    BY <1>4, <2>1 DEF Flush
  <2>4. Sound(t, {}, {}) /\ DownSound(t, down)
    BY <1>1, <1>2, <2>3, FlushSound
  <2>5. 0 \in 0 .. TimerRange - 1
    BY SizeAssumption
  <2>6. PICK u \in Bounded : u = [t EXCEPT !.timer = 0]
    BY <2>2, <2>5, FlagTypes
  <2>7. SameFields(t, u)
    BY <2>2, <2>6 DEF Bounded, State, SameFields
  <2>8. Sound(u, {}, {}) /\ DownSound(u, down)
    BY <2>4, <2>7, SameFieldsSound
  <2> QED BY <1>1, <1>4, <2>1, <2>6, <2>8
<1>5. CASE q.combos = <<>> /\ q' = clear_combos([dump_key_buffer(q) EXCEPT !.timer = 0])
  <2>1. q' = Flush(q)
    BY <1>5 DEF Flush
  <2>2. Sound(Flush(q), {}, {}) /\ DownSound(Flush(q), down)
    BY <1>1, <1>2, FlushSound
  <2> QED BY <1>1, <2>1, <2>2
<1> QED BY <1>3, <1>4, <1>5 DEF combo_task

\* A keyboard without keys.
LEMMA NoKeys ==
  ASSUME Keys = {}, NEW s \in Bounded, NEW D
  PROVE  Sound(s, {}, {}) /\ DownSound(s, D)
<1>1. Combos = {}
  <2>1. \A i \in Combos : ComboKeys[i] \in SUBSET Keys /\ ComboKeys[i] # {}
    BY ComboTypes, ComboAssumption
  <2> QED BY <2>1
<1>2. s.keys \in Seq(Slots) /\ s.combos \in Seq(Combos)
  BY FieldTypes DEF Bounded
<1>3. Slots = {}
  BY DEF Slots, Queued
<1>4. s.keys = <<>> /\ s.combos = <<>>
  <2>1. \A c \in Seq({}) : c = <<>>
    OBVIOUS
  <2> QED BY <1>1, <1>2, <1>3, <2>1
<1>5. Pending(s) = {} /\ Ring(s) = {} /\ Apart(s) /\ BufferSound(s)
  BY <1>4, EmptyBuffers
<1>6. s.active = {} /\ s.combosOut = {} /\ s.keysOut = {} /\ s.lost = {}
  BY <1>1, FieldTypes DEF Bounded
<1>7. KeysSound(s, {}, {}) /\ QueueSound(s, {}) /\ DownSound(s, D)
  BY <1>1, <1>5, <1>6 DEF KeysSound, QueueSound, DownSound
<1> QED BY <1>5, <1>7 DEF Sound

LEMMA ComboStep == Roomy /\ ComboInv /\ [Next]_vars => ComboInv'
<1>1. SUFFICES ASSUME Roomy, ComboInv, [Next]_vars PROVE ComboInv'
  OBVIOUS
<1>2. Types'
  BY <1>1, TypesStep DEF ComboInv
<1>3. Sound(q', {}, {}) /\ DownSound(q', down')
  <2>1. ASSUME NEW k \in Keys, Press(k) PROVE Sound(q', {}, {}) /\ DownSound(q', down')
    BY <1>1, <2>1, PressSound
  <2>2. ASSUME NEW k \in Keys, Release(k) PROVE Sound(q', {}, {}) /\ DownSound(q', down')
    BY <1>1, <2>2, ReleaseSound
  <2>3. CASE combo_task
    <3>1. CASE Keys = {}
      BY <1>2, <3>1, NoKeys DEF Types
    <3> QED BY <1>1, <2>3, <3>1, TaskSound
  <2>4. CASE Time \/ UNCHANGED vars
    BY <1>1, <2>4 DEF Time, vars, ComboInv
  <2> QED BY <1>1, <2>1, <2>2, <2>3, <2>4 DEF Next
<1>4. ComboInv' = (Types' /\ Sound(q', {}, {}) /\ DownSound(q', down'))
  BY DEF ComboInv, Sound, DownSound, BufferSound, KeysSound, QueueSound
<1> QED BY <1>2, <1>3, <1>4

LEMMA ComboInvHolds == Spec /\ Roomy => []ComboInv
<1>1. Roomy => Roomy'
  BY DEF Roomy, Sharing, Separate, TakenBy, Combos
<1> QED BY <1>1, InitSound, ComboStep, PTL DEF Spec

LEMMA InvNoStuck == ComboInv => NoStuckCombo
<1>1. SUFFICES ASSUME ComboInv, down = {}
               PROVE  q.keysOut = {} /\ q.combosOut = {} /\ q.keys = <<>> /\ q.active = {}
  BY DEF NoStuckCombo
<1>2. q \in Bounded /\ BufferSound(q) /\ KeysSound(q, {}, {}) /\ DownSound(q, {})
  BY <1>1 DEF ComboInv, Sound
<1>3. q.keysOut = {} /\ Pending(q) = {} /\ \A i \in Combos : q.held[i] = {}
  BY <1>2 DEF DownSound
<1>4. q.active = {} /\ q.combosOut = {}
  <2>1. q.active \subseteq Combos
    BY <1>2, RingIsRange
  <2> QED BY <1>2, <1>3, <2>1 DEF KeysSound
<1>5. q.keys \in Seq(Slots) /\ Len(q.keys) = 0
  BY <1>2, <1>3, FS_EmptySet DEF BufferSound, Bounded
<1>6. q.keys = <<>>
  BY <1>5, EmptyFacts
<1> QED BY <1>3, <1>4, <1>6

\* For any number of combos of two keys or more, all of which share a key or none of
\* which do and are then not for holds only, whichever are for taps or holds, and
\* buffers with room for their keys: after the last key has gone up no combo that
\* apply_combo fired is left without its release_combo, and no press is left in
\* key_buffer or registered, whatever the order of presses, releases, toggles and
\* runs of combo_task.
THEOREM NothingStaysDown == Spec /\ Roomy => []NoStuckCombo
BY ComboInvHolds, InvNoStuck, PTL

\* Under the same conditions process_combo swallows no press: the key buffer never
\* overflows, and apply_combo always finds all keys of the combo it applies in it.
THEOREM PressesAreNotLost == Spec /\ Roomy => []NoLostPress
<1>1. ComboInv => NoLostPress
  BY DEF ComboInv, Sound, KeysSound, NoLostPress
<1> QED BY <1>1, ComboInvHolds, PTL
=============================================================================
