------------------------------- MODULE Combo --------------------------------
(***************************************************************************)
(* Combos: quantum/process_keycode/process_combo.c.  Presses of combo keys *)
(* are held in key_buffer while some combo may still complete; complete    *)
(* combos are queued in the ring combo_buffer and replace their keys when  *)
(* the term ends or another event decides.  A key event is one step, as is *)
(* a run of combo_task; what leaves the buffer is taken by the host state  *)
(* in the order it is emitted.                                             *)
(***************************************************************************)
EXTENDS Integers, Sequences, FiniteSets, SequencesExt

CONSTANTS
  Keys,        \* the keys of the keyboard, one keycode each
  ToggleKeys,  \* those among them that are QK_COMBO_TOGGLE
  ComboKeys,   \* ComboKeys[i]: the set of keys of combo i, i \in 1 .. Len
  MustHold,    \* combos for which get_combo_must_hold is true
  MustTap,     \* combos for which get_combo_must_tap is true
  StrictTimer, \* COMBO_STRICT_TIMER
  COMBO_TERM, COMBO_HOLD_TERM,
  COMBO_KEY_BUFFER_LENGTH, COMBO_BUFFER_LENGTH,
  TimerRange   \* values of timer_read() (65536)

Combos == 1 .. Len(ComboKeys)

ASSUME ComboAssumption ==
  /\ ComboKeys \in Seq(SUBSET Keys) /\ ToggleKeys \subseteq Keys
  /\ \A i \in Combos : ComboKeys[i] # {} /\ ComboKeys[i] \cap ToggleKeys = {}
  /\ MustHold \subseteq Combos /\ MustTap \subseteq Combos /\ StrictTimer \in BOOLEAN
ASSUME SizeAssumption ==
  /\ {COMBO_TERM, COMBO_HOLD_TERM, COMBO_KEY_BUFFER_LENGTH} \subseteq Nat
  /\ COMBO_BUFFER_LENGTH \in Nat \ {0}
  /\ TimerRange \in Nat /\ TimerRange > COMBO_TERM + 1 /\ TimerRange > COMBO_HOLD_TERM + 1

VARIABLES
  q,        \* the state of process_combo.c: see State
  now,      \* timer_read()
  scanned,  \* combo_task has run in this millisecond
  down      \* the keys that are physically down

vars == <<q, now, scanned, down>>

\* A press waiting in key_buffer: still a key, turned into a combo, or turned
\* into a tick because a combo took it.
Queued == [key : Keys, as : {"key", "tick", "combo"}, combo : {0} \cup Combos]

\* active, disabled, held: the flags of each combo_t and the keys its state
\* bits stand for.  combos: combo_buffer from combo_buffer_read up to
\* combo_buffer_write, which leaves one place unused.  keysOut, combosOut: what
\* is down for the rest of the firmware.  lost: a ghost, presses that are
\* neither emitted nor part of a combo that fires.
State ==
  [active : SUBSET Combos, disabled : SUBSET Combos, held : [Combos -> SUBSET Keys],
   keys : Seq(Queued), combos : Seq(Combos),
   timer : 0 .. TimerRange - 1, term : {0, COMBO_TERM, COMBO_HOLD_TERM}, on : BOOLEAN,
   keysOut : SUBSET Keys, combosOut : SUBSET Combos, lost : SUBSET Keys]

\* Mutant: the wrap-around of the timer is forgotten.
timer_elapsed_NoWrap(t) == now - t

timer_elapsed(t) == (now - t) % TimerRange

\* An append that makes combo_buffer_write meet combo_buffer_read empties the ring.
RingAppend(ring, i) ==
  IF Len(ring) + 1 < COMBO_BUFFER_LENGTH THEN Append(ring, i) ELSE <<>>

AllDown(s, i) == s.held[i] = ComboKeys[i]

\* Mutant: the terms add up.
WaitTime_Adds(i, term) == IF i \in MustHold \cup MustTap THEN term + COMBO_HOLD_TERM ELSE term

WaitTime(i, term) ==
  IF i \in MustHold \cup MustTap /\ term < COMBO_HOLD_TERM THEN COMBO_HOLD_TERM ELSE term

-----------------------------------------------------------------------------
(* The buffers.                                                            *)

release_combo(s, i) == [s EXCEPT !.combosOut = @ \ {i}, !.active = @ \ {i}]

\* Mutant: combos that have fired are reset too.
clear_combos_All(s) ==
  [s EXCEPT !.term = 0, !.disabled = {}, !.held = [i \in Combos |-> {}]]

clear_combos(s) ==
  [s EXCEPT !.term = 0, !.disabled = @ \cap s.active,
            !.held = [i \in Combos |-> IF i \in s.active THEN s.held[i] ELSE {}]]

dump_key_buffer(s) ==
  [s EXCEPT !.keys = <<>>,
            !.keysOut   = @ \cup {r.key : r \in {x \in Range(s.keys) : x.as = "key"}},
            !.combosOut = @ \cup {r.combo : r \in {x \in Range(s.keys) : x.as = "combo"}}]

\* Mutant: it is only marked.
drop_combo_from_buffer_Marks(s, i) ==
  IF i \notin Range(s.combos) THEN s ELSE [s EXCEPT !.disabled = @ \cup {i}]

\* A combo is taken out of the ring only from its front.
drop_combo_from_buffer(s, i) ==
  IF i \notin Range(s.combos) THEN s
  ELSE [s EXCEPT !.disabled = @ \cup {i},
                 !.combos = IF Head(@) = i THEN Tail(@) ELSE @]

\* The keys of combo i in the buffer become ticks, the one that completes it
\* becomes the combo.
ApplyKeys(s, i) ==
  LET seen(n) == {s.keys[m].key : m \in 1 .. n} \cap ComboKeys[i]
      completes(n) == seen(n) = ComboKeys[i] /\ seen(n - 1) # ComboKeys[i]
      mine(n) == s.keys[n].key \in ComboKeys[i] /\ seen(n - 1) # ComboKeys[i]
      fires == \E n \in DOMAIN s.keys : completes(n)
  IN [s EXCEPT !.keys = [n \in DOMAIN s.keys |->
                           IF completes(n) THEN [s.keys[n] EXCEPT !.as = "combo", !.combo = i]
                           ELSE IF mine(n) THEN [s.keys[n] EXCEPT !.as = "tick"]
                           ELSE s.keys[n]],
               !.active = IF fires THEN @ \cup {i} ELSE @,
               !.lost = IF fires THEN @ ELSE @ \cup seen(Len(s.keys))]

apply_combo(s, i) ==
  IF i \in s.disabled THEN s ELSE drop_combo_from_buffer(ApplyKeys(s, i), i)

apply_combos(s) ==
  LET turn[j \in 0 .. Len(s.combos)] ==
        IF j = 0 THEN s
        ELSE LET i == s.combos[j]
             IN IF i \in MustTap THEN drop_combo_from_buffer(turn[j - 1], i)
                                 ELSE apply_combo(turn[j - 1], i)
  IN clear_combos(dump_key_buffer(turn[Len(s.combos)]))

\* overlaps: the one of two combos that goes, 0 if they share no key.
overlaps(i, j) ==
  IF ComboKeys[i] \cap ComboKeys[j] = {} THEN 0
  ELSE IF Cardinality(ComboKeys[j]) < Cardinality(ComboKeys[i]) THEN j ELSE i

-----------------------------------------------------------------------------
(* process_single_combo.                                                   *)

\* Combo i is complete and within its term: queue it, unless a longer combo
\* that shares a key is queued already; shorter ones are disabled.
QueueCombo(s, i) ==
  LET turn[j \in 0 .. Len(s.combos)] ==
        IF j = 0 THEN [s |-> s, mine |-> FALSE]
        ELSE LET t == turn[j - 1]
                 b == s.combos[j]
                 first == Len(t.s.combos) = Len(s.combos) - (j - 1)
                 drop == overlaps(b, i)
             IN IF t.mine \/ drop = 0 THEN t
                ELSE [mine |-> drop = i,
                      s |-> [t.s EXCEPT !.disabled = @ \cup {drop},
                               !.combos = IF drop = b /\ drop # i /\ first
                                          THEN Tail(@) ELSE @]]
      done == turn[Len(s.combos)]
  IN IF done.mine THEN done.s
     ELSE [done.s EXCEPT !.combos = RingAppend(@, i), !.term = WaitTime(i, @)]

\* A press of k while combo i can still take it.
ComboPress(s, i, k) ==
  LET t == IF i \in s.active THEN s
           ELSE [s EXCEPT !.held[i] = @ \cup {k},
                          !.term = IF @ < COMBO_TERM THEN COMBO_TERM ELSE @]
  IN IF ~AllDown(t, i) THEN t
     ELSE IF t.timer # 0 /\ timer_elapsed(t.timer) > COMBO_TERM
     THEN [t EXCEPT !.disabled = @ \cup {i}]
     ELSE QueueCombo(t, i)

\* Everything else: releases, and presses the combo cannot take.  The new
\* state, and whether the combo takes the event.
ComboRelease(s, i, k) ==
  LET part == i \notin s.disabled /\ s.on
      up(t) == [t EXCEPT !.held[i] = @ \ {k}]
  IN IF i \notin s.active /\ AllDown(s, i)
     THEN IF i \in s.disabled \/ i \in MustHold
          THEN [s |-> up(drop_combo_from_buffer(s, i)), mine |-> FALSE]
          ELSE IF i \in MustTap
          THEN [s |-> up(apply_combos(apply_combo(s, i))), mine |-> part]
          ELSE [s |-> up(s), mine |-> part]
     ELSE IF i \in s.active /\ k \in s.held[i]
     THEN [s |-> up(IF s.held[i] = {k} THEN release_combo(s, i) ELSE s), mine |-> TRUE]
     ELSE [s |-> up(s), mine |-> FALSE]

process_single_combo(s, i, k, pressed) ==
  IF k \notin ComboKeys[i] THEN [s |-> s, mine |-> FALSE]
  ELSE IF pressed /\ i \notin s.disabled /\ s.on
  THEN [s |-> ComboPress(s, i, k), mine |-> TRUE]
  ELSE ComboRelease(s, i, k)

\* Every combo in turn.
SingleCombos(k, pressed) ==
  LET turn[i \in 0 .. Len(ComboKeys)] ==
        IF i = 0 THEN [s |-> q, mine |-> FALSE]
        ELSE LET r == process_single_combo(turn[i - 1].s, i, k, pressed)
             IN [s |-> r.s, mine |-> turn[i - 1].mine \/ r.mine]
  IN turn[Len(ComboKeys)]

-----------------------------------------------------------------------------
(* Steps.                                                                  *)

combo_disable(s) ==
  dump_key_buffer(clear_combos([s EXCEPT !.timer = 0, !.on = FALSE, !.combos = <<>>]))
combo_toggle(s) == IF s.on THEN combo_disable(s) ELSE [s EXCEPT !.on = TRUE]

\* The second half of process_combo for an event no combo keeps back.
Flush(s) ==
  IF s.combos # <<>> THEN apply_combos(s)
  ELSE clear_combos([dump_key_buffer(s) EXCEPT !.timer = 0])

\* A press that finds the buffer full is gone.
Enqueue(s, k) ==
  IF Len(s.keys) < COMBO_KEY_BUFFER_LENGTH
  THEN [s EXCEPT !.keys = Append(@, [key |-> k, as |-> "key", combo |-> 0])]
  ELSE [s EXCEPT !.lost = @ \cup {k}]

\* process_combo for a press; what it does not keep goes on at once.
Press(k) ==
  LET r == SingleCombos(k, TRUE) IN
  /\ k \notin down
  /\ down' = down \cup {k}
  /\ q' = IF k \in ToggleKeys THEN combo_toggle(q)
          ELSE IF r.mine
          THEN Enqueue([r.s EXCEPT !.timer = IF StrictTimer /\ @ # 0 THEN @ ELSE now], k)
          ELSE [Flush(r.s) EXCEPT !.keysOut = @ \cup {k}]
  /\ UNCHANGED <<now, scanned>>

\* process_combo for a release.
Release(k) ==
  LET r == SingleCombos(k, FALSE)
      s == Flush(r.s)
  IN
  /\ k \in down
  /\ down' = down \ {k}
  /\ q' = [s EXCEPT !.keysOut = IF r.mine THEN @ ELSE @ \ {k}, !.lost = @ \ {k}]
  /\ UNCHANGED <<now, scanned>>

combo_task ==
  /\ scanned' = TRUE
  /\ q' = IF q.on /\ q.timer # 0 /\ timer_elapsed(q.timer) > q.term
          THEN IF q.combos # <<>>
               THEN [apply_combos(q) EXCEPT !.timer = 0]
               ELSE clear_combos([dump_key_buffer(q) EXCEPT !.timer = 0])
          ELSE q
  /\ UNCHANGED <<now, down>>

\* A millisecond passes; every one is long enough for a scan.
Time ==
  /\ scanned
  /\ scanned' = FALSE /\ now' = (now + 1) % TimerRange
  /\ UNCHANGED <<q, down>>

Init ==
  /\ q = [active |-> {}, disabled |-> {}, held |-> [i \in Combos |-> {}], keys |-> <<>>,
          combos |-> <<>>, timer |-> 0, term |-> 0, on |-> TRUE,
          keysOut |-> {}, combosOut |-> {}, lost |-> {}]
  /\ now \in 0 .. TimerRange - 1 /\ scanned = FALSE /\ down = {}

Next == (\E k \in Keys : Press(k) \/ Release(k)) \/ combo_task \/ Time

Spec == Init /\ [][Next]_vars /\ WF_vars(combo_task) /\ WF_vars(Time)

-----------------------------------------------------------------------------
(* Properties.                                                             *)

\* Type invariant: neither key_buffer nor combo_buffer holds more than fits, and
\* longest_term is the term of some combo, or 0 when none is pending.
TypeOK ==
  /\ [q EXCEPT !.keys = <<>>, !.combos = <<>>] \in State
  /\ q.combos \in Seq(Combos) /\ Len(q.combos) < COMBO_BUFFER_LENGTH
  /\ Range(q.keys) \subseteq Queued /\ Len(q.keys) <= COMBO_KEY_BUFFER_LENGTH
  /\ now \in 0 .. TimerRange - 1 /\ scanned \in BOOLEAN /\ down \subseteq Keys

\* Once every key is up nothing is left down for the host: no combo that fired
\* and no buffered press survives the release of its keys.
NoStuckCombo == down = {} => q.keysOut = {} /\ q.combosOut = {} /\ q.keys = <<>> /\ q.active = {}

\* A press goes on to the rest of the firmware or is a key of a combo that
\* fires; process_combo swallows none.  apply_combo only disables keys of a
\* combo it applies to the last of them.
NoLostPress == q.lost = {}

\* A press held back in key_buffer does not stay there while the timer runs:
\* combo_task dumps it when the term is over, if no other event does.
PressIsDecided == q.keys # <<>> ~> (q.keys = <<>> \/ q.timer = 0)
=============================================================================
