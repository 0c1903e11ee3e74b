------------------------------- MODULE Tapping -------------------------------
(***************************************************************************)
(* The tap-hold state machine of quantum/action_tapping.c, without Chordal *)
(* Hold, Flow Tap and Retro Shift.  Key events and millisecond ticks enter *)
(* at action_tapping_process; what leaves are the calls of process_record, *)
(* in order.  A key event that cannot be interpreted yet waits in a        *)
(* buffer.                                                                 *)
(***************************************************************************)
EXTENDS Integers, Sequences, FiniteSets, SequencesExt

CONSTANTS
  Keys,
  Setups,               \* the keyboards: see SetupAssumption
  TAPPING_TERM,
  QUICK_TAP_TERM,
  WAITING_BUFFER_SIZE,
  TapCountMax,          \* 15
  TimerMod,             \* values of a 16-bit time
  MaxLag,               \* bound: milliseconds between two tick events
  NoKey

\* A plain key, a modifier, a momentary layer switch, a mod-tap, a layer-tap.
Kinds == {"basic", "mod", "mo", "mt", "lt"}

\* A setup gives what each key is mapped to, the keys with PERMISSIVE_HOLD and
\* with HOLD_ON_OTHER_KEY_PRESS, and a bound on the key events between two
\* tick events.
ASSUME SetupAssumption ==
  \A s \in Setups : /\ s.kind \in [Keys -> Kinds]
                    /\ s.permissive_hold \subseteq Keys
                    /\ s.hold_on_other_key_press \subseteq Keys
                    /\ s.events_per_tick \in Nat
ASSUME KeyAssumption == NoKey \notin Keys
ASSUME TermAssumption ==
  /\ TAPPING_TERM \in Nat \ {0} /\ QUICK_TAP_TERM \in 0 .. TAPPING_TERM
  /\ MaxLag \in Nat \ {0} /\ TimerMod \in Nat
  /\ TAPPING_TERM + MaxLag < TimerMod
ASSUME BufferAssumption ==
  WAITING_BUFFER_SIZE \in Nat \ {0, 1} /\ TapCountMax \in Nat \ {0, 1}

VARIABLES
  setup,           \* fixed when the firmware is built
  tapping_key,     \* the tap-hold key at work, NoRecord if there is none
  waiting_buffer,  \* from waiting_buffer_tail to waiting_buffer_head
  processed,       \* the records the last call handed to process_record
  now,             \* the timer
  down,            \* keys that are physically down
  lag,             \* milliseconds since the last tick event
  moved,           \* keys that had an event since the last tick event
  active,          \* ghost: what presses have set and no release has reset yet
  lost             \* ghost: an overflow has thrown records away, and since then
                   \* keys have been down or layers have been left on

vars == <<setup, tapping_key, waiting_buffer, processed, now, down, lag, moved,
          active, lost>>

-----------------------------------------------------------------------------
(* Records.                                                                *)

Records == [key : Keys \cup {NoKey}, pressed : BOOLEAN, time : 0 .. TimerMod - 1,
            count : 0 .. TapCountMax, interrupted : BOOLEAN]

\* A key event or, for NoKey, a tick event.
Event(k, p, t) == [key |-> k, pressed |-> p, time |-> t, count |-> 0, interrupted |-> FALSE]

NoRecord == Event(NoKey, FALSE, 0)

IS_NOEVENT(r) == r.key = NoKey
is_tap_key(k) == k # NoKey /\ setup.kind[k] \in {"mt", "lt"}

\* Mutant: a release does not learn that its press was a tap.
WithTap_Not(r, t) == r

WithTap(r, t) == [r EXCEPT !.count = t.count, !.interrupted = t.interrupted]
TimerDiff(a, b) == (a - b) % TimerMod

\* Mutant: the term is compared without regard to the width of the timer.
WithinTappingTerm_NoWrap(r, t) == r.time - t.time < TAPPING_TERM

WithinTappingTerm(r, t)  == TimerDiff(r.time, t.time) < TAPPING_TERM
WithinQuickTapTerm(r, t) == TimerDiff(r.time, t.time) < QUICK_TAP_TERM

\* process_action takes a tap of a mod-tap back that was interrupted where
\* HOLD_ON_OTHER_KEY_PRESS says hold.
Processed(r) ==
  IF /\ r.pressed /\ r.count > 0 /\ r.interrupted
     /\ setup.kind[r.key] = "mt" /\ r.key \in setup.hold_on_other_key_press
  THEN [r EXCEPT !.count = 0] ELSE r

\* What a processed record sets or resets.
Effect(r) ==
  <<r.key, IF ~is_tap_key(r.key) THEN "key" ELSE IF r.count > 0 THEN "tap" ELSE "hold">>
Apply(a, r) == IF r.pressed THEN a \cup {Effect(r)} ELSE a \ {Effect(r)}

\* clear_keyboard clears keys and modifiers; layers stay.
Cleared(a) ==
  {e \in a : setup.kind[e[1]] = "mo" \/ (setup.kind[e[1]] = "lt" /\ e[2] = "hold")}

-----------------------------------------------------------------------------
(* process_tapping maps a state [tk, buf, out, on] and a record to the     *)
(* state, the record and the result it leaves.                             *)

process_record(s, r) ==
  [s EXCEPT !.out = Append(@, Processed(r)), !.on = Apply(@, Processed(r))]

\* process_record(&tapping_key)
ProcessTappingKey(s) ==
  [process_record(s, s.tk) EXCEPT !.tk = Processed(s.tk)]

Reset(s) == [s EXCEPT !.tk = NoRecord]

Leaves(s, r, done) == [s |-> s, rec |-> r, done |-> done]
Consumed(s, r) == Leaves(s, r, TRUE)
Enqueue(s, r) == Leaves(s, r, FALSE)

\* Mutant: no release is taken for one whose press waits.
waiting_buffer_typed_Never(s, r) == FALSE

waiting_buffer_typed(s, r) ==
  \E i \in 1 .. Len(s.buf) : s.buf[i].key = r.key /\ s.buf[i].pressed # r.pressed

MarkRelease(b, i) == [b EXCEPT ![i].count = 1]

\* A new tapping key whose release waits in the buffer already is a tap.
waiting_buffer_scan_tap(s) ==
  LET found == {i \in 1 .. Len(s.buf) :
                  /\ s.buf[i].key = s.tk.key /\ ~s.buf[i].pressed
                  /\ WithinTappingTerm(s.buf[i], s.tk)}
      first == CHOOSE i \in found : \A j \in found : i <= j
  IN IF s.tk.count > 0 \/ ~s.tk.pressed \/ found = {} THEN s
     ELSE ProcessTappingKey([s EXCEPT !.tk.count = 1, !.buf = MarkRelease(@, first)])

StartTapping(s, r) == waiting_buffer_scan_tap([s EXCEPT !.tk = r])

\* The release of a modifier or layer key pressed before tapping started is
\* retained till the end of it.
Retained(r) ==
  \/ setup.kind[r.key] \in {"mod", "mo", "lt"}
  \/ setup.kind[r.key] = "mt" /\ r.count = 0

\* No tapping key.
Idle(s, r) ==
  IF IS_NOEVENT(r) THEN Consumed(s, r)
  ELSE IF r.pressed /\ is_tap_key(r.key) THEN Consumed(StartTapping(s, r), r)
  ELSE Consumed(process_record(s, r), r)

\* Mutant: the press does not wait.
Interrupt_Passes(s, r) ==
  LET seen == [s EXCEPT !.tk.interrupted = TRUE]
  IN Consumed(process_record(seen, r), r)

\* Another key is pressed while the tapping key is not settled.
Interrupt(s, r) ==
  LET seen == [s EXCEPT !.tk.interrupted = TRUE]
  IN IF s.tk.key \in setup.hold_on_other_key_press
     THEN Enqueue(Reset(process_record(seen, seen.tk)), r)
     ELSE Enqueue(seen, r)

\* The tapping key is down, not settled, and within its term.
Unsettled(s, r) ==
  LET tap == ProcessTappingKey([s EXCEPT !.tk.count = 1])
  IN CASE ~r.pressed /\ r.key = s.tk.key ->
            Enqueue(tap, WithTap(r, tap.tk))
       [] /\ ~r.pressed /\ r.key # s.tk.key /\ waiting_buffer_typed(s, r)
          /\ s.tk.key \in setup.permissive_hold ->
            Enqueue(Reset(process_record(s, s.tk)), r)
       [] /\ ~r.pressed /\ r.key # s.tk.key /\ ~waiting_buffer_typed(s, r) ->
            IF Retained(r) THEN Enqueue(s, r) ELSE Consumed(process_record(s, r), r)
       [] r.pressed -> Interrupt(s, r)
       [] OTHER -> Enqueue(s, r)

\* A repeated tap that is still down is released for another tap key.
ReleaseLastTap(s, r) ==
  IF s.tk.count > 1
  THEN process_record(s, [s.tk EXCEPT !.pressed = FALSE, !.time = r.time])
  ELSE s

\* The tapping key is down and settled as a tap; its release ends tapping
\* after the term.
Tapped(s, r, within) ==
  CASE ~r.pressed /\ r.key = s.tk.key ->
         LET rec == WithTap(r, s.tk)
             out == process_record(s, rec)
         IN Consumed(IF within THEN [out EXCEPT !.tk = rec] ELSE Reset(out), rec)
    [] r.pressed /\ is_tap_key(r.key) ->
         Consumed(StartTapping(ReleaseLastTap(s, r), r), r)
    [] OTHER -> Consumed(process_record(s, r), r)

\* The tapping key has been released within its term.
Released(s, r) ==
  CASE r.pressed /\ r.key = s.tk.key ->
         IF WithinQuickTapTerm(r, s.tk) /\ ~s.tk.interrupted /\ s.tk.count > 0
         THEN LET n   == IF s.tk.count < TapCountMax THEN s.tk.count + 1 ELSE s.tk.count
                  rec == Processed([WithTap(r, s.tk) EXCEPT !.count = n])
              IN Consumed([process_record(s, rec) EXCEPT !.tk = rec], rec)
         ELSE Consumed([s EXCEPT !.tk = r], r)
    [] r.pressed /\ r.key # s.tk.key /\ is_tap_key(r.key) ->
         Consumed(StartTapping(s, r), r)
    [] r.pressed /\ ~is_tap_key(r.key) ->
         Consumed(process_record([s EXCEPT !.tk.interrupted = TRUE], r), r)
    [] OTHER -> Consumed(process_record(s, r), r)

process_tapping(s, r) ==
  LET within == WithinTappingTerm(r, s.tk) IN
  IF IS_NOEVENT(s.tk) THEN Idle(s, r)
  ELSE IF s.tk.pressed /\ s.tk.count = 0 /\ ~within
  THEN Enqueue(Reset(process_record(s, s.tk)), r)
  ELSE IF ~s.tk.pressed /\ ~within THEN Enqueue(Reset(s), r)
  ELSE IF IS_NOEVENT(r) THEN Consumed(s, r)
  ELSE IF ~s.tk.pressed THEN Released(s, r)
  ELSE IF s.tk.count = 0 THEN Unsettled(s, r)
  ELSE Tapped(s, r, within)

-----------------------------------------------------------------------------
(* action_tapping_process.                                                 *)

\* Mutant: one record more than the ring can hold apart from an empty one.
Full_OffByOne(s) == Len(s.buf) >= WAITING_BUFFER_SIZE

\* waiting_buffer_enq finds no room.
Full(s) == Len(s.buf) >= WAITING_BUFFER_SIZE - 1

\* One turn of the loop over the waiting buffer.  A record stays in the buffer
\* while it is looked at, and when it is not consumed, which ends the loop.
DrainTurn(p) ==
  LET q == process_tapping(p.s, Head(p.s.buf))
  IN IF ~p.more \/ p.s.buf = <<>> THEN p
     ELSE [s |-> [q.s EXCEPT !.buf = IF q.done THEN Tail(@) ELSE [@ EXCEPT ![1] = q.rec]],
           more |-> q.done]

DrainStart(s) == [s |-> s, more |-> TRUE]

\* Mutant: one record of the buffer is looked at, not all.
Drain_Once(s) == DrainTurn(DrainStart(s)).s

Drain(s) ==
  LET turns[n \in 0 .. WAITING_BUFFER_SIZE] ==
        IF n = 0 THEN DrainStart(s) ELSE DrainTurn(turns[n - 1])
  IN turns[WAITING_BUFFER_SIZE].s

action_tapping_process(r) ==
  LET s0 == [tk |-> tapping_key, buf |-> waiting_buffer, out |-> <<>>, on |-> active]
      p  == process_tapping(s0, r)
      overflow == ~p.done /\ ~IS_NOEVENT(r) /\ Full(p.s)
      s1 == IF p.done \/ IS_NOEVENT(r) THEN p.s
            ELSE IF overflow THEN [Reset(p.s) EXCEPT !.buf = <<>>]
            ELSE [p.s EXCEPT !.buf = Append(@, p.rec)]
      s2 == Drain(s1)
  IN
  /\ tapping_key' = s2.tk
  /\ waiting_buffer' = s2.buf
  /\ processed' = s2.out
  /\ active' = IF overflow THEN Cleared(s2.on) ELSE s2.on
  /\ lost' = (overflow \/ (lost /\ (down # {} \/ Cleared(active') # {})))

\* matrix_task finds that a key has gone down or up.  Debouncing keeps a key
\* as it is until the matrix has been quiet for a tick at least.
KeyEvent(k) ==
  /\ k \notin moved /\ Cardinality(moved) < setup.events_per_tick
  /\ moved' = moved \cup {k}
  /\ down' = IF k \in down THEN down \ {k} ELSE down \cup {k}
  /\ action_tapping_process(Event(k, k \notin down, now))
  /\ UNCHANGED <<setup, now, lag>>

\* generate_tick_event.
TickEvent ==
  /\ lag > 0
  /\ UNCHANGED <<setup, now, down>> /\ lag' = 0 /\ moved' = {}
  /\ action_tapping_process(Event(NoKey, FALSE, now))

\* A millisecond passes.
Pass ==
  /\ lag < MaxLag
  /\ now' = (now + 1) % TimerMod /\ lag' = lag + 1
  /\ processed' = <<>>
  /\ UNCHANGED <<setup, tapping_key, waiting_buffer, down, moved, active, lost>>

Init ==
  /\ setup \in Setups
  /\ tapping_key = NoRecord /\ waiting_buffer = <<>> /\ processed = <<>>
  /\ now = 0 /\ down = {} /\ lag = 0 /\ moved = {}
  /\ active = {} /\ lost = FALSE

Next == (\E k \in Keys : KeyEvent(k)) \/ TickEvent \/ Pass

Spec == Init /\ [][Next]_vars

\* The main loop runs for ever, and time passes.  Only TickEvent resets lag,
\* and only Pass advances it.
FairSpec ==
  /\ Spec
  /\ WF_lag(lag > 0 /\ lag' = 0)
  /\ WF_lag(lag < MaxLag /\ lag' = lag + 1)

-----------------------------------------------------------------------------

\* Type invariant: the ring is never fuller than waiting_buffer_enq allows and
\* holds key events only.
TypeOK ==
  /\ setup \in Setups
  /\ tapping_key \in Records
  /\ waiting_buffer \in Seq(Records) /\ Len(waiting_buffer) < WAITING_BUFFER_SIZE
  /\ \A i \in DOMAIN waiting_buffer : ~IS_NOEVENT(waiting_buffer[i])
  /\ processed \in Seq(Records)
  /\ now \in 0 .. TimerMod - 1 /\ down \subseteq Keys /\ lag \in 0 .. MaxLag
  /\ moved \subseteq Keys
  /\ active \subseteq Keys \X {"key", "tap", "hold"} /\ lost \in BOOLEAN

TapKeys == {k \in Keys : setup.kind[k] \in {"mt", "lt"}}

\* At most one key is a mod-tap or layer-tap.  With PERMISSIVE_HOLD a record in
\* the buffer may decide it, which leaves the others there till the next tick;
\* then no other key event may come first.
OneTapKey ==
  /\ \A j, k \in TapKeys : j = k
  /\ setup.permissive_hold = {} \/ setup.events_per_tick <= 1

Idles == down = {} /\ waiting_buffer = <<>> /\ ~tapping_key.pressed

\* Once every key is up and nothing waits, no key code, modifier or layer that
\* process_record has switched on is still on; after an overflow, which calls
\* clear_keyboard, layers may be.
NothingStaysOn == Idles => active = IF lost THEN Cleared(active) ELSE {}

\* On keyboards with one tap-hold key nothing stays on that a press has switched
\* on, except the layers that the clear_keyboard of an overflow leaves on.  With two
\* such keys a key can stay on.
NoStuckKeys == OneTapKey => NothingStaysOn

\* What is on after each of the records of out, from a before the first.
After(a, out) ==
  LET on[n \in 0 .. Len(out)] == IF n = 0 THEN a ELSE Apply(on[n - 1], out[n])
  IN on

EffectsOf(k, a) == {e \in a : e[1] = k}

\* On keyboards with one tap-hold key, whatever way a key was settled, each of its
\* presses is processed while none of its effects is on, and its release switches
\* that effect off: a release never goes to the hold of a key whose tap is
\* registered, or to its tap while it is held.
ReleaseMatchesPress ==
  [][OneTapKey /\ ~lost' =>
       LET on == After(active, processed')
       IN \A i \in 1 .. Len(processed') :
             EffectsOf(processed'[i].key,
                       IF processed'[i].pressed THEN on[i - 1] ELSE on[i]) = {}]_vars

\* The presses the state machine has not handed on.
Undecided ==
  {r \in ToSet(waiting_buffer) \cup {tapping_key} : r.pressed /\ r.count = 0}

Presses(out) == SelectSeq(out, LAMBDA r : r.pressed)
Older(q, r) == TimerDiff(now, q.time) > TimerDiff(now, r.time) + MaxLag

\* On keyboards with one tap-hold key presses are processed in the order in which
\* the keys went down, though the releases are not: one that waits in the buffer,
\* or as the tapping key, is never overtaken by a later press.  Presses of one tick
\* period may change places.
PressOrder ==
  [][OneTapKey /\ ~lost' =>
       LET out == Presses(processed')
       IN \A i \in DOMAIN out :
             /\ \A j \in 1 .. i - 1 : ~Older(out[i], out[j])
             /\ \A q \in Undecided' : ~Older(q, out[i])]_vars

\* On keyboards with one tap-hold key, from one tick to the next key event, records
\* wait only for a tapping key that is down and not settled: the loop over the
\* buffer leaves nothing that could be processed already.
WaitsForTapping ==
  OneTapKey /\ waiting_buffer # <<>> /\ moved = {}
    => tapping_key.pressed /\ tapping_key.count = 0

\* No press stays undecided, even if no other key moves and however often keys are
\* pressed anew: the tick events end every tapping term, so that at some time none
\* of the presses of a millisecond waits any more.
Waiting(t) == \E r \in Undecided : r.time = t
EveryPressIsDecided ==
  \A t \in 0 .. TimerMod - 1 : Waiting(t) ~> ~Waiting(t)
=============================================================================
