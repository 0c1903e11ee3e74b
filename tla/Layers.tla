------------------------------- MODULE Layers -------------------------------
(***************************************************************************)
(* Layers, one-shot layers, layer lock and tri layer: quantum/             *)
(* action_layer.c, the layer actions of action.c, the one-shot layer of    *)
(* action_util.c, layer_lock.c, process_layer_lock.c, tri_layer.c.  A      *)
(* press or a release is one step: the event has come out of tap-hold      *)
(* processing with its tap count, and runs through                         *)
(* process_record_quantum and process_action.                              *)
(***************************************************************************)
EXTENDS Integers, FiniteSets, FiniteSetsExt

CONSTANTS
  Keys,                     \* key positions
  MAX_LAYER,                \* number of layers
  Keymap,                   \* Keymap[layer][key]: [kind, layer, code]
  TAPPING_TOGGLE,           \* taps that turn a TT layer on for good
  ONESHOT_TIMEOUT,          \* ticks a tapped one-shot layer lasts
  LAYER_LOCK_IDLE_TIMEOUT,  \* ticks without a key after which locks are lifted
  TriLower, TriUpper, TriAdjust,  \* the three layers of tri layer
  MaxTap                    \* bound on the taps counted in a row

Layer == 0 .. MAX_LAYER - 1
Kinds == {"TRNS", "KEY", "MOD", "MO", "LT", "TT", "OSL", "LM", "TG", "TO", "DF",
          "LLOCK", "OS_TOGG", "TL_LOWR", "TL_UPPR"}

ASSUME LayerAssumption ==
  /\ MAX_LAYER \in Nat \ {0} /\ IsFiniteSet(Keys)
  /\ {TriLower, TriUpper, TriAdjust} \subseteq Layer
ASSUME KeymapAssumption ==
  \A n \in Layer, k \in Keys :
    Keymap[n][k].kind \in Kinds /\ Keymap[n][k].layer \in Layer
ASSUME TimeAssumption ==
  {TAPPING_TOGGLE, ONESHOT_TIMEOUT, LAYER_LOCK_IDLE_TIMEOUT, MaxTap} \subseteq Nat \ {0}

Codes == {Keymap[n][k].code : n \in Layer, k \in Keys}

VARIABLES
  fw,     \* the firmware's state: see Firmware
  source_layers_cache,  \* the layer each key that is down was pressed on; 0 for the
                        \* others, whose entries are written before they are read
  held,   \* per key: Up, or the tap count its press was processed with
  lastTap \* per key: the taps in a row a further tap continues

vars == <<fw, source_layers_cache, held, lastTap>>

Up == -1

\* layer_state and default_layer_state as sets; the state bits of
\* oneshot_layer_data; ages of oneshot_layer_time and layer_lock_timer, up to
\* the value that matters; the codes and modifiers registered with the host.
Firmware ==
  [layer_state : SUBSET Layer, default_layer_state : SUBSET Layer,
   locked_layers : SUBSET Layer, lock_age : 0 .. LAYER_LOCK_IDLE_TIMEOUT + 1,
   oneshot_layer : Layer, oneshot_state : SUBSET {"PRESSED", "OTHER_KEY_PRESSED"},
   oneshot_age : 0 .. ONESHOT_TIMEOUT, oneshot_enable : BOOLEAN,
   codes : SUBSET Codes, mods : SUBSET Codes]

-----------------------------------------------------------------------------
(* Layer operations: functions from a firmware state to a firmware state.  *)

layer_on(s, n)     == [s EXCEPT !.layer_state = @ \cup {n}]
layer_off(s, n)    == [s EXCEPT !.layer_state = @ \ {n}]
layer_move(s, n)   == [s EXCEPT !.layer_state = {n}]
layer_invert(s, n) == IF n \in s.layer_state THEN layer_off(s, n) ELSE layer_on(s, n)

get_highest_layer(state) == IF state = {} THEN 0 ELSE Max(state)

\* layer_switch_get_layer: the highest active layer the key is not transparent on.
layer_switch_get_layer(s, k) ==
  get_highest_layer({n \in s.layer_state \cup s.default_layer_state :
                       Keymap[n][k].kind # "TRNS"})

update_tri_layer(s) ==
  IF {TriLower, TriUpper} \subseteq s.layer_state
  THEN layer_on(s, TriAdjust) ELSE layer_off(s, TriAdjust)

(* One-shot layer.                                                         *)

is_oneshot_layer_active(s) == s.oneshot_state # {}

reset_oneshot_layer(s) ==
  [s EXCEPT !.oneshot_layer = 0, !.oneshot_state = {}, !.oneshot_age = 0]

\* Mutant: the state bits of a toggled one-shot layer.
set_oneshot_layer_Toggled(s, n) ==
  layer_on([s EXCEPT !.oneshot_layer = n, !.oneshot_state = {"TOGGLED"},
                     !.oneshot_age = 0], n)

\* Always called with ONESHOT_START, both bits.
set_oneshot_layer(s, n) ==
  layer_on([s EXCEPT !.oneshot_layer = n,
                     !.oneshot_state = {"PRESSED", "OTHER_KEY_PRESSED"},
                     !.oneshot_age = 0], n)

\* The layer goes off with the last of the two bits.
clear_oneshot_layer_state(s, bit) ==
  IF s.oneshot_state = {bit} /\ s.oneshot_enable
  THEN reset_oneshot_layer(layer_off(s, s.oneshot_layer))
  ELSE [s EXCEPT !.oneshot_state = @ \ {bit}]

oneshot_toggle(s) ==
  clear_oneshot_layer_state([s EXCEPT !.oneshot_enable = ~@], "OTHER_KEY_PRESSED")

\* The time checks at the start of action_exec, run for every event and tick.
oneshot_timeouts(s) ==
  IF s.oneshot_enable /\ s.oneshot_age >= ONESHOT_TIMEOUT
  THEN clear_oneshot_layer_state(s, "OTHER_KEY_PRESSED") ELSE s

(* Layer lock.                                                             *)

\* Mutant: locking leaves the one-shot state behind.
layer_lock_invert_KeepsOneshot(s, n) ==
  IF n \in s.locked_layers
  THEN [layer_off(s, n) EXCEPT !.locked_layers = @ \ {n}]
  ELSE [layer_on(s, n) EXCEPT !.locked_layers = @ \cup {n}, !.lock_age = 0]

layer_lock_invert(s, n) ==
  IF n \in s.locked_layers
  THEN [layer_off(s, n) EXCEPT !.locked_layers = @ \ {n}]
  ELSE [layer_on(IF n = s.oneshot_layer THEN reset_oneshot_layer(s) ELSE s, n)
          EXCEPT !.locked_layers = @ \cup {n}, !.lock_age = 0]

\* Mutant: the locks are dropped but their layers stay on.
layer_lock_all_off_LeftOn(s) == [s EXCEPT !.locked_layers = {}]

layer_lock_all_off(s) ==
  [s EXCEPT !.layer_state = @ \ s.locked_layers, !.locked_layers = {}]

layer_lock_task(s) ==
  IF s.locked_layers # {} /\ s.lock_age > LAYER_LOCK_IDLE_TIMEOUT
  THEN [layer_lock_all_off(s) EXCEPT !.lock_age = 0] ELSE s

-----------------------------------------------------------------------------
(* process_record_quantum: the new state, and whether processing goes on.  *)

Goes(s, on) == [s |-> s, on |-> on]

process_tri_layer(s, a, pressed) ==
  LET n == IF a.kind = "TL_LOWR" THEN TriLower ELSE TriUpper
  IN IF a.kind \in {"TL_LOWR", "TL_UPPR"}
     THEN Goes(update_tri_layer(IF pressed THEN layer_on(s, n) ELSE layer_off(s, n)), FALSE)
     ELSE Goes(s, TRUE)

process_layer_lock(s0, a, pressed, tap) ==
  LET s == [s0 EXCEPT !.lock_age = 0, !.locked_layers = @ \cap s0.layer_state]
      locked == a.layer \in s.locked_layers
  IN CASE a.kind = "LLOCK" ->
            Goes(IF pressed THEN layer_lock_invert(s, get_highest_layer(s.layer_state))
                            ELSE s, FALSE)
       [] a.kind \in {"MO", "TT", "LM"} /\ locked ->
            Goes(IF pressed THEN layer_lock_invert(s, a.layer)
                 ELSE IF a.kind = "LM" THEN [s EXCEPT !.mods = {}] ELSE s, FALSE)
       [] a.kind = "LT" /\ tap = 0 /\ ~pressed /\ locked -> Goes(s, FALSE)
       [] OTHER -> Goes(s, TRUE)

process_record_quantum(s, a, pressed, tap) ==
  LET tri  == process_tri_layer(s, a, pressed)
      lock == process_layer_lock(tri.s, a, pressed, tap)
  IN IF ~tri.on THEN tri
     ELSE IF ~lock.on THEN lock
     ELSE Goes(IF a.kind = "OS_TOGG" /\ pressed THEN oneshot_toggle(lock.s) ELSE lock.s, TRUE)

-----------------------------------------------------------------------------
(* process_action.                                                         *)

\* register_code and register_mods, unregister_code and unregister_mods.
register(s, a) ==
  IF a.kind \in {"MOD", "LM"} THEN [s EXCEPT !.mods = @ \cup {a.code}]
                              ELSE [s EXCEPT !.codes = @ \cup {a.code}]
unregister(s, a) ==
  IF a.kind \in {"MOD", "LM"} THEN [s EXCEPT !.mods = @ \ {a.code}]
                              ELSE [s EXCEPT !.codes = @ \ {a.code}]

\* The switch of process_action, for a press and for a release.
PressAction(s, a, tap) ==
  CASE a.kind \in {"KEY", "MOD"} -> register(s, a)
    [] a.kind = "LM" -> register(layer_on(s, a.layer), a)
    [] a.kind = "MO" -> layer_on(s, a.layer)
    [] a.kind = "LT" -> IF tap > 0 THEN register(s, a) ELSE layer_on(s, a.layer)
    [] a.kind = "TT" -> IF tap < TAPPING_TOGGLE THEN layer_invert(s, a.layer) ELSE s
    [] a.kind = "TO" -> layer_move(s, a.layer)
    [] a.kind = "OSL" -> IF s.oneshot_enable THEN set_oneshot_layer(s, a.layer)
                                             ELSE layer_on(s, a.layer)
    [] OTHER -> s

OneshotRelease(s, tap) ==
  LET t == clear_oneshot_layer_state(s, "PRESSED")
  IN IF tap > 1 THEN clear_oneshot_layer_state(t, "OTHER_KEY_PRESSED") ELSE t

ReleaseAction(s, a, tap) ==
  CASE a.kind \in {"KEY", "MOD"} -> unregister(s, a)
    [] a.kind = "LM" -> layer_off(unregister(s, a), a.layer)
    [] a.kind = "MO" -> layer_off(s, a.layer)
    [] a.kind = "LT" -> IF tap > 0 THEN unregister(s, a) ELSE layer_off(s, a.layer)
    [] a.kind = "TT" -> IF tap <= TAPPING_TOGGLE THEN layer_invert(s, a.layer) ELSE s
    [] a.kind = "TG" -> layer_invert(s, a.layer)
    [] a.kind = "DF" -> [s EXCEPT !.default_layer_state = {a.layer}]
    [] a.kind = "OSL" -> IF s.oneshot_enable THEN OneshotRelease(s, tap)
                                             ELSE layer_off(s, a.layer)
    [] OTHER -> s

\* Mutant: a release is looked up on the layers that are on now.
ReleaseLayer_Now(s, cache, k) == layer_switch_get_layer(s, k)

\* store_or_get_action and get_event_keycode for a release.
ReleaseLayer(s, cache, k) == cache[k]

\* process_record of a release.
ReleaseRecord(s, cache, k, tap) ==
  LET a == Keymap[ReleaseLayer(s, cache, k)][k]
      q == process_record_quantum(s, a, FALSE, tap)
  IN IF q.on THEN ReleaseAction(q.s, a, tap) ELSE q.s

\* The end of process_action: as the one-shot layer is gone, the key that ended
\* it is released at once.
release_oneshot(s, cache, k, tap) ==
  layer_off(ReleaseRecord(layer_on(s, s.oneshot_layer), cache, k, tap), s.oneshot_layer)

\* process_record of a press: the state and the layer that goes in the cache.
\* A key other than a modifier ends a tapped one-shot layer.
PressRecord(s, cache, k, tap) ==
  LET n == layer_switch_get_layer(s, k)
      q == process_record_quantum(s, Keymap[n][k], TRUE, tap)
      m == layer_switch_get_layer(q.s, k)
      a == Keymap[m][k]
      ends == is_oneshot_layer_active(q.s) /\ a.kind # "MOD" /\ q.s.oneshot_enable
      t == IF ends THEN clear_oneshot_layer_state(q.s, "OTHER_KEY_PRESSED") ELSE q.s
      u == PressAction(t, a, tap)
  IN IF ~q.on
     THEN [layer |-> n,
           s |-> IF is_oneshot_layer_active(q.s) /\ q.s.oneshot_enable
                 THEN clear_oneshot_layer_state(q.s, "OTHER_KEY_PRESSED") ELSE q.s]
     ELSE [layer |-> m,
           s |-> IF ends /\ ~is_oneshot_layer_active(t) /\ "PRESSED" \notin u.oneshot_state
                 THEN release_oneshot(u, [cache EXCEPT ![k] = m], k, tap)
                 ELSE u]

-----------------------------------------------------------------------------
(* Steps.                                                                  *)

\* is_tap_action.
is_tap_action(a) == a.kind \in {"LT", "TT", "OSL"}

\* The counts tap-hold processing may give a press of k.
TapCounts(k) ==
  IF ~is_tap_action(Keymap[layer_switch_get_layer(fw, k)][k]) THEN {0}
  ELSE {0, 1} \cup ({lastTap[k] + 1} \cap 1 .. MaxTap)

NoTap == [k \in Keys |-> 0]

Press(k) ==
  /\ held[k] = Up
  /\ \E tap \in TapCounts(k) :
       LET r == PressRecord(oneshot_timeouts(fw), source_layers_cache, k, tap) IN
       /\ fw' = r.s
       /\ source_layers_cache' = [source_layers_cache EXCEPT ![k] = r.layer]
       /\ held' = [held EXCEPT ![k] = tap]
       /\ lastTap' = [NoTap EXCEPT ![k] = tap]

Release(k) ==
  /\ held[k] # Up
  /\ fw' = ReleaseRecord(oneshot_timeouts(fw), source_layers_cache, k, held[k])
  /\ held' = [held EXCEPT ![k] = Up]
  /\ source_layers_cache' = [source_layers_cache EXCEPT ![k] = 0]
  /\ UNCHANGED lastTap

\* A scan without a key event: the time checks of action_exec, layer_lock_task.
Scan ==
  /\ fw' = layer_lock_task(oneshot_timeouts(fw))
  /\ UNCHANGED <<source_layers_cache, held, lastTap>>

\* Time passes; only ages that are still looked at are counted.  A tick is
\* longer than the tapping term.
Time ==
  /\ fw' = [fw EXCEPT !.lock_age = IF @ <= LAYER_LOCK_IDLE_TIMEOUT /\ fw.locked_layers # {}
                                   THEN @ + 1 ELSE @,
                      !.oneshot_age = IF @ < ONESHOT_TIMEOUT /\ is_oneshot_layer_active(fw)
                                      THEN @ + 1 ELSE @]
  /\ lastTap' = NoTap
  /\ UNCHANGED <<source_layers_cache, held>>

Init ==
  /\ fw = [layer_state |-> {}, default_layer_state |-> {0}, locked_layers |-> {},
           lock_age |-> 0, oneshot_layer |-> 0, oneshot_state |-> {}, oneshot_age |-> 0,
           oneshot_enable |-> TRUE, codes |-> {}, mods |-> {}]
  /\ source_layers_cache = [k \in Keys |-> 0]
  /\ held = [k \in Keys |-> Up]
  /\ lastTap = NoTap

Next == (\E k \in Keys : Press(k) \/ Release(k)) \/ Scan \/ Time

Spec == Init /\ [][Next]_vars /\ WF_vars(Scan) /\ WF_vars(Time)

-----------------------------------------------------------------------------
(* Properties.                                                             *)

AllUp == \A k \in Keys : held[k] = Up

\* Type invariant.
TypeOK ==
  /\ fw \in Firmware
  /\ source_layers_cache \in [Keys -> Layer]
  /\ held \in [Keys -> Up .. MaxTap]
  /\ lastTap \in [Keys -> 0 .. MaxTap]

\* However layers change between the press and the release of a key, and
\* whatever is locked or one-shot meanwhile, the host is left with no code and
\* no modifier down once every key is up (store_or_get_action).
NoStuckKeys == AllUp => fw.codes = {} /\ fw.mods = {}

\* Layers no key of the keymap turns on for good.
Momentary ==
  {n \in Layer \ {0} : \A m \in Layer, k \in Keys :
     Keymap[m][k].kind \in {"TG", "TO", "TT", "DF"} => Keymap[m][k].layer # n}

\* Once all keys stay up, every momentary layer goes off and stays off, held,
\* one-shot or locked as it may have been: no layer is left on by a release
\* that was skipped, and the time limits take down locks and one-shot layers.
\* What remains is the layer of a one-shot key that was in effect when one-shot
\* keys were switched off: oneshot_layer_data still names it.
HandsOffEndsLayers ==
  <>[]AllUp => <>[](fw.layer_state \cap Momentary
                      \subseteq IF is_oneshot_layer_active(fw) THEN {} ELSE {fw.oneshot_layer})

LockableKinds == {"MO", "LT", "OSL", "TT", "LM"}

\* The layers a release may turn off although they are locked: that of a one-shot
\* key pressed after the layer was locked, and that of a one-shot key a while
\* one-shot keys are disabled, which layer lock does not look at then.
LockExceptions(a) ==
  (IF is_oneshot_layer_active(fw) THEN {fw.oneshot_layer} ELSE {})
    \cup (IF a.kind = "OSL" /\ ~fw.oneshot_enable THEN {a.layer} ELSE {})

\* A layer that gets locked is on after that step, also when it was a one-shot
\* layer the layer lock key itself would have ended; and, but for the exceptions,
\* the release of a key of the kinds layer lock supports, such as the one that
\* turned the layer on, does not turn a locked layer off (process_layer_lock).
LocksHold ==
  [][/\ fw'.locked_layers \ fw.locked_layers \subseteq fw'.layer_state
     /\ \A k \in Keys :
          held[k] # Up /\ held'[k] = Up
            /\ Keymap[source_layers_cache[k]][k].kind \in LockableKinds
          => (fw.locked_layers \cap fw.layer_state) \ fw'.layer_state
               \subseteq LockExceptions(Keymap[source_layers_cache[k]][k])]_vars
=============================================================================
