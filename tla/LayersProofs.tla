---------------------------- MODULE LayersProofs ----------------------------
(***************************************************************************)
(* Proofs about layers, one-shot layers and layer lock, for every keymap:  *)
(* types, no code or modifier is left down, and locked layers stay on.     *)
(***************************************************************************)
EXTENDS Layers, OrderLemmas, TLAPS

-----------------------------------------------------------------------------
(* The operations on a firmware state.                                     *)

\* Firmware states with the same codes and modifiers down as s.
SameKeys(s) == {t \in Firmware : t.codes = s.codes /\ t.mods = s.mods}

\* The highest layer of a set is one of its layers.
LEMMA HighestIsLayer ==
  ASSUME NEW S \in SUBSET Layer
  PROVE  /\ get_highest_layer(S) \in Layer
         /\ S # {} => get_highest_layer(S) \in S
<1>0. MAX_LAYER \in Nat \ {0} /\ 0 \in Layer
  BY LayerAssumption DEF Layer
<1>1. CASE S = {}
  BY <1>0, <1>1 DEF get_highest_layer
<1>2. CASE S # {}
  <2> DEFINE D == {n \in Nat : MAX_LAYER - n \in S}
  <2>1. D # {}
    <3>1. PICK x \in S : TRUE
      BY <1>2
    <3>2. MAX_LAYER - x \in Nat /\ MAX_LAYER - (MAX_LAYER - x) = x
      BY <1>0 DEF Layer
    <3> QED BY <3>1, <3>2
  <2>2. PICK m \in D : \A j \in D : m <= j
    <3>1. D \subseteq Nat
      OBVIOUS
    <3> HIDE DEF D
    <3> QED BY <2>1, <3>1, SmallestElement
  <2>3. ASSUME NEW y \in S PROVE MAX_LAYER - m >= y
    <3>1. MAX_LAYER - y \in D /\ y \in Int /\ m \in Nat
      BY <1>0 DEF Layer
    <3>2. m <= MAX_LAYER - y
      BY <2>2, <3>1
    <3> QED BY <1>0, <3>1, <3>2
  <2>4. \E x \in S : \A y \in S : x >= y
    BY <2>2, <2>3
  <2>5. Max(S) \in S
    BY <2>4 DEF Max
  <2> QED BY <1>2, <2>5 DEF get_highest_layer
<1> QED BY <1>1, <1>2

LEMMA KeyLayerIsLayer ==
  ASSUME NEW s \in Firmware, NEW k \in Keys
  PROVE  layer_switch_get_layer(s, k) \in Layer
<1>1. {n \in s.layer_state \cup s.default_layer_state : Keymap[n][k].kind # "TRNS"}
        \in SUBSET Layer
  BY DEF Firmware
<1> QED BY <1>1, HighestIsLayer DEF layer_switch_get_layer

LEMMA LayerOps ==
  ASSUME NEW s \in Firmware, NEW n \in Layer
  PROVE  {layer_on(s, n), layer_off(s, n), layer_move(s, n), layer_invert(s, n)}
           \subseteq SameKeys(s)
  BY DEF layer_on, layer_off, layer_move, layer_invert, SameKeys, Firmware

LEMMA TriLayerOps ==
  ASSUME NEW s \in Firmware
  PROVE  update_tri_layer(s) \in SameKeys(s)
  BY LayerOps, LayerAssumption DEF update_tri_layer

LEMMA OneshotOps ==
  ASSUME NEW s \in Firmware, NEW n \in Layer, NEW bit \in {"PRESSED", "OTHER_KEY_PRESSED"}
  PROVE  {reset_oneshot_layer(s), set_oneshot_layer(s, n), clear_oneshot_layer_state(s, bit),
          oneshot_toggle(s), oneshot_timeouts(s)} \subseteq SameKeys(s)
<1>0. 0 \in Layer /\ 0 \in 0 .. ONESHOT_TIMEOUT
  BY LayerAssumption, TimeAssumption DEF Layer
<1>1. \A t \in Firmware : reset_oneshot_layer(t) \in SameKeys(t)
  BY <1>0 DEF reset_oneshot_layer, SameKeys, Firmware
<1>2. set_oneshot_layer(s, n) \in SameKeys(s)
  <2> DEFINE t == [s EXCEPT !.oneshot_layer = n,
                            !.oneshot_state = {"PRESSED", "OTHER_KEY_PRESSED"},
                            !.oneshot_age = 0]
  <2>1. t \in SameKeys(s)
    BY <1>0 DEF SameKeys, Firmware
  <2>2. layer_on(t, n) \in SameKeys(t)
    <3>1. t \in Firmware
      BY <2>1 DEF SameKeys
    <3> HIDE DEF t
    <3> QED BY <3>1, LayerOps
  <2>3. set_oneshot_layer(s, n) = layer_on(t, n)
    BY DEF set_oneshot_layer
  <2> HIDE DEF t
  <2> QED BY <2>1, <2>2, <2>3 DEF SameKeys
<1>3. ASSUME NEW t \in Firmware, NEW b \in {"PRESSED", "OTHER_KEY_PRESSED"}
      PROVE  clear_oneshot_layer_state(t, b) \in SameKeys(t)
  <2>1. CASE t.oneshot_state = {b} /\ t.oneshot_enable
    <3>1. t.oneshot_layer \in Layer
      BY DEF Firmware
    <3>2. layer_off(t, t.oneshot_layer) \in SameKeys(t)
      BY <3>1, LayerOps
    <3> QED BY <1>1, <2>1, <3>2 DEF clear_oneshot_layer_state, SameKeys
  <2>2. CASE ~(t.oneshot_state = {b} /\ t.oneshot_enable)
    <3>1. clear_oneshot_layer_state(t, b) = [t EXCEPT !.oneshot_state = @ \ {b}]
      BY <2>2 DEF clear_oneshot_layer_state
    <3> QED BY <3>1 DEF SameKeys, Firmware
  <2> QED BY <2>1, <2>2
<1>4. oneshot_toggle(s) \in SameKeys(s)
  <2>1. [s EXCEPT !.oneshot_enable = ~@] \in SameKeys(s)
    BY DEF SameKeys, Firmware
  <2> QED BY <1>3, <2>1 DEF oneshot_toggle, SameKeys
<1>5. oneshot_timeouts(s) \in SameKeys(s)
  BY <1>3 DEF oneshot_timeouts, SameKeys
<1> QED BY <1>1, <1>2, <1>3, <1>4, <1>5

LEMMA LockOps ==
  ASSUME NEW s \in Firmware, NEW n \in Layer
  PROVE  {layer_lock_invert(s, n), layer_lock_all_off(s), layer_lock_task(s)}
           \subseteq SameKeys(s)
<1>0. 0 \in 0 .. LAYER_LOCK_IDLE_TIMEOUT + 1
  BY TimeAssumption
<1>1. layer_lock_invert(s, n) \in SameKeys(s)
  <2>1. CASE n \in s.locked_layers
    <3>1. layer_off(s, n) \in SameKeys(s)
      BY LayerOps
    <3>2. layer_lock_invert(s, n) = [layer_off(s, n) EXCEPT !.locked_layers = @ \ {n}]
      BY <2>1 DEF layer_lock_invert
    <3> QED BY <3>1, <3>2 DEF SameKeys, Firmware
  <2>2. CASE n \notin s.locked_layers
    <3> DEFINE t == IF n = s.oneshot_layer THEN reset_oneshot_layer(s) ELSE s
               u == layer_on(t, n)
    <3>1. t \in SameKeys(s)
      BY OneshotOps DEF SameKeys
    <3>2. u \in SameKeys(s)
      <4> HIDE DEF t
      <4> QED BY <3>1, LayerOps DEF SameKeys
    <3>3. layer_lock_invert(s, n) = [u EXCEPT !.locked_layers = @ \cup {n}, !.lock_age = 0]
      BY <2>2 DEF layer_lock_invert
    <3> HIDE DEF u
    <3>4. u.locked_layers \cup {n} \in SUBSET Layer
      BY <3>2 DEF SameKeys, Firmware
    <3> QED BY <1>0, <3>2, <3>3, <3>4 DEF SameKeys, Firmware
  <2> QED BY <2>1, <2>2
<1>2. layer_lock_all_off(s) \in SameKeys(s)
  BY DEF layer_lock_all_off, SameKeys, Firmware
<1>3. layer_lock_task(s) \in SameKeys(s)
  <2>1. [layer_lock_all_off(s) EXCEPT !.lock_age = 0] \in SameKeys(s)
    BY <1>0, <1>2 DEF SameKeys, Firmware
  <2> QED BY <2>1 DEF layer_lock_task, SameKeys
<1> QED BY <1>1, <1>2, <1>3

-----------------------------------------------------------------------------
(* Records.                                                                *)

\* An action of the keymap.
IsAction(a) == a.kind \in Kinds /\ a.layer \in Layer /\ a.code \in Codes

\* The action registers its code, or its modifier, when it is pressed with tap.
RegistersCode(a, tap) == a.kind = "KEY" \/ (a.kind = "LT" /\ tap > 0)
RegistersMod(a)       == a.kind \in {"MOD", "LM"}

LEMMA KeymapActions ==
  ASSUME NEW n \in Layer, NEW k \in Keys
  PROVE  IsAction(Keymap[n][k])
  BY KeymapAssumption DEF IsAction, Codes

\* What the hooks in front of process_action leave in q: they touch no code, and
\* no modifier but to clear them all.  Releases of keys that may have registered
\* something go on, except that of a layer-mod key, which clears the modifiers.
HooksKeepKeys(s, a, pressed, tap, q) ==
  /\ q.s \in Firmware /\ q.s.codes = s.codes /\ q.on \in BOOLEAN
  /\ q.s.mods = s.mods \/ q.s.mods = {}
  /\ RegistersCode(a, tap) \/ a.kind = "MOD" => q.on
  /\ a.kind = "LM" /\ ~pressed => q.on \/ q.s.mods = {}
  /\ pressed => q.s.mods = s.mods

LEMMA QuantumKeys ==
  ASSUME NEW s \in Firmware, NEW a, IsAction(a), NEW pressed \in BOOLEAN, NEW tap \in Nat
  PROVE  HooksKeepKeys(s, a, pressed, tap, process_record_quantum(s, a, pressed, tap))
<1> DEFINE q == process_record_quantum(s, a, pressed, tap)
<1> SUFFICES /\ q.s \in Firmware /\ q.s.codes = s.codes /\ q.on \in BOOLEAN
             /\ q.s.mods = s.mods \/ q.s.mods = {}
             /\ RegistersCode(a, tap) \/ a.kind = "MOD" => q.on
             /\ a.kind = "LM" /\ ~pressed => q.on \/ q.s.mods = {}
             /\ pressed => q.s.mods = s.mods
  BY DEF HooksKeepKeys
<1> DEFINE tri == process_tri_layer(s, a, pressed)
           lock == process_layer_lock(tri.s, a, pressed, tap)
<1>1. CASE a.kind \in {"TL_LOWR", "TL_UPPR"}
  <2> DEFINE n == IF a.kind = "TL_LOWR" THEN TriLower ELSE TriUpper
             t == IF pressed THEN layer_on(s, n) ELSE layer_off(s, n)
  <2>1. t \in SameKeys(s)
    <3>1. n \in Layer
      BY LayerAssumption
    <3> HIDE DEF n
    <3> QED BY <3>1, LayerOps
  <2>2. update_tri_layer(t) \in SameKeys(s)
    <3> HIDE DEF t
    <3> QED BY <2>1, TriLayerOps DEF SameKeys
  <2>3. q = Goes(update_tri_layer(t), FALSE)
    BY <1>1 DEF process_record_quantum, process_tri_layer, Goes
  <2> HIDE DEF t
  <2> QED BY <1>1, <2>2, <2>3 DEF Goes, SameKeys, RegistersCode
<1>2. CASE a.kind \notin {"TL_LOWR", "TL_UPPR"}
  <2>1. tri = Goes(s, TRUE)
    BY <1>2 DEF process_tri_layer
  <2> DEFINE t == [s EXCEPT !.lock_age = 0, !.locked_layers = @ \cap s.layer_state]
             locked == a.layer \in t.locked_layers
  <2>2. t \in SameKeys(s)
    <3>1. 0 \in 0 .. LAYER_LOCK_IDLE_TIMEOUT + 1
      BY TimeAssumption
    <3> QED BY <3>1 DEF SameKeys, Firmware
  <2>3. lock = CASE a.kind = "LLOCK" ->
                      Goes(IF pressed
                           THEN layer_lock_invert(t, get_highest_layer(t.layer_state))
                           ELSE t, FALSE)
                 [] a.kind \in {"MO", "TT", "LM"} /\ locked ->
                      Goes(IF pressed THEN layer_lock_invert(t, a.layer)
                           ELSE IF a.kind = "LM" THEN [t EXCEPT !.mods = {}] ELSE t, FALSE)
                 [] a.kind = "LT" /\ tap = 0 /\ ~pressed /\ locked -> Goes(t, FALSE)
                 [] OTHER -> Goes(t, TRUE)
    BY <2>1 DEF process_layer_lock, Goes
  <2>4. q = IF ~lock.on THEN lock
            ELSE Goes(IF a.kind = "OS_TOGG" /\ pressed THEN oneshot_toggle(lock.s)
                                                       ELSE lock.s, TRUE)
    BY <2>1 DEF process_record_quantum, Goes
  <2>5. t \in Firmware /\ t.codes = s.codes /\ t.mods = s.mods /\ a.layer \in Layer
    BY <2>2 DEF SameKeys, IsAction
  <2>6. /\ layer_lock_invert(t, get_highest_layer(t.layer_state)) \in SameKeys(t)
        /\ layer_lock_invert(t, a.layer) \in SameKeys(t)
    <3>1. t.layer_state \in SUBSET Layer
      BY <2>5 DEF Firmware
    <3> HIDE DEF t
    <3> QED BY <2>5, <3>1, LockOps, HighestIsLayer
  <2>7. [t EXCEPT !.mods = {}] \in Firmware /\ [t EXCEPT !.mods = {}].codes = t.codes
        /\ [t EXCEPT !.mods = {}].mods = {}
    <3> HIDE DEF t
    <3> QED BY <2>5 DEF Firmware
  <2>8. oneshot_toggle(t) \in SameKeys(t)
    <3>1. 0 \in Layer
      BY LayerAssumption DEF Layer
    <3> HIDE DEF t
    <3> QED BY <2>5, <3>1, OneshotOps
  <2> HIDE DEF t
  <2>9. CASE a.kind = "LLOCK"
    <3>1. q = Goes(IF pressed THEN layer_lock_invert(t, get_highest_layer(t.layer_state))
                              ELSE t, FALSE)
      BY <2>3, <2>4, <2>9 DEF Goes
    <3> QED BY <2>5, <2>6, <2>9, <3>1 DEF Goes, SameKeys, RegistersCode
  <2>10. CASE a.kind \in {"MO", "TT", "LM"} /\ locked
    <3>1. q = Goes(IF pressed THEN layer_lock_invert(t, a.layer)
                   ELSE IF a.kind = "LM" THEN [t EXCEPT !.mods = {}] ELSE t, FALSE)
      BY <2>3, <2>4, <2>10 DEF Goes
    <3> QED BY <2>5, <2>6, <2>7, <2>10, <3>1 DEF Goes, SameKeys, RegistersCode
  <2>11. CASE a.kind = "LT" /\ tap = 0 /\ ~pressed /\ locked
    <3>1. q = Goes(t, FALSE)
      BY <2>3, <2>4, <2>11 DEF Goes
    <3>2. ~RegistersCode(a, tap)
      BY <2>11 DEF RegistersCode
    <3>3. q.s = t /\ q.on = FALSE /\ a.kind # "LM" /\ a.kind # "MOD"
      BY <2>11, <3>1 DEF Goes
    <3> QED BY <2>5, <3>2, <3>3
  <2>12. CASE /\ a.kind # "LLOCK" /\ ~(a.kind \in {"MO", "TT", "LM"} /\ locked)
              /\ ~(a.kind = "LT" /\ tap = 0 /\ ~pressed /\ locked)
    <3>1. lock = Goes(t, TRUE)
      BY <2>3, <2>12
    <3>2. q = Goes(IF a.kind = "OS_TOGG" /\ pressed THEN oneshot_toggle(t) ELSE t, TRUE)
      BY <2>4, <3>1 DEF Goes
    <3> QED BY <2>5, <2>8, <3>2 DEF Goes, SameKeys
  <2> QED BY <2>9, <2>10, <2>11, <2>12
<1> QED BY <1>1, <1>2

\* register_code and register_mods, and their counterparts.
LEMMA RegisterKeys ==
  ASSUME NEW s \in Firmware, NEW a, IsAction(a)
  PROVE  /\ {register(s, a), unregister(s, a)} \subseteq Firmware
         /\ RegistersMod(a) => /\ register(s, a).codes = s.codes
                               /\ register(s, a).mods = s.mods \cup {a.code}
                               /\ unregister(s, a).codes = s.codes
                               /\ unregister(s, a).mods = s.mods \ {a.code}
         /\ ~RegistersMod(a) => /\ register(s, a).codes = s.codes \cup {a.code}
                                /\ register(s, a).mods = s.mods
                                /\ unregister(s, a).codes = s.codes \ {a.code}
                                /\ unregister(s, a).mods = s.mods
<1>1. /\ s.mods \cup {a.code} \in SUBSET Codes /\ s.mods \ {a.code} \in SUBSET Codes
      /\ s.codes \cup {a.code} \in SUBSET Codes /\ s.codes \ {a.code} \in SUBSET Codes
  BY DEF Firmware, IsAction
<1>2. CASE RegistersMod(a)
  <2>1. /\ register(s, a) = [s EXCEPT !.mods = s.mods \cup {a.code}]
        /\ unregister(s, a) = [s EXCEPT !.mods = s.mods \ {a.code}]
    BY <1>2 DEF register, unregister, RegistersMod
  <2> QED BY <1>1, <1>2, <2>1 DEF Firmware
<1>3. CASE ~RegistersMod(a)
  <2>1. /\ register(s, a) = [s EXCEPT !.codes = s.codes \cup {a.code}]
        /\ unregister(s, a) = [s EXCEPT !.codes = s.codes \ {a.code}]
    BY <1>3 DEF register, unregister, RegistersMod
  <2> QED BY <1>1, <1>3, <2>1 DEF Firmware
<1> QED BY <1>2, <1>3

\* The switch of process_action for a press registers at most the action's own
\* code or modifier, and only for the kinds that its release looks after.
LEMMA PressActionKeys ==
  ASSUME NEW s \in Firmware, NEW a, IsAction(a), NEW tap \in Nat
  PROVE  LET t == PressAction(s, a, tap)
         IN /\ t \in Firmware
            /\ t.codes \subseteq s.codes \cup (IF RegistersCode(a, tap) THEN {a.code} ELSE {})
            /\ t.mods \subseteq s.mods \cup (IF RegistersMod(a) THEN {a.code} ELSE {})
<1> DEFINE t == PressAction(s, a, tap)
<1>0. a.layer \in Layer
  BY DEF IsAction
<1>1. CASE a.kind \in {"KEY", "MOD"}
  <2>1. t = register(s, a)
    BY <1>1 DEF PressAction
  <2> HIDE DEF t
  <2> QED BY <1>1, <2>1, RegisterKeys DEF RegistersCode, RegistersMod, t
<1>2. CASE a.kind = "LM"
  <2>1. t = register(layer_on(s, a.layer), a)
    BY <1>2 DEF PressAction
  <2>2. PICK u \in Firmware : u = layer_on(s, a.layer) /\ u.codes = s.codes /\ u.mods = s.mods
    <3>1. layer_on(s, a.layer) \in SameKeys(s)
      BY <1>0, LayerOps
    <3> QED BY <3>1 DEF SameKeys
  <2>3. ~RegistersCode(a, tap) /\ RegistersMod(a)
    BY <1>2 DEF RegistersCode, RegistersMod
  <2> HIDE DEF t
  <2>4. t = register(u, a)
    BY <2>1, <2>2
  <2> QED BY <1>2, <2>2, <2>3, <2>4, RegisterKeys, SMTT(40) DEF t
<1>3. CASE a.kind = "LT" /\ tap > 0
  <2>1. t = register(s, a)
    BY <1>3 DEF PressAction
  <2> HIDE DEF t
  <2> QED BY <1>3, <2>1, RegisterKeys, SMTT(40) DEF RegistersCode, RegistersMod, t
<1>4. CASE a.kind \notin {"KEY", "MOD", "LM"} /\ ~(a.kind = "LT" /\ tap > 0)
  <2>1. t \in {s, layer_on(s, a.layer), layer_invert(s, a.layer), layer_move(s, a.layer),
               set_oneshot_layer(s, a.layer)}
    BY <1>4 DEF PressAction
  <2>2. t \in SameKeys(s)
    <3> HIDE DEF t
    <3>1. s \in SameKeys(s) /\ set_oneshot_layer(s, a.layer) \in SameKeys(s)
      BY <1>0, OneshotOps DEF SameKeys
    <3> QED BY <1>0, <2>1, <3>1, LayerOps
  <2> QED BY <2>2 DEF SameKeys
<1> QED BY <1>1, <1>2, <1>3, <1>4

\* The switch of process_action for a release takes the action's own code or
\* modifier away, and adds none.
LEMMA ReleaseActionKeys ==
  ASSUME NEW s \in Firmware, NEW a, IsAction(a), NEW tap \in Nat
  PROVE  LET t == ReleaseAction(s, a, tap)
         IN /\ t \in Firmware /\ t.codes \subseteq s.codes /\ t.mods \subseteq s.mods
            /\ RegistersCode(a, tap) => a.code \notin t.codes
            /\ RegistersMod(a) => a.code \notin t.mods
<1> DEFINE t == ReleaseAction(s, a, tap)
<1>0. a.layer \in Layer
  BY DEF IsAction
<1>1. CASE a.kind \in {"KEY", "MOD"} \/ (a.kind = "LT" /\ tap > 0)
  <2>1. t = unregister(s, a)
    BY <1>1 DEF ReleaseAction
  <2> HIDE DEF t
  <2>2. CASE RegistersMod(a)
    <3>1. t \in Firmware /\ t.codes = s.codes /\ t.mods = s.mods \ {a.code}
      BY <2>1, <2>2, RegisterKeys, Zenon
    <3>2. ~RegistersCode(a, tap)
      BY <2>2 DEF RegistersCode, RegistersMod
    <3> QED BY <3>1, <3>2 DEF t
  <2>3. CASE ~RegistersMod(a)
    <3>1. t \in Firmware /\ t.codes = s.codes \ {a.code} /\ t.mods = s.mods
      BY <2>1, <2>3, RegisterKeys, Zenon
    <3> QED BY <2>3, <3>1 DEF t
  <2> QED BY <2>2, <2>3
<1>2. CASE a.kind = "LM"
  <2>1. t = layer_off(unregister(s, a), a.layer)
    BY <1>2 DEF ReleaseAction
  <2>2. unregister(s, a) \in Firmware
    BY RegisterKeys
  <2>3. layer_off(unregister(s, a), a.layer) \in SameKeys(unregister(s, a))
    BY <1>0, <2>2, LayerOps
  <2> HIDE DEF t
  <2> QED BY <1>2, <2>1, <2>3, RegisterKeys, SMTT(40) DEF RegistersCode, RegistersMod, SameKeys, t
<1>3. CASE a.kind \notin {"KEY", "MOD", "LM"} /\ ~(a.kind = "LT" /\ tap > 0)
  <2>1. \/ t \in {s, layer_off(s, a.layer), layer_invert(s, a.layer), OneshotRelease(s, tap)}
        \/ t = [s EXCEPT !.default_layer_state = {a.layer}]
    BY <1>3 DEF ReleaseAction
  <2>2. [s EXCEPT !.default_layer_state = {a.layer}] \in SameKeys(s)
    BY <1>0 DEF SameKeys, Firmware
  <2>3. OneshotRelease(s, tap) \in SameKeys(s)
    <3>1. clear_oneshot_layer_state(s, "PRESSED") \in SameKeys(s)
      BY <1>0, OneshotOps
    <3> QED BY <1>0, <3>1, OneshotOps DEF OneshotRelease, SameKeys
  <2>4. t \in SameKeys(s)
    <3> HIDE DEF t
    <3> QED BY <1>0, <2>1, <2>2, <2>3, LayerOps DEF SameKeys
  <2> QED BY <1>3, <2>4 DEF SameKeys, RegistersCode, RegistersMod
<1> QED BY <1>1, <1>2, <1>3

\* process_record of a release.
LEMMA ReleaseRecordKeys ==
  ASSUME NEW s \in Firmware, NEW cache, NEW k \in Keys, cache[k] \in Layer, NEW tap \in Nat
  PROVE  LET t == ReleaseRecord(s, cache, k, tap)
             a == Keymap[cache[k]][k]
         IN /\ t \in Firmware /\ t.codes \subseteq s.codes /\ t.mods \subseteq s.mods
            /\ RegistersCode(a, tap) => a.code \notin t.codes
            /\ RegistersMod(a) => a.code \notin t.mods
<1> DEFINE t == ReleaseRecord(s, cache, k, tap)
           a == Keymap[cache[k]][k]
           q == process_record_quantum(s, a, FALSE, tap)
<1>1. t = IF q.on THEN ReleaseAction(q.s, a, tap) ELSE q.s
  BY DEF ReleaseRecord, ReleaseLayer
<1>2. IsAction(a)
  BY KeymapActions
<1> HIDE DEF t, a
<1>3. /\ q.s \in Firmware /\ q.s.codes = s.codes /\ q.on \in BOOLEAN
      /\ q.s.mods = s.mods \/ q.s.mods = {}
      /\ RegistersCode(a, tap) \/ a.kind = "MOD" => q.on
      /\ a.kind = "LM" => q.on \/ q.s.mods = {}
  <2>1. HooksKeepKeys(s, a, FALSE, tap, q)
    BY <1>2, QuantumKeys, Zenon
  <2> HIDE DEF q
  <2> QED BY <2>1 DEF HooksKeepKeys
<1> HIDE DEF q
<1>4. CASE q.on
  <2>1. t = ReleaseAction(q.s, a, tap)
    BY <1>1, <1>4
  <2>2. /\ t \in Firmware /\ t.codes \subseteq q.s.codes /\ t.mods \subseteq q.s.mods
        /\ RegistersCode(a, tap) => a.code \notin t.codes
        /\ RegistersMod(a) => a.code \notin t.mods
    BY <1>2, <1>3, <2>1, ReleaseActionKeys
  <2> QED BY <1>3, <2>2 DEF t, a
<1>5. CASE ~q.on
  <2>1. t = q.s
    BY <1>1, <1>5
  <2> QED BY <1>3, <1>5, <2>1 DEF RegistersMod, t, a
<1> QED BY <1>3, <1>4, <1>5

\* process_record of a press.  The layer it reports is the one whose action
\* was carried out.
LEMMA PressRecordKeys ==
  ASSUME NEW s \in Firmware, NEW cache \in [Keys -> Layer], NEW k \in Keys, NEW tap \in Nat
  PROVE  LET r == PressRecord(s, cache, k, tap)
             a == Keymap[r.layer][k]
         IN /\ r.s \in Firmware /\ r.layer \in Layer
            /\ r.s.codes \subseteq s.codes \cup (IF RegistersCode(a, tap) THEN {a.code} ELSE {})
            /\ r.s.mods \subseteq s.mods \cup (IF RegistersMod(a) THEN {a.code} ELSE {})
<1> DEFINE r == PressRecord(s, cache, k, tap)
           n == layer_switch_get_layer(s, k)
           q == process_record_quantum(s, Keymap[n][k], TRUE, tap)
           m == layer_switch_get_layer(q.s, k)
           a == Keymap[m][k]
           ends == is_oneshot_layer_active(q.s) /\ a.kind # "MOD" /\ q.s.oneshot_enable
           t == IF ends THEN clear_oneshot_layer_state(q.s, "OTHER_KEY_PRESSED") ELSE q.s
           u == PressAction(t, a, tap)
           c == [cache EXCEPT ![k] = m]
<1>1. r = IF ~q.on
          THEN [layer |-> n,
                s |-> IF is_oneshot_layer_active(q.s) /\ q.s.oneshot_enable
                      THEN clear_oneshot_layer_state(q.s, "OTHER_KEY_PRESSED") ELSE q.s]
          ELSE [layer |-> m,
                s |-> IF ends /\ ~is_oneshot_layer_active(t) /\ "PRESSED" \notin u.oneshot_state
                      THEN release_oneshot(u, c, k, tap) ELSE u]
  BY DEF PressRecord
<1>2. n \in Layer
  BY KeyLayerIsLayer
<1>3. q.s \in Firmware /\ q.s.codes = s.codes /\ q.s.mods = s.mods
  <2>1. IsAction(Keymap[n][k])
    BY <1>2, KeymapActions
  <2>2. HooksKeepKeys(s, Keymap[n][k], TRUE, tap, q)
    BY <2>1, QuantumKeys, Zenon
  <2> HIDE DEF n, q
  <2> QED BY <2>2 DEF HooksKeepKeys
<1>4. m \in Layer
  <2> HIDE DEF q
  <2> QED BY <1>3, KeyLayerIsLayer
<1>5. clear_oneshot_layer_state(q.s, "OTHER_KEY_PRESSED") \in SameKeys(q.s)
  <2> HIDE DEF q, n
  <2> QED BY <1>2, <1>3, OneshotOps
<1>6. t \in Firmware /\ t.codes = s.codes /\ t.mods = s.mods
  <2> HIDE DEF q, ends
  <2> QED BY <1>3, <1>5 DEF SameKeys
<1> HIDE DEF q, ends, n, t
<1>7. CASE ~q.on
  <2>1. r.layer = n /\ r.s \in {q.s, clear_oneshot_layer_state(q.s, "OTHER_KEY_PRESSED")}
    BY <1>1, <1>7
  <2> HIDE DEF r
  <2> QED BY <1>2, <1>3, <1>5, <2>1 DEF SameKeys, r
<1>8. CASE q.on
  <2>1. IsAction(a)
    BY <1>4, KeymapActions
  <2>2. /\ u \in Firmware
        /\ u.codes \subseteq s.codes \cup (IF RegistersCode(a, tap) THEN {a.code} ELSE {})
        /\ u.mods \subseteq s.mods \cup (IF RegistersMod(a) THEN {a.code} ELSE {})
    <3> HIDE DEF a
    <3> QED BY <1>6, <2>1, PressActionKeys
  <2>3. r.layer = m /\ r.s \in {u, release_oneshot(u, c, k, tap)}
    BY <1>1, <1>8
  <2>4. c[k] = m
    OBVIOUS
  <2> HIDE DEF u, c, m
  <2>5. /\ release_oneshot(u, c, k, tap) \in Firmware
        /\ release_oneshot(u, c, k, tap).codes \subseteq u.codes
        /\ release_oneshot(u, c, k, tap).mods \subseteq u.mods
    <3>1. u.oneshot_layer \in Layer
      BY <2>2 DEF Firmware
    <3>2. layer_on(u, u.oneshot_layer) \in SameKeys(u)
      BY <2>2, <3>1, LayerOps
    <3> DEFINE v == ReleaseRecord(layer_on(u, u.oneshot_layer), c, k, tap)
    <3>3. v \in Firmware /\ v.codes \subseteq u.codes /\ v.mods \subseteq u.mods
      BY <1>4, <2>4, <3>2, ReleaseRecordKeys DEF SameKeys
    <3>4. layer_off(v, u.oneshot_layer) \in SameKeys(v)
      <4> HIDE DEF v
      <4> QED BY <3>1, <3>3, LayerOps
    <3>5. release_oneshot(u, c, k, tap) = layer_off(v, u.oneshot_layer)
      BY DEF release_oneshot
    <3> HIDE DEF v
    <3> QED BY <3>3, <3>4, <3>5 DEF SameKeys
  <2> HIDE DEF r
  <2>6. r.s \in Firmware /\ r.s.codes \subseteq u.codes /\ r.s.mods \subseteq u.mods
    BY <2>2, <2>3, <2>5
  <2> QED BY <1>4, <2>2, <2>3, <2>6 DEF r
<1> QED BY <1>7, <1>8

-----------------------------------------------------------------------------
(* Types, and no stuck keys.  The invariant names, for every code and      *)
(* modifier that is down, a key that is held and whose release, looked up  *)
(* on the layer its press was cached with, will take it away.              *)

ActionOf(k) == Keymap[source_layers_cache[k]][k]

HeldInv ==
  /\ \A c \in fw.codes :
       \E k \in Keys : held[k] # Up /\ RegistersCode(ActionOf(k), held[k]) /\ ActionOf(k).code = c
  /\ \A c \in fw.mods :
       \E k \in Keys : held[k] # Up /\ RegistersMod(ActionOf(k)) /\ ActionOf(k).code = c

LEMMA TapCountsRange ==
  ASSUME TypeOK, NEW k \in Keys, NEW tap \in TapCounts(k)
  PROVE  tap \in 0 .. MaxTap /\ tap \in Nat
<1>1. MaxTap \in Nat \ {0}
  BY TimeAssumption
<1> QED BY <1>1 DEF TapCounts, TypeOK

LEMMA TimeoutsKeys ==
  ASSUME TypeOK
  PROVE  oneshot_timeouts(fw) \in SameKeys(fw)
<1>1. 0 \in Layer
  BY LayerAssumption DEF Layer
<1> QED BY <1>1, OneshotOps DEF TypeOK

LEMMA PressHeld ==
  ASSUME TypeOK, HeldInv, NEW k \in Keys, Press(k)
  PROVE  TypeOK' /\ HeldInv'
<1>1. PICK tap \in TapCounts(k) :
         LET r == PressRecord(oneshot_timeouts(fw), source_layers_cache, k, tap) IN
         /\ fw' = r.s
         /\ source_layers_cache' = [source_layers_cache EXCEPT ![k] = r.layer]
         /\ held' = [held EXCEPT ![k] = tap]
         /\ lastTap' = [NoTap EXCEPT ![k] = tap]
  BY DEF Press
<1> DEFINE r == PressRecord(oneshot_timeouts(fw), source_layers_cache, k, tap)
           a == Keymap[r.layer][k]
<1>2. tap \in 0 .. MaxTap /\ tap \in Nat /\ tap # Up /\ MaxTap \in Nat
  BY TapCountsRange, TimeAssumption DEF Up
<1>3. /\ fw' = r.s /\ held' = [held EXCEPT ![k] = tap]
      /\ source_layers_cache' = [source_layers_cache EXCEPT ![k] = r.layer]
      /\ lastTap' = [NoTap EXCEPT ![k] = tap]
  BY <1>1
<1>4. /\ r.s \in Firmware /\ r.layer \in Layer
      /\ r.s.codes \subseteq fw.codes \cup (IF RegistersCode(a, tap) THEN {a.code} ELSE {})
      /\ r.s.mods \subseteq fw.mods \cup (IF RegistersMod(a) THEN {a.code} ELSE {})
  <2> DEFINE s == oneshot_timeouts(fw)
  <2>1. s \in Firmware /\ s.codes = fw.codes /\ s.mods = fw.mods
    BY TimeoutsKeys DEF SameKeys
  <2>2. source_layers_cache \in [Keys -> Layer]
    BY DEF TypeOK
  <2> HIDE DEF s
  <2> QED BY <1>2, <2>1, <2>2, PressRecordKeys DEF s
<1> HIDE DEF r
<1>5. /\ held' \in [Keys -> Up .. MaxTap] /\ lastTap' \in [Keys -> 0 .. MaxTap]
      /\ source_layers_cache' \in [Keys -> Layer]
  <2>1. tap \in Up .. MaxTap /\ 0 \in 0 .. MaxTap
    BY <1>2 DEF Up
  <2> QED BY <1>2, <1>3, <1>4, <2>1 DEF TypeOK, NoTap
<1>6. /\ held'[k] = tap /\ ActionOf(k)' = a
      /\ \A j \in Keys : j # k => held'[j] = held[j] /\ ActionOf(j)' = ActionOf(j)
  BY <1>3 DEF TypeOK, ActionOf
<1>7. held[k] = Up
  BY DEF Press
<1>8. HeldInv'
  <2>1. ASSUME NEW c \in fw'.codes
        PROVE  \E j \in Keys : /\ held'[j] # Up /\ RegistersCode(ActionOf(j)', held'[j])
                               /\ ActionOf(j)'.code = c
    <3>1. CASE c \in fw.codes
      <4>1. PICK j \in Keys : /\ held[j] # Up /\ RegistersCode(ActionOf(j), held[j])
                              /\ ActionOf(j).code = c
        BY <3>1 DEF HeldInv
      <4>2. j # k
        BY <1>7, <4>1
      <4> QED BY <1>6, <4>1, <4>2
    <3>2. CASE c \notin fw.codes
      <4>1. RegistersCode(a, tap) /\ c = a.code
        BY <1>3, <1>4, <3>2
      <4> QED BY <1>2, <1>6, <4>1
    <3> QED BY <3>1, <3>2
  <2>2. ASSUME NEW c \in fw'.mods
        PROVE  \E j \in Keys : /\ held'[j] # Up /\ RegistersMod(ActionOf(j)')
                               /\ ActionOf(j)'.code = c
    <3>1. CASE c \in fw.mods
      <4>1. PICK j \in Keys : /\ held[j] # Up /\ RegistersMod(ActionOf(j))
                              /\ ActionOf(j).code = c
        BY <3>1 DEF HeldInv
      <4>2. j # k
        BY <1>7, <4>1
      <4> QED BY <1>6, <4>1, <4>2
    <3>2. CASE c \notin fw.mods
      <4>1. RegistersMod(a) /\ c = a.code
        BY <1>3, <1>4, <3>2
      <4> QED BY <1>2, <1>6, <4>1
    <3> QED BY <3>1, <3>2
  <2> QED BY <2>1, <2>2 DEF HeldInv, RegistersCode, RegistersMod
<1> QED BY <1>3, <1>4, <1>5, <1>8 DEF TypeOK

LEMMA ReleaseHeld ==
  ASSUME TypeOK, HeldInv, NEW k \in Keys, Release(k)
  PROVE  TypeOK' /\ HeldInv'
<1> DEFINE a == ActionOf(k)
<1>1. /\ held[k] # Up /\ held[k] \in Nat /\ source_layers_cache[k] \in Layer
      /\ MaxTap \in Nat /\ 0 \in Layer
  BY TimeAssumption, LayerAssumption DEF Release, TypeOK, Up, Layer
<1>2. /\ fw' \in Firmware /\ fw'.codes \subseteq fw.codes /\ fw'.mods \subseteq fw.mods
      /\ RegistersCode(a, held[k]) => a.code \notin fw'.codes
      /\ RegistersMod(a) => a.code \notin fw'.mods
  <2> DEFINE s == oneshot_timeouts(fw)
  <2>1. s \in Firmware /\ s.codes = fw.codes /\ s.mods = fw.mods
    BY TimeoutsKeys DEF SameKeys
  <2>2. fw' = ReleaseRecord(s, source_layers_cache, k, held[k])
    BY DEF Release
  <2> HIDE DEF s
  <2> QED BY <1>1, <2>1, <2>2, ReleaseRecordKeys DEF ActionOf
<1>3. /\ held' = [held EXCEPT ![k] = Up] /\ UNCHANGED lastTap
      /\ source_layers_cache' = [source_layers_cache EXCEPT ![k] = 0]
  BY DEF Release
<1>4. held' \in [Keys -> Up .. MaxTap] /\ source_layers_cache' \in [Keys -> Layer]
  <2>1. Up \in Up .. MaxTap
    BY <1>1 DEF Up
  <2> QED BY <1>1, <1>3, <2>1 DEF TypeOK
<1>5. \A j \in Keys : j # k => held'[j] = held[j] /\ ActionOf(j)' = ActionOf(j)
  BY <1>3 DEF TypeOK, ActionOf
<1>6. HeldInv'
  <2>1. ASSUME NEW c \in fw'.codes
        PROVE  \E j \in Keys : /\ held'[j] # Up /\ RegistersCode(ActionOf(j)', held'[j])
                               /\ ActionOf(j)'.code = c
    <3>1. PICK j \in Keys : /\ held[j] # Up /\ RegistersCode(ActionOf(j), held[j])
                            /\ ActionOf(j).code = c
      BY <1>2 DEF HeldInv
    <3>2. j # k
      BY <1>2, <3>1
    <3> QED BY <1>5, <3>1, <3>2
  <2>2. ASSUME NEW c \in fw'.mods
        PROVE  \E j \in Keys : /\ held'[j] # Up /\ RegistersMod(ActionOf(j)')
                               /\ ActionOf(j)'.code = c
    <3>1. PICK j \in Keys : /\ held[j] # Up /\ RegistersMod(ActionOf(j))
                            /\ ActionOf(j).code = c
      BY <1>2 DEF HeldInv
    <3>2. j # k
      BY <1>2, <3>1
    <3> QED BY <1>5, <3>1, <3>2
  <2> QED BY <2>1, <2>2 DEF HeldInv, RegistersCode, RegistersMod
<1> QED BY <1>2, <1>3, <1>4, <1>6 DEF TypeOK

LEMMA LayersInit == Init => TypeOK /\ HeldInv
<1> SUFFICES ASSUME Init PROVE TypeOK /\ HeldInv
  OBVIOUS
<1>1. /\ 0 \in Layer /\ 0 \in 0 .. ONESHOT_TIMEOUT /\ 0 \in 0 .. LAYER_LOCK_IDLE_TIMEOUT + 1
      /\ Up \in Up .. MaxTap /\ 0 \in 0 .. MaxTap
  BY LayerAssumption, TimeAssumption DEF Layer, Up
<1>2. TypeOK
  BY <1>1 DEF Init, TypeOK, Firmware, NoTap
<1> QED BY <1>2 DEF Init, HeldInv

LEMMA LayersNext == TypeOK /\ HeldInv /\ [Next]_vars => TypeOK' /\ HeldInv'
<1> SUFFICES ASSUME TypeOK, HeldInv, [Next]_vars PROVE TypeOK' /\ HeldInv'
  OBVIOUS
<1>1. ASSUME NEW k \in Keys, Press(k) PROVE TypeOK' /\ HeldInv'
  BY <1>1, PressHeld
<1>2. ASSUME NEW k \in Keys, Release(k) PROVE TypeOK' /\ HeldInv'
  BY <1>2, ReleaseHeld
<1>3. ASSUME fw' \in SameKeys(fw), UNCHANGED <<source_layers_cache, held>>,
             lastTap' \in {lastTap, NoTap}
      PROVE  TypeOK' /\ HeldInv'
  <2>1. lastTap' \in [Keys -> 0 .. MaxTap]
    BY <1>3, TimeAssumption DEF NoTap, TypeOK
  <2> QED BY <1>3, <2>1 DEF TypeOK, HeldInv, ActionOf, SameKeys, RegistersCode, RegistersMod
<1>4. CASE Scan
  <2> DEFINE s == oneshot_timeouts(fw)
  <2>1. s \in SameKeys(fw)
    BY TimeoutsKeys
  <2>2. layer_lock_task(s) \in SameKeys(s)
    <3>1. s \in Firmware /\ 0 \in Layer
      BY <2>1, LayerAssumption DEF SameKeys, Layer
    <3> HIDE DEF s
    <3> QED BY <3>1, LockOps
  <2>3. fw' = layer_lock_task(s) /\ UNCHANGED <<source_layers_cache, held, lastTap>>
    BY <1>4 DEF Scan
  <2> HIDE DEF s
  <2> QED BY <1>3, <2>1, <2>2, <2>3 DEF SameKeys
<1>5. CASE Time
  <2> DEFINE l == IF fw.lock_age <= LAYER_LOCK_IDLE_TIMEOUT /\ fw.locked_layers # {}
                  THEN fw.lock_age + 1 ELSE fw.lock_age
             o == IF fw.oneshot_age < ONESHOT_TIMEOUT /\ is_oneshot_layer_active(fw)
                  THEN fw.oneshot_age + 1 ELSE fw.oneshot_age
  <2>1. l \in 0 .. LAYER_LOCK_IDLE_TIMEOUT + 1 /\ o \in 0 .. ONESHOT_TIMEOUT
    BY TimeAssumption DEF TypeOK, Firmware
  <2>2. fw' = [fw EXCEPT !.lock_age = l, !.oneshot_age = o]
    BY <1>5 DEF Time
  <2> HIDE DEF l, o
  <2>3. fw' \in SameKeys(fw)
    BY <2>1, <2>2 DEF SameKeys, TypeOK, Firmware
  <2> QED BY <1>3, <1>5, <2>3 DEF Time
<1>6. CASE UNCHANGED vars
  BY <1>6 DEF vars, TypeOK, HeldInv, ActionOf, RegistersCode, RegistersMod
<1> QED BY <1>1, <1>2, <1>4, <1>5, <1>6 DEF Next

\* The firmware's layer and one-shot state keeps its types for every keymap.
THEOREM LayersTypes == Spec => []TypeOK
  BY LayersInit, LayersNext, PTL DEF Spec

\* Once every key is up no code and no modifier is down, for every keymap and
\* however layers changed, were locked or were one-shot while keys were held
\* (store_or_get_action, process_layer_lock, process_action).
THEOREM NothingStuck == Spec => []NoStuckKeys
<1>1. HeldInv => NoStuckKeys
  BY DEF HeldInv, NoStuckKeys, AllUp
<1> QED BY LayersInit, LayersNext, <1>1, PTL DEF Spec

-----------------------------------------------------------------------------
(* Locks.  What each operation does to the locked layers and to the layers *)
(* that are on.                                                            *)

\* Layers off in t although they were on in s are the one-shot layer of s, and
\* only while that is in effect; locks, the switch for one-shot keys and, while
\* it lasts, the one-shot layer stay as they are.
OnlyOneshotOff(s, t) ==
  /\ t.locked_layers = s.locked_layers /\ t.oneshot_enable = s.oneshot_enable
  /\ s.layer_state \ t.layer_state
       \subseteq IF is_oneshot_layer_active(s) THEN {s.oneshot_layer} ELSE {}
  /\ t.layer_state \subseteq s.layer_state
  /\ is_oneshot_layer_active(t)
       => is_oneshot_layer_active(s) /\ t.oneshot_layer = s.oneshot_layer

LEMMA OnlyOneshotOffTwice ==
  ASSUME NEW s, NEW t, NEW u, OnlyOneshotOff(s, t), OnlyOneshotOff(t, u)
  PROVE  OnlyOneshotOff(s, u)
<1>1. is_oneshot_layer_active(t) \in BOOLEAN /\ is_oneshot_layer_active(s) \in BOOLEAN
  BY DEF is_oneshot_layer_active
<1> QED BY <1>1 DEF OnlyOneshotOff

LEMMA ClearOneshotOff ==
  ASSUME NEW s \in Firmware, NEW bit \in {"PRESSED", "OTHER_KEY_PRESSED"}
  PROVE  OnlyOneshotOff(s, clear_oneshot_layer_state(s, bit))
<1> DEFINE t == clear_oneshot_layer_state(s, bit)
<1>1. CASE s.oneshot_state = {bit} /\ s.oneshot_enable
  <2>1. t = reset_oneshot_layer(layer_off(s, s.oneshot_layer))
    BY <1>1 DEF clear_oneshot_layer_state
  <2>2. /\ t.layer_state = s.layer_state \ {s.oneshot_layer} /\ t.oneshot_state = {}
        /\ t.locked_layers = s.locked_layers /\ t.oneshot_enable = s.oneshot_enable
    BY <2>1 DEF reset_oneshot_layer, layer_off, Firmware
  <2>3. s.oneshot_state # {}
    BY <1>1
  <2> HIDE DEF t
  <2>4. OnlyOneshotOff(s, t)
    BY <2>2, <2>3 DEF OnlyOneshotOff, is_oneshot_layer_active
  <2> QED BY <2>4 DEF t
<1>2. CASE ~(s.oneshot_state = {bit} /\ s.oneshot_enable)
  <2>1. t = [s EXCEPT !.oneshot_state = @ \ {bit}]
    BY <1>2 DEF clear_oneshot_layer_state
  <2>2. /\ t.layer_state = s.layer_state /\ t.oneshot_state = s.oneshot_state \ {bit}
        /\ t.locked_layers = s.locked_layers /\ t.oneshot_enable = s.oneshot_enable
        /\ t.oneshot_layer = s.oneshot_layer
    BY <2>1 DEF Firmware
  <2>3. s.oneshot_state \ {bit} # {} => s.oneshot_state # {}
    OBVIOUS
  <2> HIDE DEF t
  <2>4. OnlyOneshotOff(s, t)
    BY <2>2, <2>3 DEF OnlyOneshotOff, is_oneshot_layer_active
  <2> QED BY <2>4 DEF t
<1> QED BY <1>1, <1>2

LEMMA TimeoutsOff ==
  ASSUME TypeOK
  PROVE  OnlyOneshotOff(fw, oneshot_timeouts(fw))
<1>1. fw \in Firmware
  BY DEF TypeOK
<1>2. OnlyOneshotOff(fw, clear_oneshot_layer_state(fw, "OTHER_KEY_PRESSED"))
  BY <1>1, ClearOneshotOff
<1>3. OnlyOneshotOff(fw, fw)
  BY DEF OnlyOneshotOff
<1> QED BY <1>2, <1>3 DEF oneshot_timeouts

\* The hooks lock at most one layer more.  That one is on, and not the layer of
\* a one-shot key that is still in effect; the press is not processed further.
HooksLock(s, pressed, q) ==
  \/ q.s.locked_layers \subseteq s.locked_layers
  \/ /\ pressed /\ ~q.on
     /\ \E n \in Layer :
          /\ q.s.locked_layers \subseteq s.locked_layers \cup {n} /\ n \in q.s.layer_state
          /\ is_oneshot_layer_active(q.s) => q.s.oneshot_layer # n

LEMMA InvertLocks ==
  ASSUME NEW s \in Firmware, NEW n \in Layer
  PROVE  LET t == layer_lock_invert(s, n)
         IN /\ n \in s.locked_layers => t.locked_layers \subseteq s.locked_layers
            /\ t.locked_layers \subseteq s.locked_layers \cup {n}
            /\ n \in t.locked_layers =>
                 n \in t.layer_state /\ (is_oneshot_layer_active(t) => t.oneshot_layer # n)
<1> DEFINE t == layer_lock_invert(s, n)
<1>1. CASE n \in s.locked_layers
  <2>1. t = [layer_off(s, n) EXCEPT !.locked_layers = @ \ {n}]
    BY <1>1 DEF layer_lock_invert
  <2>2. t.locked_layers = s.locked_layers \ {n}
    BY <2>1 DEF layer_off, Firmware
  <2> HIDE DEF t
  <2> QED BY <2>2 DEF t
<1>2. CASE n \notin s.locked_layers
  <2> DEFINE r == IF n = s.oneshot_layer THEN reset_oneshot_layer(s) ELSE s
  <2>1. /\ r \in Firmware /\ r.locked_layers = s.locked_layers
        /\ is_oneshot_layer_active(r) => r.oneshot_layer # n
    <3>1. CASE n = s.oneshot_layer
      <4>1. r = reset_oneshot_layer(s) /\ r \in Firmware
        BY <3>1, OneshotOps DEF SameKeys
      <4>2. r.oneshot_state = {} /\ r.locked_layers = s.locked_layers
        BY <4>1 DEF reset_oneshot_layer, Firmware
      <4> QED BY <4>1, <4>2 DEF is_oneshot_layer_active
    <3>2. CASE n # s.oneshot_layer
      BY <3>2
    <3> QED BY <3>1, <3>2
  <2>2. t = [layer_on(r, n) EXCEPT !.locked_layers = @ \cup {n}, !.lock_age = 0]
    BY <1>2 DEF layer_lock_invert
  <2> HIDE DEF r
  <2>3. /\ t.locked_layers = s.locked_layers \cup {n}
        /\ t.layer_state = r.layer_state \cup {n}
        /\ t.oneshot_layer = r.oneshot_layer /\ t.oneshot_state = r.oneshot_state
    BY <2>1, <2>2 DEF layer_on, Firmware
  <2> HIDE DEF t
  <2> QED BY <1>2, <2>1, <2>3 DEF is_oneshot_layer_active, t
<1> QED BY <1>1, <1>2

LEMMA QuantumLocks ==
  ASSUME NEW s \in Firmware, NEW a, IsAction(a), NEW pressed \in BOOLEAN, NEW tap \in Nat
  PROVE  HooksLock(s, pressed, process_record_quantum(s, a, pressed, tap))
<1> DEFINE tri == process_tri_layer(s, a, pressed)
           lock == process_layer_lock(tri.s, a, pressed, tap)
           q == process_record_quantum(s, a, pressed, tap)
<1>1. CASE a.kind \in {"TL_LOWR", "TL_UPPR"}
  <2> DEFINE n == IF a.kind = "TL_LOWR" THEN TriLower ELSE TriUpper
             t == IF pressed THEN layer_on(s, n) ELSE layer_off(s, n)
  <2>1. t.locked_layers = s.locked_layers /\ t \in Firmware
    <3>1. n \in Layer
      BY LayerAssumption
    <3> HIDE DEF n
    <3> QED BY <3>1, LayerOps DEF SameKeys, layer_on, layer_off, Firmware
  <2>2. q = Goes(update_tri_layer(t), FALSE)
    BY <1>1 DEF process_record_quantum, process_tri_layer, Goes
  <2> HIDE DEF t
  <2>3. update_tri_layer(t).locked_layers = t.locked_layers
    BY <2>1 DEF update_tri_layer, layer_on, layer_off, Firmware
  <2> QED BY <2>1, <2>2, <2>3 DEF Goes, HooksLock
<1>2. CASE a.kind \notin {"TL_LOWR", "TL_UPPR"}
  <2>1. tri = Goes(s, TRUE)
    BY <1>2 DEF process_tri_layer
  <2> DEFINE t == [s EXCEPT !.lock_age = 0, !.locked_layers = @ \cap s.layer_state]
             locked == a.layer \in t.locked_layers
  <2>2. t \in Firmware /\ t.locked_layers \subseteq s.locked_layers /\ a.layer \in Layer
        /\ t.layer_state \in SUBSET Layer
    <3>1. 0 \in 0 .. LAYER_LOCK_IDLE_TIMEOUT + 1
      BY TimeAssumption
    <3> QED BY <3>1 DEF Firmware, IsAction
  <2>3. lock = CASE a.kind = "LLOCK" ->
                      Goes(IF pressed
                           THEN layer_lock_invert(t, get_highest_layer(t.layer_state))
                           ELSE t, FALSE)
                 [] a.kind \in {"MO", "TT", "LM"} /\ locked ->
                      Goes(IF pressed THEN layer_lock_invert(t, a.layer)
                           ELSE IF a.kind = "LM" THEN [t EXCEPT !.mods = {}] ELSE t, FALSE)
                 [] a.kind = "LT" /\ tap = 0 /\ ~pressed /\ locked -> Goes(t, FALSE)
                 [] OTHER -> Goes(t, TRUE)
    BY <2>1 DEF process_layer_lock, Goes
  <2>4. q = IF ~lock.on THEN lock
            ELSE Goes(IF a.kind = "OS_TOGG" /\ pressed THEN oneshot_toggle(lock.s)
                                                       ELSE lock.s, TRUE)
    BY <2>1 DEF process_record_quantum, Goes
  <2> HIDE DEF t
  <2>5. CASE a.kind = "LLOCK" /\ pressed
    <3> DEFINE n == get_highest_layer(t.layer_state)
    <3>1. n \in Layer
      BY <2>2, HighestIsLayer
    <3>2. q.s = layer_lock_invert(t, n) /\ q.on = FALSE
      BY <2>3, <2>4, <2>5 DEF Goes
    <3> HIDE DEF n, q
    <3>3. /\ q.s.locked_layers \subseteq t.locked_layers \cup {n}
          /\ n \in q.s.locked_layers =>
               n \in q.s.layer_state /\ (is_oneshot_layer_active(q.s) => q.s.oneshot_layer # n)
      BY <2>2, <3>1, <3>2, InvertLocks
    <3>4. HooksLock(s, pressed, q)
      <4>1. CASE n \in q.s.locked_layers
        <5>1. /\ q.s.locked_layers \subseteq s.locked_layers \cup {n} /\ n \in q.s.layer_state
              /\ is_oneshot_layer_active(q.s) => q.s.oneshot_layer # n
          BY <2>2, <3>3, <4>1
        <5> QED BY <2>5, <3>1, <3>2, <5>1 DEF HooksLock
      <4>2. CASE n \notin q.s.locked_layers
        <5>1. q.s.locked_layers \subseteq s.locked_layers
          BY <2>2, <3>3, <4>2
        <5> QED BY <5>1 DEF HooksLock
      <4> QED BY <4>1, <4>2
    <3> QED BY <3>4 DEF q
  <2>6. CASE a.kind \in {"MO", "TT", "LM"} /\ locked /\ pressed
    <3>1. q.s = layer_lock_invert(t, a.layer)
      BY <2>3, <2>4, <2>6 DEF Goes
    <3>2. layer_lock_invert(t, a.layer).locked_layers \subseteq t.locked_layers
      BY <2>2, <2>6, InvertLocks
    <3> QED BY <2>2, <3>1, <3>2 DEF HooksLock
  <2>7. CASE ~(a.kind = "LLOCK" /\ pressed) /\ ~(a.kind \in {"MO", "TT", "LM"} /\ locked /\ pressed)
    <3>1. q.s \in {t, [t EXCEPT !.mods = {}], oneshot_toggle(t)}
      BY <2>3, <2>4, <2>7 DEF Goes
    <3>2. oneshot_toggle(t).locked_layers = t.locked_layers
      <4> DEFINE u == [t EXCEPT !.oneshot_enable = ~@]
      <4>1. u \in Firmware /\ u.locked_layers = t.locked_layers
        BY <2>2 DEF Firmware
      <4>2. oneshot_toggle(t) = clear_oneshot_layer_state(u, "OTHER_KEY_PRESSED")
        BY DEF oneshot_toggle
      <4> HIDE DEF u
      <4> QED BY <4>1, <4>2, ClearOneshotOff DEF OnlyOneshotOff
    <3>3. [t EXCEPT !.mods = {}].locked_layers = t.locked_layers
      BY <2>2 DEF Firmware
    <3>4. q.s.locked_layers \subseteq s.locked_layers
      BY <2>2, <3>1, <3>2, <3>3
    <3> QED BY <3>4 DEF HooksLock
  <2> QED BY <2>5, <2>6, <2>7
<1> QED BY <1>1, <1>2

\* The two switches of process_action lock nothing.
LEMMA ActionsLockNothing ==
  ASSUME NEW s \in Firmware, NEW a, IsAction(a), NEW tap \in Nat
  PROVE  /\ PressAction(s, a, tap).locked_layers = s.locked_layers
         /\ ReleaseAction(s, a, tap).locked_layers = s.locked_layers
<1>0. a.layer \in Layer
  BY DEF IsAction
<1>1. \A t \in Firmware :
        /\ \A n \in Layer : /\ layer_on(t, n).locked_layers = t.locked_layers
                            /\ layer_off(t, n).locked_layers = t.locked_layers
                            /\ layer_move(t, n).locked_layers = t.locked_layers
                            /\ layer_invert(t, n).locked_layers = t.locked_layers
        /\ register(t, a).locked_layers = t.locked_layers
        /\ unregister(t, a).locked_layers = t.locked_layers
  BY DEF layer_on, layer_off, layer_move, layer_invert, register, unregister, Firmware
<1>2. set_oneshot_layer(s, a.layer).locked_layers = s.locked_layers
  BY DEF set_oneshot_layer, layer_on, Firmware
<1>3. OneshotRelease(s, tap).locked_layers = s.locked_layers
  <2> DEFINE t == clear_oneshot_layer_state(s, "PRESSED")
  <2>1. t \in Firmware /\ t.locked_layers = s.locked_layers
    BY <1>0, OneshotOps, ClearOneshotOff DEF SameKeys, OnlyOneshotOff
  <2>2. OneshotRelease(s, tap) \in {t, clear_oneshot_layer_state(t, "OTHER_KEY_PRESSED")}
    BY DEF OneshotRelease
  <2> HIDE DEF t
  <2>3. clear_oneshot_layer_state(t, "OTHER_KEY_PRESSED").locked_layers = t.locked_layers
    BY <2>1, ClearOneshotOff DEF OnlyOneshotOff
  <2> QED BY <2>1, <2>2, <2>3
<1>4. PressAction(s, a, tap) \in {s, register(s, a), register(layer_on(s, a.layer), a),
         layer_on(s, a.layer), layer_invert(s, a.layer), layer_move(s, a.layer),
         set_oneshot_layer(s, a.layer)}
  BY DEF PressAction
<1>5. ReleaseAction(s, a, tap) \in {s, unregister(s, a), layer_off(unregister(s, a), a.layer),
         layer_off(s, a.layer), layer_invert(s, a.layer), OneshotRelease(s, tap),
         [s EXCEPT !.default_layer_state = {a.layer}]}
  BY DEF ReleaseAction
<1>6. [s EXCEPT !.default_layer_state = {a.layer}].locked_layers = s.locked_layers
  BY DEF Firmware
<1>7. layer_on(s, a.layer) \in Firmware /\ unregister(s, a) \in Firmware
  BY <1>0, LayerOps, RegisterKeys DEF SameKeys
<1>8. /\ register(layer_on(s, a.layer), a).locked_layers = s.locked_layers
      /\ layer_off(unregister(s, a), a.layer).locked_layers = s.locked_layers
  BY <1>0, <1>1, <1>7
<1>9. PressAction(s, a, tap).locked_layers = s.locked_layers
  BY <1>0, <1>1, <1>2, <1>4, <1>8
<1>10. ReleaseAction(s, a, tap).locked_layers = s.locked_layers
  BY <1>0, <1>1, <1>3, <1>5, <1>6, <1>8
<1> QED BY <1>9, <1>10

LEMMA ReleaseLocksNothing ==
  ASSUME NEW s \in Firmware, NEW cache, NEW k \in Keys, cache[k] \in Layer, NEW tap \in Nat
  PROVE  ReleaseRecord(s, cache, k, tap).locked_layers \subseteq s.locked_layers
<1> DEFINE a == Keymap[cache[k]][k]
           q == process_record_quantum(s, a, FALSE, tap)
<1>1. ReleaseRecord(s, cache, k, tap) = IF q.on THEN ReleaseAction(q.s, a, tap) ELSE q.s
  BY DEF ReleaseRecord, ReleaseLayer
<1>2. IsAction(a)
  BY KeymapActions
<1> HIDE DEF a
<1>3. HooksLock(s, FALSE, q) /\ HooksKeepKeys(s, a, FALSE, tap, q)
  BY <1>2, QuantumLocks, QuantumKeys, Zenon
<1> HIDE DEF q
<1>4. q.s.locked_layers \subseteq s.locked_layers /\ q.s \in Firmware
  BY <1>3 DEF HooksLock, HooksKeepKeys
<1>5. ReleaseAction(q.s, a, tap).locked_layers = q.s.locked_layers
  BY <1>2, <1>4, ActionsLockNothing
<1> QED BY <1>1, <1>4, <1>5

\* A press locks only what is on when it is done.
LEMMA PressLocks ==
  ASSUME NEW s \in Firmware, NEW cache \in [Keys -> Layer], NEW k \in Keys, NEW tap \in Nat
  PROVE  LET t == PressRecord(s, cache, k, tap).s
         IN t.locked_layers \ s.locked_layers \subseteq t.layer_state
<1> DEFINE r == PressRecord(s, cache, k, tap)
           n == layer_switch_get_layer(s, k)
           q == process_record_quantum(s, Keymap[n][k], TRUE, tap)
           m == layer_switch_get_layer(q.s, k)
           a == Keymap[m][k]
           ends == is_oneshot_layer_active(q.s) /\ a.kind # "MOD" /\ q.s.oneshot_enable
           t == IF ends THEN clear_oneshot_layer_state(q.s, "OTHER_KEY_PRESSED") ELSE q.s
           u == PressAction(t, a, tap)
           c == [cache EXCEPT ![k] = m]
           cl == clear_oneshot_layer_state(q.s, "OTHER_KEY_PRESSED")
<1>1. r.s = IF ~q.on
            THEN IF is_oneshot_layer_active(q.s) /\ q.s.oneshot_enable THEN cl ELSE q.s
            ELSE IF ends /\ ~is_oneshot_layer_active(t) /\ "PRESSED" \notin u.oneshot_state
                 THEN release_oneshot(u, c, k, tap) ELSE u
  BY DEF PressRecord
<1>2. n \in Layer
  BY KeyLayerIsLayer
<1>3. HooksLock(s, TRUE, q) /\ HooksKeepKeys(s, Keymap[n][k], TRUE, tap, q)
  <2>1. IsAction(Keymap[n][k])
    BY <1>2, KeymapActions
  <2> QED BY <2>1, QuantumLocks, QuantumKeys, Zenon
<1>4. q.s \in Firmware
  <2> HIDE DEF q
  <2> QED BY <1>3 DEF HooksKeepKeys
<1>5. m \in Layer
  <2> HIDE DEF q
  <2> QED BY <1>4, KeyLayerIsLayer
<1>6. OnlyOneshotOff(q.s, cl) /\ cl \in Firmware
  <2> HIDE DEF q, n
  <2> QED BY <1>2, <1>4, ClearOneshotOff, OneshotOps DEF SameKeys
<1> SUFFICES r.s.locked_layers \ s.locked_layers \subseteq r.s.layer_state
  OBVIOUS
<1> HIDE DEF q, n, cl
<1>7. CASE ~q.on
  <2>1. r.s \in {cl, q.s}
    BY <1>1, <1>7
  <2>2. q.s.locked_layers \ s.locked_layers \subseteq q.s.layer_state
    BY <1>3 DEF HooksLock
  <2>3. cl.locked_layers \ s.locked_layers \subseteq cl.layer_state
    BY <1>3, <1>6 DEF HooksLock, OnlyOneshotOff
  <2> HIDE DEF r
  <2> QED BY <2>1, <2>2, <2>3
<1>8. CASE q.on
  <2>1. q.s.locked_layers \subseteq s.locked_layers
    BY <1>3, <1>8 DEF HooksLock
  <2>2. t \in Firmware /\ t.locked_layers = q.s.locked_layers
    BY <1>4, <1>6 DEF OnlyOneshotOff, cl
  <2>3. IsAction(a)
    BY <1>5, KeymapActions
  <2>4. u.locked_layers = t.locked_layers /\ u \in Firmware
    <3> HIDE DEF a, t
    <3> QED BY <2>2, <2>3, ActionsLockNothing, PressActionKeys
  <2>5. c[k] \in Layer
    BY <1>5
  <2> HIDE DEF u, c, t
  <2>6. release_oneshot(u, c, k, tap).locked_layers \subseteq u.locked_layers
    <3>1. u.oneshot_layer \in Layer
      BY <2>4 DEF Firmware
    <3> DEFINE w == layer_on(u, u.oneshot_layer)
               v == ReleaseRecord(w, c, k, tap)
    <3>2. w \in Firmware /\ w.locked_layers = u.locked_layers
      BY <2>4, <3>1, LayerOps DEF SameKeys, layer_on, Firmware
    <3>3. v \in Firmware /\ v.locked_layers \subseteq u.locked_layers
      <4> HIDE DEF w
      <4> QED BY <2>5, <3>2, ReleaseLocksNothing, ReleaseRecordKeys
    <3>4. release_oneshot(u, c, k, tap) = layer_off(v, u.oneshot_layer)
      BY DEF release_oneshot
    <3> HIDE DEF v
    <3> QED BY <3>3, <3>4 DEF layer_off, Firmware
  <2>7. r.s \in {u, release_oneshot(u, c, k, tap)}
    BY <1>1, <1>8 DEF u, c, t, cl
  <2> HIDE DEF r
  <2> QED BY <2>1, <2>2, <2>4, <2>6, <2>7
<1> QED BY <1>7, <1>8

\* The release of a key of a kind that layer lock supports: a layer that is on
\* and locked goes off only with its one-shot key.
LEMMA LockableRelease ==
  ASSUME NEW s \in Firmware, NEW cache, NEW k \in Keys, cache[k] \in Layer, NEW tap \in Nat,
         Keymap[cache[k]][k].kind \in LockableKinds
  PROVE  LET a == Keymap[cache[k]][k]
         IN (s.locked_layers \cap s.layer_state) \ ReleaseRecord(s, cache, k, tap).layer_state
              \subseteq (IF is_oneshot_layer_active(s) THEN {s.oneshot_layer} ELSE {})
                        \cup (IF a.kind = "OSL" /\ ~s.oneshot_enable THEN {a.layer} ELSE {})
<1> DEFINE a == Keymap[cache[k]][k]
           q == process_record_quantum(s, a, FALSE, tap)
           t == [s EXCEPT !.lock_age = 0, !.locked_layers = @ \cap s.layer_state]
           r == ReleaseRecord(s, cache, k, tap)
           on == s.locked_layers \cap s.layer_state
<1>1. r = IF q.on THEN ReleaseAction(q.s, a, tap) ELSE q.s
  BY DEF ReleaseRecord, ReleaseLayer
<1>2. IsAction(a) /\ a.kind \in LockableKinds
  BY KeymapActions
<1> SUFFICES on \ r.layer_state
               \subseteq (IF is_oneshot_layer_active(s) THEN {s.oneshot_layer} ELSE {})
                         \cup (IF a.kind = "OSL" /\ ~s.oneshot_enable THEN {a.layer} ELSE {})
  OBVIOUS
<1>3. /\ t \in Firmware /\ t.locked_layers = on /\ t.layer_state = s.layer_state
      /\ t.oneshot_layer = s.oneshot_layer /\ t.oneshot_state = s.oneshot_state
      /\ t.oneshot_enable = s.oneshot_enable
  <2>1. 0 \in 0 .. LAYER_LOCK_IDLE_TIMEOUT + 1
    BY TimeAssumption
  <2> QED BY <2>1 DEF Firmware
<1>4. q = CASE a.kind \in {"MO", "TT", "LM"} /\ a.layer \in t.locked_layers ->
                 Goes(IF a.kind = "LM" THEN [t EXCEPT !.mods = {}] ELSE t, FALSE)
            [] a.kind = "LT" /\ tap = 0 /\ a.layer \in t.locked_layers -> Goes(t, FALSE)
            [] OTHER -> Goes(t, TRUE)
  <2> DEFINE lock == process_layer_lock(s, a, FALSE, tap)
  <2>1. q = IF ~lock.on THEN lock ELSE Goes(lock.s, TRUE)
    <3>1. process_tri_layer(s, a, FALSE) = Goes(s, TRUE)
      BY <1>2 DEF process_tri_layer, LockableKinds
    <3>2. Goes(s, TRUE).s = s /\ Goes(s, TRUE).on = TRUE
      BY DEF Goes
    <3>3. a.kind # "OS_TOGG"
      BY <1>2 DEF LockableKinds
    <3> QED BY <3>1, <3>2, <3>3 DEF process_record_quantum
  <2>2. lock = CASE a.kind \in {"MO", "TT", "LM"} /\ a.layer \in t.locked_layers ->
                      Goes(IF a.kind = "LM" THEN [t EXCEPT !.mods = {}] ELSE t, FALSE)
                 [] a.kind = "LT" /\ tap = 0 /\ a.layer \in t.locked_layers -> Goes(t, FALSE)
                 [] OTHER -> Goes(t, TRUE)
    BY <1>2 DEF process_layer_lock, LockableKinds
  <2> HIDE DEF t, q, a
  <2> QED BY <2>1, <2>2 DEF Goes
<1> HIDE DEF t, q, r
<1>5. CASE /\ a.layer \in on
           /\ a.kind \in {"MO", "TT", "LM"} \/ (a.kind = "LT" /\ tap = 0)
  <2>1. q.on = FALSE /\ q.s \in {t, [t EXCEPT !.mods = {}]}
    BY <1>3, <1>4, <1>5 DEF Goes
  <2>2. [t EXCEPT !.mods = {}].layer_state = t.layer_state
    BY <1>3 DEF Firmware
  <2> QED BY <1>1, <1>3, <2>1, <2>2
<1>6. CASE ~(/\ a.layer \in on
             /\ a.kind \in {"MO", "TT", "LM"} \/ (a.kind = "LT" /\ tap = 0))
  <2>1. q = Goes(t, TRUE)
    BY <1>3, <1>4, <1>6
  <2>2. r = ReleaseAction(t, a, tap)
    BY <1>1, <2>1 DEF Goes
  <2> HIDE DEF a, on
  <2>3. CASE a.kind = "OSL" /\ t.oneshot_enable
    <3>1. r = OneshotRelease(t, tap)
      BY <2>2, <2>3 DEF ReleaseAction
    <3>2. OnlyOneshotOff(t, r)
      <4> DEFINE v == clear_oneshot_layer_state(t, "PRESSED")
      <4>1. OnlyOneshotOff(t, v) /\ v \in Firmware
        <5>1. 0 \in Layer
          BY LayerAssumption DEF Layer
        <5> QED BY <1>3, <5>1, ClearOneshotOff, OneshotOps DEF SameKeys
      <4>2. r \in {v, clear_oneshot_layer_state(v, "OTHER_KEY_PRESSED")}
        BY <3>1 DEF OneshotRelease
      <4> HIDE DEF v
      <4>3. OnlyOneshotOff(v, clear_oneshot_layer_state(v, "OTHER_KEY_PRESSED"))
        BY <4>1, ClearOneshotOff
      <4> QED BY <4>1, <4>2, <4>3, OnlyOneshotOffTwice
    <3> QED BY <1>3, <3>2 DEF OnlyOneshotOff, is_oneshot_layer_active, on
  <2>4. CASE a.kind = "OSL" /\ ~t.oneshot_enable
    <3>1. r = layer_off(t, a.layer)
      BY <2>2, <2>4 DEF ReleaseAction
    <3>2. r.layer_state = t.layer_state \ {a.layer}
      BY <1>3, <3>1 DEF layer_off, Firmware
    <3> QED BY <1>3, <2>4, <3>2 DEF on
  <2>5. CASE a.kind = "LT" /\ tap > 0
    <3>1. r = unregister(t, a)
      BY <2>2, <2>5 DEF ReleaseAction
    <3>2. r.layer_state = t.layer_state
      BY <1>3, <3>1 DEF unregister, Firmware
    <3> QED BY <1>3, <3>2 DEF on
  <2>6. CASE a.kind \in {"MO", "TT", "LM"} \/ (a.kind = "LT" /\ tap = 0)
    <3>1. a.layer \notin on
      BY <1>6, <2>6
    <3>2. r \in {t, layer_off(t, a.layer), layer_off(unregister(t, a), a.layer),
                 layer_invert(t, a.layer)}
      BY <2>2, <2>6 DEF ReleaseAction
    <3>3. /\ layer_off(t, a.layer).layer_state = t.layer_state \ {a.layer}
          /\ layer_off(unregister(t, a), a.layer).layer_state = t.layer_state \ {a.layer}
          /\ layer_invert(t, a.layer).layer_state
               \in {t.layer_state \ {a.layer}, t.layer_state \cup {a.layer}}
      BY <1>3 DEF layer_off, layer_on, layer_invert, unregister, Firmware
    <3>4. t.layer_state \ {a.layer} \subseteq r.layer_state
      BY <3>2, <3>3
    <3> QED BY <1>3, <3>1, <3>4 DEF on
  <2>7. a.kind = "LT" => tap > 0 \/ tap = 0
    OBVIOUS
  <2> QED BY <1>2, <2>3, <2>4, <2>5, <2>6, <2>7 DEF LockableKinds
<1> QED BY <1>5, <1>6

\* The two halves of the property, for one step.
LEMMA StepKeepsLocks ==
  ASSUME TypeOK, Next
  PROVE  /\ fw'.locked_layers \ fw.locked_layers \subseteq fw'.layer_state
         /\ \A k \in Keys :
              held[k] # Up /\ held'[k] = Up
                /\ Keymap[source_layers_cache[k]][k].kind \in LockableKinds
              => (fw.locked_layers \cap fw.layer_state) \ fw'.layer_state
                   \subseteq LockExceptions(Keymap[source_layers_cache[k]][k])
<1> DEFINE s == oneshot_timeouts(fw)
<1>0. /\ fw \in Firmware /\ source_layers_cache \in [Keys -> Layer]
      /\ held \in [Keys -> Up .. MaxTap] /\ MaxTap \in Nat
  BY TimeAssumption DEF TypeOK
<1>1. s \in Firmware /\ OnlyOneshotOff(fw, s)
  BY TimeoutsKeys, TimeoutsOff DEF SameKeys
<1> HIDE DEF s
<1>2. s.locked_layers = fw.locked_layers /\ s.oneshot_enable = fw.oneshot_enable
  BY <1>1 DEF OnlyOneshotOff
<1>3. ASSUME NEW j \in Keys, Press(j)
      PROVE  /\ fw'.locked_layers \ fw.locked_layers \subseteq fw'.layer_state
             /\ \A k \in Keys : ~(held[k] # Up /\ held'[k] = Up)
  <2>1. PICK tap \in TapCounts(j) :
           /\ fw' = PressRecord(s, source_layers_cache, j, tap).s
           /\ held' = [held EXCEPT ![j] = tap]
    BY <1>3 DEF Press, s
  <2>2. tap \in Nat /\ tap # Up
    BY TapCountsRange DEF Up
  <2>3. fw'.locked_layers \ s.locked_layers \subseteq fw'.layer_state
    BY <1>0, <1>1, <2>1, <2>2, PressLocks
  <2>4. \A k \in Keys : ~(held[k] # Up /\ held'[k] = Up)
    BY <1>0, <2>1, <2>2
  <2> QED BY <1>2, <2>3, <2>4
<1>4. ASSUME NEW j \in Keys, Release(j)
      PROVE  /\ fw'.locked_layers \subseteq fw.locked_layers
             /\ \A k \in Keys : held[k] # Up /\ held'[k] = Up => k = j
             /\ Keymap[source_layers_cache[j]][j].kind \in LockableKinds =>
                  (fw.locked_layers \cap fw.layer_state) \ fw'.layer_state
                    \subseteq LockExceptions(Keymap[source_layers_cache[j]][j])
  <2> DEFINE a == Keymap[source_layers_cache[j]][j]
  <2>1. /\ fw' = ReleaseRecord(s, source_layers_cache, j, held[j])
        /\ held' = [held EXCEPT ![j] = Up] /\ held[j] # Up
    BY <1>4 DEF Release, s
  <2>2. held[j] \in Nat /\ source_layers_cache[j] \in Layer
    BY <1>0, <2>1 DEF Up
  <2>3. fw'.locked_layers \subseteq s.locked_layers
    BY <1>1, <2>1, <2>2, ReleaseLocksNothing
  <2>4. \A k \in Keys : held[k] # Up /\ held'[k] = Up => k = j
    BY <1>0, <2>1
  <2>5. ASSUME a.kind \in LockableKinds
        PROVE  (fw.locked_layers \cap fw.layer_state) \ fw'.layer_state \subseteq LockExceptions(a)
    <3>1. (s.locked_layers \cap s.layer_state) \ fw'.layer_state
            \subseteq (IF is_oneshot_layer_active(s) THEN {s.oneshot_layer} ELSE {})
                      \cup (IF a.kind = "OSL" /\ ~s.oneshot_enable THEN {a.layer} ELSE {})
      BY <1>1, <2>1, <2>2, <2>5, LockableRelease
    <3> HIDE DEF a
    <3> QED BY <1>1, <1>2, <3>1 DEF OnlyOneshotOff, LockExceptions
  <2> QED BY <1>2, <2>3, <2>4, <2>5
<1>5. CASE Scan
  <2>1. fw' = layer_lock_task(s) /\ held' = held
    BY <1>5 DEF Scan, s
  <2>2. fw'.locked_layers \in {s.locked_layers, {}}
    BY <1>1, <2>1 DEF layer_lock_task, layer_lock_all_off, Firmware
  <2> QED BY <1>2, <2>1, <2>2
<1>6. CASE Time
  <2>1. fw'.locked_layers = fw.locked_layers /\ held' = held
    BY <1>0, <1>6 DEF Time, Firmware
  <2> QED BY <2>1
<1> QED BY <1>3, <1>4, <1>5, <1>6 DEF Next

\* Layers that get locked are on, and releasing a key of a kind that layer lock
\* supports turns no locked layer off, for every keymap and every order of
\* presses, but for the one-shot exceptions the property names.
THEOREM LocksAlwaysHold == Spec => LocksHold
<1>1. TypeOK /\ [Next]_vars =>
        [/\ fw'.locked_layers \ fw.locked_layers \subseteq fw'.layer_state
         /\ \A k \in Keys :
              held[k] # Up /\ held'[k] = Up
                /\ Keymap[source_layers_cache[k]][k].kind \in LockableKinds
              => (fw.locked_layers \cap fw.layer_state) \ fw'.layer_state
                   \subseteq LockExceptions(Keymap[source_layers_cache[k]][k])]_vars
  BY StepKeepsLocks
<1> QED BY LayersTypes, <1>1, PTL DEF Spec, LocksHold
=============================================================================
