------------------------------ MODULE MCTapping ------------------------------
(* Keyboards of three keys for TLC.                                        *)
EXTENDS Tapping, TLC
CONSTANTS a, b, c

Setup(ka, kb, kc, permissive, onOther, events) ==
  [kind |-> a :> ka @@ b :> kb @@ c :> kc,
   permissive_hold |-> permissive, hold_on_other_key_press |-> onOther,
   events_per_tick |-> events]

\* With one tap-hold key: a layer-tap without options, a mod-tap that any other key
\* makes a hold, a layer-tap that a nested tap makes a hold, among plain keys,
\* modifiers and momentary layer switches.  And two mod-taps and a plain key.
OneDecisionAtATime ==
  {Setup("lt", "mo", "basic", {}, {}, 3),
   Setup("mt", "mod", "basic", {}, {a}, 3),
   Setup("lt", "mo", "mod", {a}, {}, 1),
   Setup("mt", "mt", "basic", {}, {}, 1)}

\* A layer-tap, and a mod-tap that any other key makes a hold.
TwoTapKeys == {Setup("lt", "mt", "basic", {}, {b}, 1)}
=============================================================================
