------------------------------ MODULE MCLayers ------------------------------
(* A small instance of Layers for TLC.                                     *)
EXTENDS Layers, TLC

A(kind, layer, code) == [kind |-> kind, layer |-> layer, code |-> code]
Other(kind) == A(kind, 0, "none")

\* Layers 1 and 2 are reached by momentary, layer-tap, one-shot, layer-mod and
\* tri-layer keys, 3 is the adjust layer of the two; these three can be locked.
\* Layer 4 is toggled and has the keys that change how the others work.
MCKeymap ==
  (0 :> [a |-> A("MO", 1, "none"), b |-> A("OSL", 2, "none"),
         c |-> Other("TL_LOWR"), d |-> A("LT", 1, "y")]) @@
  (1 :> [a |-> Other("TRNS"), b |-> Other("LLOCK"),
         c |-> Other("TRNS"), d |-> Other("TL_UPPR")]) @@
  (2 :> [a |-> A("KEY", 0, "z"), b |-> Other("LLOCK"),
         c |-> A("TT", 4, "none"), d |-> A("MOD", 0, "sft")]) @@
  (3 :> [a |-> A("LM", 2, "ctl"), b |-> Other("LLOCK"),
         c |-> A("DF", 0, "none"), d |-> Other("TRNS")]) @@
  (4 :> [a |-> A("TO", 0, "none"), b |-> Other("OS_TOGG"),
         c |-> Other("TRNS"), d |-> A("TG", 4, "none")])
=============================================================================
