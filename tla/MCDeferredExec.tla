--------------------------- MODULE MCDeferredExec ---------------------------
(* Small instances of DeferredExec for TLC.                                *)
EXTENDS DeferredExec
=============================================================================
