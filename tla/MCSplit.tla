------------------------------- MODULE MCSplit ------------------------------
(* A small instance of Split for TLC.                                      *)
EXTENDS Split, TLC

\* Matrices 0 and 1 have the same checksum; that of 2 is the checksum byte of a
\* slave that has not scanned; 3 is a matrix the keys never produce.
MCCRC == (0 :> 1) @@ (1 :> 1) @@ (2 :> 0) @@ (3 :> 2)
=============================================================================
