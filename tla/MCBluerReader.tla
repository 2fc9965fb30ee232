---------------------------- MODULE MCBluerReader ----------------------------
(* An instance of BluerReader for TLC: two interchangeable devices, no      *)
(* symmetry because of the liveness property.                               *)
EXTENDS BluerReader

CONSTANTS d1, d2
===============================================================================
