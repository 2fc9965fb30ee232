----------------------------- MODULE MCHciReader -----------------------------
(* An instance of HciReader for TLC: more packets than the channel and the *)
(* socket's buffer hold together.                                           *)
EXTENDS HciReader
===============================================================================
