------------------------------ MODULE MCThrottle ------------------------------
(* Instances of Throttle for TLC: three interchangeable tags. *)
EXTENDS Throttle, TLC

CONSTANTS t1, t2, t3

MCMac == {t1, t2, t3}
MCDelays == {0, 1}
TagSymmetry == Permutations(MCMac)
===============================================================================
