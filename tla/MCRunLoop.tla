------------------------------ MODULE MCRunLoop ------------------------------
(* Instances of RunLoop for TLC: two tags, and no time between the two clock *)
(* reads of should_emit (module Throttle is checked with a delay).           *)
EXTENDS RunLoop, TLC

CONSTANTS t1, t2

MCMac == {t1, t2}
MCDelays == {0}
AllOptions == [throttle : BOOLEAN, verbose : BOOLEAN]
BothOrNone == {o \in AllOptions : o.throttle = o.verbose}
TagSymmetry == Permutations(MCMac)
===============================================================================
