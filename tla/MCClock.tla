-------------------------------- MODULE MCClock --------------------------------
(***************************************************************************)
(* Clock with the two ends of the table of frequencies, 0 and 2, and one   *)
(* that it does not hold.  2 is also what rtc_open sets, so the instance   *)
(* has three rates.  TLC evaluates the assumption: every entry of the      *)
(* table gives the rate of that frequency.                                 *)
(***************************************************************************)
EXTENDS Clock

MCFrequencies == {-1, 0, 2}

ASSUME TableAssumption == \A k \in 0 .. 10 : Hertz(SelectBits(FrequencySet[k])) = FrequencySet[k]
===============================================================================
