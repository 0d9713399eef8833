---------------------------- MODULE MCDtcMemory ----------------------------
(* A TLC instance of DtcMemory: the two DTCs linked to a sensor and one    *)
(* that is only toggled.  The sensor ranges are scaled down to five        *)
(* values, with values below, at, between and above the thresholds; a step *)
(* of two crosses the band between the thresholds, which the real ranges   *)
(* do not allow in one step, so the instance explores more, not less.      *)
EXTENDS DtcMemory

ThreeDtcs == <<"engine", "battery", "brake">>
=============================================================================
