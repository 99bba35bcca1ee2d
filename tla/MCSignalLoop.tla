---------------------------- MODULE MCSignalLoop ----------------------------
(* Small instances of SignalLoop: rows of one asset, and a feed on which    *)
(* its signals alternate with those of an asset no row runs.                *)
EXTENDS SignalLoop, TLC
CONSTANTS a1, a2, t1, t2

OneAssetOf == [t \in Target |-> a1]
Alternating == [s \in Signal |-> IF s % 2 = 1 THEN a1 ELSE a2]
OneDay == [s \in Signal |-> 1]
=============================================================================
