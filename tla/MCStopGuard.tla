---------------------------- MODULE MCStopGuard -----------------------------
(* The guard at each kind of broker; the runs give the bounds. *)
EXTENDS StopGuard
=============================================================================
