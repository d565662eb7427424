---------------------------- MODULE MCHistoryQueue ----------------------------
(* Small instances of HistoryQueue for TLC: two devices share a worker. *)
EXTENDS HistoryQueue, TLC

CONSTANTS d1, d2, s1

MCShardOf == d1 :> s1 @@ d2 :> s1
=============================================================================
