---------------------------- MODULE MCOtaRollout ----------------------------
(* Instances of OtaRollout.  The two goroutines are interchangeable.        *)
EXTENDS OtaRollout, TLC

Scheduled == [u \in Updates |-> "scheduled"]
Immediate == [u \in Updates |-> "immediate"]

Full == [u \in Updates |-> {"full"}]
Both == [u \in Updates |-> {"full", "delta"}]

Symmetry == Permutations(Workers)
=============================================================================
