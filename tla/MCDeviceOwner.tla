---------------------------- MODULE MCDeviceOwner ----------------------------
(* Small instances of DeviceOwner for TLC. *)
EXTENDS DeviceOwner, TLC

CopySymmetry == Permutations(Copies)
=============================================================================
