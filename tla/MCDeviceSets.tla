---------------------------- MODULE MCDeviceSets -----------------------------
(* The threads serving clients are interchangeable.                         *)
EXTENDS DeviceSets, TLC

ClientSymmetry == Permutations(Clients)
=============================================================================
