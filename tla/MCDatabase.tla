----------------------------- MODULE MCDatabase -----------------------------
(* Instances of Database for TLC. *)
EXTENDS Database, TLC

\* Devices and hashes are interchangeable.
Symmetry == Permutations(Device) \cup Permutations(Hash)
=============================================================================
