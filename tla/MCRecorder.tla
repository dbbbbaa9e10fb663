----------------------------- MODULE MCRecorder -----------------------------
(* Instances of Recorder for TLC. *)
EXTENDS Recorder, TLC

\* Connection identities, hashes and devices are interchangeable.
Symmetry == Permutations(Conn) \cup Permutations(Hash) \cup Permutations(Device)

Reliable == {TRUE}
=============================================================================
