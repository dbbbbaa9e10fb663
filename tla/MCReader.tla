------------------------------ MODULE MCReader ------------------------------
(* Instances of Reader for TLC. *)
EXTENDS Reader, TLC

\* Connection identities and hashes are interchangeable.
Symmetry == Permutations(Conn) \cup Permutations(Hash)

Reliable == {TRUE}
=============================================================================
