------------------------ MODULE MCFirestoreSequential ------------------------
(* Instances of FirestoreSequential for TLC.                               *)
EXTENDS FirestoreSequential, TLC

Symmetric == Permutations(Address) \cup Permutations(Email)

=============================================================================
