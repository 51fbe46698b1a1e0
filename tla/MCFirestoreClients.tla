------------------------- MODULE MCFirestoreClients -------------------------
(* Instances of FirestoreClients for TLC.                                  *)
EXTENDS FirestoreClients, TLC

Symmetric == Permutations(Address) \cup Permutations(Email) \cup Permutations(Thread)

=============================================================================
