---------------------------- MODULE MCKeyedLock -----------------------------
(* Instances of KeyedLock for TLC.  A new mutex is always available when   *)
(* there are as many as holders and keys together.                         *)
EXTENDS KeyedLock, TLC

Symmetric == Permutations(Holder) \cup Permutations(Mutex) \cup Permutations(Key)

=============================================================================
