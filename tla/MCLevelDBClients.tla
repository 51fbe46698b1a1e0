-------------------------- MODULE MCLevelDBClients --------------------------
(* Instances of LevelDBClients for TLC.  Two goroutines hold four mutexes  *)
(* at most, and every table entry is the mutex of one of them.             *)
EXTENDS LevelDBClients, TLC

Symmetric == Permutations(Address) \cup Permutations(Email) \cup
             Permutations(Thread) \cup Permutations(Mutex)

=============================================================================
