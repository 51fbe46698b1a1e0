--------------------------- MODULE MCLevelDBMoves ---------------------------
(* An instance of LevelDBMoves for TLC: two accounts and an e-mail that    *)
(* two goroutines can move in opposite directions.  Mutexes differ in      *)
(* nothing but identity, so that it is enough to allocate one of the free  *)
(* ones; each key has as many of its own as there are goroutines.          *)
(* InstanceSpec is MovesFairSpec that allocates in this way.  (Symmetry is *)
(* unsound with CallsReturn.)                                              *)
EXTENDS LevelDBMoves

Of == CHOOSE of \in [Mutex -> Key] :
          \A k \in Key : Cardinality({m \in Mutex : of[m] = k}) = Cardinality(Thread)

AllocatesOne ==
    LET free == Locks!Fresh
    IN  \A k \in Key : locker'[k] # locker[k] /\ locker'[k] \in free =>
            locker'[k] = CHOOSE m \in free : Of[m] = k

InstanceSpec == MovesInit /\ [][MovesNext /\ AllocatesOne]_storeVars /\ Scheduling

=============================================================================
