--------------------------- MODULE MCRedisClients ---------------------------
(* Instances of RedisClients for TLC.                                      *)
EXTENDS RedisClients, TLC

Symmetric == Permutations(Address) \cup Permutations(Email) \cup Permutations(Thread)

=============================================================================
