---------------------------- MODULE MCRedisSnapshot ----------------------------
(***************************************************************************)
(* RedisSnapshot for TLC: keys are interchangeable, and so are the         *)
(* connections that save.  No liveness is checked under this symmetry.     *)
(***************************************************************************)
EXTENDS RedisSnapshot

Symmetry == Permutations(Keys) \cup Permutations(Savers)

================================================================================
