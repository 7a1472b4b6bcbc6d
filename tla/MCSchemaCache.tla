--------------------------- MODULE MCSchemaCache ---------------------------
(* Instances of SchemaCache for TLC.  The threads are interchangeable, so     *)
(* the safety run identifies states that differ by a permutation of them.     *)
EXTENDS SchemaCache, TLC
CONSTANTS t1, t2, t3

ThreadSymmetry == Permutations(Threads)
=============================================================================
