---------------------------- MODULE MCFileStorage ----------------------------
(* Threads and values are interchangeable; so are keys.                    *)
EXTENDS FileStorage, TLC

Symmetry == Permutations(Thread) \cup Permutations(Key) \cup Permutations(Value)
=============================================================================
